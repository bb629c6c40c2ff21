------------------------- MODULE SettingsProofs -------------------------
(***************************************************************************)
(* Proofs about SettingsFlow, for any combinations, changes, failures and  *)
(* reloads: the page, the file and the window agree once nothing is under  *)
(* way, the hotkey registered is the one stored, and a save changes what   *)
(* was asked for.                                                          *)
(*                                                                         *)
(* A page that has not read the settings may have two calls under way, and *)
(* the one before it may have left some.  What it reads is still what is   *)
(* stored when nothing else comes to follow (ReadIsFresh).  From then on   *)
(* its queue and its start have a call each at most, and those of the      *)
(* start come first (StartAhead) or are over (StartOut) where it matters:  *)
(* Order says when.  KnownInv says what each call asks for, what each      *)
(* answer says, and what is true of the page meanwhile.                    *)
(***************************************************************************)
EXTENDS SettingsFlow, TLAPS

-----------------------------------------------------------------------------
\* Types

Nobody == "nobody"
Senders == Threads \cup {Nobody}

\* What a preference asks to change, and what a save does.
Plain == {[f \in {"stays"} |-> b] : b \in BOOLEAN} \cup {[f \in {"seen"} |-> TRUE]}
Patches == Plain \cup {[f \in {"hotkey"} |-> name] : name \in Names}

Planned ==
    [kind : {"save"}, patch : Plain] \cup [kind : {"hotkey"}, name : Names]
    \cup [kind : {"import"}]

Messages ==
    [by : Senders, call : {"get", "import"}]
    \cup [by : Senders, call : {"save"}, patch : Patches, known : BOOLEAN, arg : Settings]
    \cup [by : Senders, call : {"hotkey"}, arg : Names]
    \cup [by : Senders, call : {"hides"}, arg : BOOLEAN]

Replied == [by : Threads, ok : BOOLEAN, value : Settings]

StartJobs == {NoJob} \cup [at : {"get", "effect", "blind", "reapply"}, kind : {"load"}]
QueueJobs ==
    {NoJob} \cup [at : {"save", "effect"}, kind : {"save"}]
    \cup [at : {"import", "get", "effect", "blind", "reapply"}, kind : {"import"}]
    \cup [at : {"apply", "save", "back"}, kind : {"hotkey"}, name : Names, previous : Names]

JobsType == DOMAIN jobs = Threads /\ jobs["start"] \in StartJobs /\ jobs["queue"] \in QueueJobs

SettingsTypeOK ==
    /\ stored \in Settings /\ copy \in Settings
    /\ legacy \in BOOLEAN /\ readable \in BOOLEAN /\ hides \in BOOLEAN
    /\ keyError \in BOOLEAN /\ known \in BOOLEAN /\ overtaken \in BOOLEAN
    /\ live \in Combos \cup {Off} /\ others \subseteq Combos
    /\ tray \in {Resting} \cup [at : {"registers", "restores"}, prev : Combos \cup {Off}]
    /\ queue \in Seq(Planned)
    /\ JobsType
    /\ posted \in Seq(Messages) /\ answers \in Seq(Replied)

-----------------------------------------------------------------------------
\* Calls and answers

\* The call a thread has under way.
Expected(at) ==
    CASE at \in {"save", "import", "get"} -> at
      [] at \in {"effect", "blind"} -> "hides"
      [] at \in {"apply", "back", "reapply"} -> "hotkey"
      [] OTHER -> "none"

OneEach ==
    /\ \A i, j \in DOMAIN posted :
          posted[i].by = posted[j].by /\ posted[i].by # Nobody => i = j
    /\ \A i, j \in DOMAIN answers : answers[i].by = answers[j].by => i = j
    /\ \A i \in DOMAIN posted, j \in DOMAIN answers : posted[i].by # answers[j].by

CallsFit ==
    /\ \A i \in DOMAIN posted :
          posted[i].by # Nobody => posted[i].call = Expected(jobs[posted[i].by].at)
    /\ \A j \in DOMAIN answers : jobs[answers[j].by] # NoJob

\* What a page has left behind comes before anything of the next.
OldFirst ==
    /\ \A i, k \in DOMAIN posted : posted[k].by = Nobody /\ posted[i].by # Nobody => k < i
    /\ answers # <<>> => \A i \in DOMAIN posted : posted[i].by # Nobody

Plumbing == OneEach /\ CallsFit /\ OldFirst

LEMMA TailOf ==
    ASSUME NEW S, NEW s \in Seq(S), s # <<>>
    PROVE  /\ Tail(s) \in Seq(S) /\ Head(s) \in S
           /\ Head(s) = s[1] /\ 1 \in DOMAIN s
           /\ Len(Tail(s)) = Len(s) - 1 /\ Len(s) \in Nat
           /\ \A i \in DOMAIN s : i \in Nat /\ i >= 1
           /\ \A i \in DOMAIN Tail(s) :
                  i \in Nat /\ i >= 1 /\ i + 1 \in DOMAIN s /\ Tail(s)[i] = s[i + 1]
           /\ \A i \in DOMAIN s : i = 1 \/ (i - 1 \in DOMAIN Tail(s) /\ s[i] = Tail(s)[i - 1])
    OBVIOUS

LEMMA AppendOf ==
    ASSUME NEW S, NEW s \in Seq(S), NEW x \in S
    PROVE  /\ Append(s, x) \in Seq(S) /\ Append(s, x) # <<>>
           /\ Len(Append(s, x)) = Len(s) + 1 /\ Len(s) \in Nat
           /\ \A i \in DOMAIN s : i \in Nat /\ i <= Len(s)
           /\ \A i \in DOMAIN s : i \in DOMAIN Append(s, x) /\ Append(s, x)[i] = s[i]
           /\ Len(s) + 1 \in DOMAIN Append(s, x) /\ Append(s, x)[Len(s) + 1] = x
           /\ \A i \in DOMAIN Append(s, x) : i \in DOMAIN s \/ i = Len(s) + 1
    OBVIOUS

LEMMA ElementOf ==
    ASSUME NEW S, NEW s \in Seq(S), NEW i \in DOMAIN s
    PROVE  s[i] \in S
    OBVIOUS

LEMMA MessageTypes ==
    \A m \in Messages :
        /\ m.by \in Senders /\ m.call \in {"get", "import", "save", "hotkey", "hides"}
        /\ m.call = "save" => m.patch \in Patches /\ m.known \in BOOLEAN /\ m.arg \in Settings
        /\ m.call = "hotkey" => m.arg \in Names
        /\ m.call = "hides" => m.arg \in BOOLEAN
    BY DEF Messages

LEMMA Underway ==
    ASSUME SettingsTypeOK
    PROVE  /\ \A i \in DOMAIN posted : posted[i] \in Messages /\ posted[i].by \in Senders
           /\ \A i \in DOMAIN posted : posted[i].call # "none"
           /\ \A j \in DOMAIN answers : answers[j] \in Replied /\ answers[j].by \in Threads
<1>1. /\ \A i \in DOMAIN posted : posted[i] \in Messages
      /\ \A j \in DOMAIN answers : answers[j] \in Replied
    BY ElementOf DEF SettingsTypeOK
<1>2. \A a \in Replied : a.by \in Threads
    BY DEF Replied
<1> QED
    BY <1>1, <1>2, MessageTypes

\* A thread takes its answer, and ends or calls again.
LEMMA TakingKeeps ==
    ASSUME SettingsTypeOK, Plumbing, NEW t \in Threads,
           answers # <<>>, Head(answers).by = t, answers' = Tail(answers),
           NEW job, jobs' = [jobs EXCEPT ![t] = job],
           \/ posted' = posted
           \/ \E m \in Messages :
                  posted' = Append(posted, m) /\ m.by = t /\ m.call = Expected(job.at)
    PROVE  Plumbing'
<1>1. posted \in Seq(Messages) /\ answers \in Seq(Replied) /\ DOMAIN jobs = Threads
    BY DEF SettingsTypeOK, JobsType
<1>2. /\ \A i \in DOMAIN posted : posted[i].by \in Senders
      /\ \A j \in DOMAIN answers : answers[j].by \in Threads
    BY Underway
<1>3. Nobody \notin Threads
    BY DEF Nobody, Threads
<1>4. jobs'[t] = job /\ \A u \in Threads \ {t} : jobs'[u] = jobs[u]
    BY <1>1
<1>5. /\ answers[1].by = t /\ 1 \in DOMAIN answers
      /\ \A j \in DOMAIN answers' : j \in Nat /\ j + 1 \in DOMAIN answers /\ answers'[j] = answers[j + 1]
      /\ \A j \in DOMAIN answers' : answers[j + 1].by # t /\ answers'[j].by \in Threads
  <2>1. /\ answers[1].by = t /\ 1 \in DOMAIN answers
        /\ \A j \in DOMAIN answers' :
              j \in Nat /\ j >= 1 /\ j + 1 \in DOMAIN answers /\ answers'[j] = answers[j + 1]
    BY <1>1, TailOf
  <2>2. \A j \in DOMAIN answers' : j + 1 # 1
    BY <2>1
  <2> QED
    BY <1>2, <2>1, <2>2 DEF Plumbing, OneEach
<1>6. /\ \A i \in DOMAIN posted : posted[i].by # t /\ posted[i].by # Nobody
    BY <1>5 DEF Plumbing, OneEach, OldFirst
<1>7. CASE posted' = posted
  <2>1. OneEach'
    BY <1>5, <1>7 DEF Plumbing, OneEach
  <2>2. CallsFit'
    BY <1>2, <1>4, <1>5, <1>6, <1>7 DEF Plumbing, CallsFit, Senders
  <2>3. OldFirst'
    BY <1>6, <1>7 DEF OldFirst
  <2> QED
    BY <2>1, <2>2, <2>3 DEF Plumbing
<1>8. CASE \E m \in Messages :
              posted' = Append(posted, m) /\ m.by = t /\ m.call = Expected(job.at)
  <2>1. PICK m \in Messages : posted' = Append(posted, m) /\ m.by = t /\ m.call = Expected(job.at)
    BY <1>8
  <2>2. \A i \in DOMAIN posted' :
            \/ i \in DOMAIN posted /\ posted'[i] = posted[i]
            \/ i = Len(posted) + 1 /\ posted'[i] = m
    BY <1>1, <2>1, AppendOf
  <2>3. OneEach'
    BY <1>3, <1>5, <1>6, <2>1, <2>2 DEF Plumbing, OneEach
  <2>4. CallsFit'
    BY <1>2, <1>4, <1>5, <1>6, <2>1, <2>2 DEF Plumbing, CallsFit, Senders
  <2>5. OldFirst'
    BY <1>3, <1>6, <2>1, <2>2 DEF OldFirst
  <2> QED
    BY <2>3, <2>4, <2>5 DEF Plumbing
<1> QED
    BY <1>7, <1>8

\* The queue calls.
LEMMA CallingKeeps ==
    ASSUME SettingsTypeOK, Plumbing, jobs["queue"] = NoJob, answers' = answers,
           NEW job, jobs' = [jobs EXCEPT !["queue"] = job], job # NoJob,
           NEW m \in Messages, posted' = Append(posted, m), m.by = "queue",
           m.call = Expected(job.at)
    PROVE  Plumbing'
<1>1. posted \in Seq(Messages) /\ answers \in Seq(Replied) /\ DOMAIN jobs = Threads
    BY DEF SettingsTypeOK, JobsType
<1>2. /\ \A i \in DOMAIN posted : posted[i].by \in Senders
      /\ \A i \in DOMAIN posted : posted[i].call # "none"
      /\ \A j \in DOMAIN answers : answers[j].by \in Threads
    BY Underway
<1>3. Nobody \notin Threads /\ "queue" \in Threads /\ Expected(NoJob.at) = "none"
    BY DEF Nobody, Threads, Expected, NoJob
<1>4. jobs'["queue"] = job /\ \A u \in Threads \ {"queue"} : jobs'[u] = jobs[u]
    BY <1>1, <1>3
<1>5. /\ \A i \in DOMAIN posted : posted[i].by # "queue"
      /\ \A j \in DOMAIN answers : answers[j].by # "queue"
    BY <1>2, <1>3 DEF Plumbing, CallsFit
<1>6. \A i \in DOMAIN posted' :
          \/ i \in DOMAIN posted /\ posted'[i] = posted[i]
          \/ i = Len(posted) + 1 /\ posted'[i] = m
    BY <1>1, AppendOf
<1>7. OneEach'
    BY <1>5, <1>6 DEF Plumbing, OneEach
<1>8. CallsFit'
    BY <1>2, <1>4, <1>5, <1>6 DEF Plumbing, CallsFit, Senders
<1>9. OldFirst'
  <2>1. \A i \in DOMAIN posted : i \in Nat /\ i <= Len(posted) /\ Len(posted) \in Nat
    BY <1>1
  <2>2. "queue" # Nobody
    BY DEF Nobody
  <2> QED
    BY <1>6, <2>1, <2>2 DEF Plumbing, OldFirst
<1> QED
    BY <1>7, <1>8, <1>9 DEF Plumbing

\* Go handles a call.
LEMMA HandlingKeeps ==
    ASSUME SettingsTypeOK, Plumbing, posted # <<>>, NEW ok \in BOOLEAN, NEW value \in Settings,
           Replies(ok, value), jobs' = jobs
    PROVE  Plumbing'
<1>1. posted \in Seq(Messages) /\ answers \in Seq(Replied)
    BY DEF SettingsTypeOK
<1>2. /\ Call = posted[1] /\ 1 \in DOMAIN posted /\ posted' = Tail(posted)
      /\ \A i \in DOMAIN posted' :
            i \in Nat /\ i >= 1 /\ i + 1 \in DOMAIN posted /\ posted'[i] = posted[i + 1]
      /\ \A i \in DOMAIN posted : i \in Nat /\ i >= 1
    BY <1>1, TailOf DEF Replies, Call
<1>3. \A i \in DOMAIN posted : posted[i].by \in Senders
    BY Underway
<1>4. CASE Call.by = Nobody
  <2>1. answers' = answers
    BY <1>4 DEF Replies, Nobody
  <2>2. OneEach'
    BY <1>2, <2>1 DEF Plumbing, OneEach
  <2>3. CallsFit'
    BY <1>2, <2>1 DEF Plumbing, CallsFit
  <2>4. OldFirst'
    BY <1>2, <2>1 DEF Plumbing, OldFirst
  <2> QED
    BY <2>2, <2>3, <2>4 DEF Plumbing
<1>5. CASE Call.by # Nobody
  <2> DEFINE a == [by |-> Call.by, ok |-> ok, value |-> value]
  <2>1. answers' = Append(answers, a)
    BY <1>5 DEF Replies, Nobody
  <2>2. a \in Replied /\ a.by = posted[1].by
    BY <1>2, <1>3, <1>5 DEF Replied, Senders
  <2> HIDE DEF a
  <2>3. \A j \in DOMAIN answers' :
            \/ j \in DOMAIN answers /\ answers'[j] = answers[j]
            \/ j = Len(answers) + 1 /\ answers'[j] = a
    BY <1>1, <2>1, <2>2, AppendOf
  <2>4. \A i \in DOMAIN posted' : posted'[i].by # posted[1].by \/ posted'[i].by = Nobody
    BY <1>2 DEF Plumbing, OneEach
  <2>5. \A i \in DOMAIN posted : posted[i].by # Nobody
    BY <1>2, <1>5 DEF Plumbing, OldFirst
  <2>6. OneEach'
    BY <1>2, <2>2, <2>3, <2>4, <2>5 DEF Plumbing, OneEach
  <2>7. jobs[a.by] # NoJob
    <3>1. Call.call = Expected(jobs[Call.by].at) /\ Call.call # "none"
      BY <1>1, <1>2, <1>5 DEF Plumbing, CallsFit, Messages
    <3> QED
      BY <1>2, <2>2, <3>1 DEF Expected, NoJob
  <2>8. CallsFit'
    BY <1>2, <2>3, <2>7 DEF Plumbing, CallsFit
  <2>9. OldFirst'
    BY <1>2, <2>5 DEF OldFirst
  <2> QED
    BY <2>6, <2>8, <2>9 DEF Plumbing
<1> QED
    BY <1>4, <1>5

\* The page is loaded again.
LEMMA ReloadKeeps ==
    ASSUME SettingsTypeOK, Reload
    PROVE  /\ Plumbing'
           /\ posted' \in Seq(Messages) /\ answers' \in Seq(Replied) /\ posted' # <<>>
           /\ Len(posted) \in Nat
           /\ \A i \in DOMAIN posted' :
                 \/ i \in DOMAIN posted /\ posted'[i] = [posted[i] EXCEPT !.by = "nobody"]
                 \/ i = Len(posted) + 1 /\ posted'[i] = GetCall("start")
           /\ \A i \in DOMAIN posted : i \in DOMAIN posted'
<1> DEFINE old == [i \in DOMAIN posted |-> [posted[i] EXCEPT !.by = "nobody"]]
<1>1. posted \in Seq(Messages) /\ Len(posted) \in Nat /\ DOMAIN posted = 1..Len(posted)
    BY DEF SettingsTypeOK
<1>2. \A m \in Messages : [m EXCEPT !.by = "nobody"] \in Messages
    BY DEF Messages, Senders, Nobody
<1>3. old \in Seq(Messages) /\ Len(old) = Len(posted)
    BY <1>1, <1>2, ElementOf
<1>4. \A i \in DOMAIN posted : i \in DOMAIN old /\ old[i] = [posted[i] EXCEPT !.by = "nobody"]
    OBVIOUS
<1>5. GetCall("start") \in Messages
    BY DEF GetCall, Messages, Senders, Threads
<1>6. posted' = Append(old, GetCall("start")) /\ answers' = <<>>
    BY DEF Reload
<1> HIDE DEF old
<1>7. /\ posted' \in Seq(Messages) /\ posted' # <<>> /\ answers' \in Seq(Replied)
      /\ \A i \in DOMAIN posted' :
            \/ i \in DOMAIN posted /\ posted'[i] = [posted[i] EXCEPT !.by = "nobody"]
            \/ i = Len(posted) + 1 /\ posted'[i] = GetCall("start")
      /\ \A i \in DOMAIN posted : i \in DOMAIN posted'
    BY <1>1, <1>3, <1>4, <1>5, <1>6, AppendOf
<1>8. \A i \in DOMAIN posted :
          [posted[i] EXCEPT !.by = "nobody"].by = Nobody /\ i \in Nat /\ i <= Len(posted)
    <2>1. \A m \in Messages : [m EXCEPT !.by = "nobody"].by = "nobody"
      BY DEF Messages
    <2> QED
      BY <1>1, <2>1, Underway DEF Nobody
<1>9. GetCall("start").by = "start" /\ GetCall("start").call = "get" /\ "start" # Nobody
    BY DEF GetCall, Nobody
<1>p. \A i \in DOMAIN posted' :
          \/ i \in Nat /\ i <= Len(posted) /\ posted'[i].by = Nobody
          \/ i = Len(posted) + 1 /\ posted'[i].by = "start" /\ posted'[i].call = "get"
    BY <1>7, <1>8, <1>9
<1>n. answers' = <<>> /\ DOMAIN answers' = {}
    BY <1>6
<1>10. OneEach' /\ OldFirst'
  <2>1. "start" # Nobody
    BY DEF Nobody
  <2> QED
    BY <1>1, <1>p, <1>n, <2>1 DEF OneEach, OldFirst
<1>11. CallsFit'
  <2>1. jobs'["start"] = Loading
    BY DEF Reload, Threads
  <2>2. Expected(Loading.at) = "get"
    BY DEF Loading, Expected
  <2> QED
    BY <1>p, <1>n, <2>1, <2>2 DEF CallsFit
<1> QED
    BY <1>1, <1>7, <1>10, <1>11 DEF Plumbing

-----------------------------------------------------------------------------
\* Every action keeps the types and the plumbing

Base == SettingsTypeOK /\ Plumbing

LEMMA SaveMessage ==
    ASSUME SettingsTypeOK, NEW p \in Patches
    PROVE  /\ Save(p) \in Messages
           /\ Save(p).by = "queue" /\ Save(p).call = "save"
           /\ Save(p).patch = p /\ Save(p).known = known
           /\ \A f \in Fields :
                 Save(p).arg[f] = IF f \in DOMAIN p THEN p[f] ELSE copy[f]
<1> DEFINE arg == [f \in Fields |-> IF f \in DOMAIN p THEN p[f] ELSE copy[f]]
<1>1. /\ \A f \in Fields \cap DOMAIN p : p[f] \in BOOLEAN \cup Names
      /\ "stays" \in DOMAIN p => p["stays"] \in BOOLEAN
      /\ "seen" \in DOMAIN p => p["seen"] \in BOOLEAN
      /\ "hotkey" \in DOMAIN p => p["hotkey"] \in Names
  <2>1. CASE \E b \in BOOLEAN : p = [f \in {"stays"} |-> b]
    BY <2>1
  <2>2. CASE p = [f \in {"seen"} |-> TRUE]
    BY <2>2
  <2>3. CASE \E name \in Names : p = [f \in {"hotkey"} |-> name]
    BY <2>3
  <2> QED
    BY <2>1, <2>2, <2>3 DEF Patches, Plain
<1>2. copy \in [Fields -> BOOLEAN \cup Names] /\ copy["stays"] \in BOOLEAN
      /\ copy["seen"] \in BOOLEAN /\ copy["hotkey"] \in Names
    BY DEF SettingsTypeOK, Settings
<1>3. arg \in [Fields -> BOOLEAN \cup Names]
    BY <1>1, <1>2
<1>4. arg["stays"] \in BOOLEAN /\ arg["seen"] \in BOOLEAN /\ arg["hotkey"] \in Names
    BY <1>1, <1>2 DEF Fields
<1>5. arg \in Settings
    BY <1>3, <1>4 DEF Settings
<1>6. Save(p) = [by |-> "queue", call |-> "save", patch |-> p, known |-> known, arg |-> arg]
    BY DEF Save
<1>7. \A f \in Fields : arg[f] = IF f \in DOMAIN p THEN p[f] ELSE copy[f]
    OBVIOUS
<1> HIDE DEF arg
<1> QED
    BY <1>5, <1>6, <1>7 DEF SettingsTypeOK, Messages, Senders, Threads

LEMMA OtherMessages ==
    ASSUME NEW t \in Threads
    PROVE  /\ GetCall(t) \in Messages /\ GetCall(t).by = t /\ GetCall(t).call = "get"
           /\ \A name \in Names :
                 /\ SetHotkey(t, name) \in Messages /\ SetHotkey(t, name).by = t
                 /\ SetHotkey(t, name).call = "hotkey" /\ SetHotkey(t, name).arg = name
           /\ \A b \in BOOLEAN :
                 /\ ApplyAutoHide(t, b) \in Messages /\ ApplyAutoHide(t, b).by = t
                 /\ ApplyAutoHide(t, b).call = "hides" /\ ApplyAutoHide(t, b).arg = b
    BY DEF GetCall, SetHotkey, ApplyAutoHide, Messages, Senders, Threads

LEMMA AnswerTypes ==
    ASSUME SettingsTypeOK, answers # <<>>
    PROVE  /\ Answer = answers[1] /\ 1 \in DOMAIN answers
           /\ Answer.by \in Threads /\ Answer.ok \in BOOLEAN /\ Answer.value \in Settings
           /\ Tail(answers) \in Seq(Replied)
<1>1. Answer \in Replied /\ Answer = answers[1] /\ 1 \in DOMAIN answers
      /\ Tail(answers) \in Seq(Replied)
    BY TailOf DEF SettingsTypeOK, Answer
<1> QED
    BY <1>1 DEF Replied

LEMMA JobTypes ==
    ASSUME SettingsTypeOK
    PROVE  /\ jobs["start"].at \in {"idle", "get", "effect", "blind", "reapply"}
           /\ jobs["start"].kind \in {"none", "load"}
           /\ \A t \in Threads : jobs[t].at = "idle" <=> jobs[t] = NoJob
           /\ LET q == jobs["queue"]
              IN  /\ q.at \in {"save", "effect"} /\ q.kind = "save" =>
                        q \in [at : {"save", "effect"}, kind : {"save"}]
                  /\ q.at \in {"import", "get", "blind", "reapply"} \/ q.kind = "import" =>
                        q \in [at : {"import", "get", "effect", "blind", "reapply"}, kind : {"import"}]
                  /\ q.at \in {"apply", "back"} \/ q.kind = "hotkey" =>
                        q \in [at : {"apply", "save", "back"}, kind : {"hotkey"},
                               name : Names, previous : Names]
                  /\ q.kind \in {"none", "save", "import", "hotkey"}
                  /\ q.at = "save" => q.kind \in {"save", "hotkey"}
                  /\ q.at = "effect" => q.kind \in {"save", "import"}
<1>1. jobs["start"] \in StartJobs /\ jobs["queue"] \in QueueJobs
    BY DEF SettingsTypeOK, JobsType
<1>2. \A t \in Threads : jobs[t].at = "idle" <=> jobs[t] = NoJob
    BY <1>1 DEF StartJobs, QueueJobs, NoJob, Threads
<1> QED
    BY <1>1, <1>2 DEF StartJobs, QueueJobs, NoJob

\* A thread takes its answer and is, or ends, at the job.
LEMMA TakenBase ==
    ASSUME Base, NEW t \in Threads, answers # <<>>, Answer.by = t, answers' = Tail(answers),
           UNCHANGED <<go, keys, queue>>,
           NEW job, jobs' = [jobs EXCEPT ![t] = job],
           IF t = "start" THEN job \in StartJobs ELSE job \in QueueJobs,
           copy' \in Settings, keyError' \in BOOLEAN, known' \in BOOLEAN,
           overtaken' \in BOOLEAN,
           \/ posted' = posted
           \/ \E m \in Messages :
                  posted' = Append(posted, m) /\ m.by = t /\ m.call = Expected(job.at)
    PROVE  Base'
<1>1. Plumbing'
    BY TakingKeeps DEF Base, Answer
<1>2. posted' \in Seq(Messages) /\ answers' \in Seq(Replied)
  <2>1. posted \in Seq(Messages)
    BY DEF Base, SettingsTypeOK
  <2>2. posted' \in Seq(Messages)
    BY SMTT(20), <2>1, AppendOf
  <2> QED
    BY <2>2, AnswerTypes DEF Base
<1>3. JobsType'
    BY DEF Base, SettingsTypeOK, JobsType, Threads
<1>4. SettingsTypeOK'
    BY <1>2, <1>3 DEF Base, SettingsTypeOK, go, keys
<1> QED
    BY <1>1, <1>4 DEF Base

\* ... at the step of its job it goes to.
LEMMA GoesBase ==
    ASSUME Base, NEW t \in Threads, NEW at, NEW m \in Messages, Goes(t, at, m),
           answers # <<>>, Answer.by = t, answers' = Tail(answers),
           UNCHANGED <<go, keys, queue>>,
           IF t = "start" THEN [jobs[t] EXCEPT !.at = at] \in StartJobs
                          ELSE [jobs[t] EXCEPT !.at = at] \in QueueJobs,
           [jobs[t] EXCEPT !.at = at].at = at,
           copy' \in Settings, keyError' \in BOOLEAN, known' \in BOOLEAN,
           overtaken' \in BOOLEAN,
           m.by = t, m.call = Expected(at)
    PROVE  Base'
<1> DEFINE job == [jobs[t] EXCEPT !.at = at]
<1>1. jobs' = [jobs EXCEPT ![t] = job] /\ posted' = Append(posted, m)
    BY DEF Goes, Calls, Base, SettingsTypeOK, JobsType
<1>2. m.call = Expected(job.at)
    OBVIOUS
<1> HIDE DEF job
<1>3. IF t = "start" THEN job \in StartJobs ELSE job \in QueueJobs
    BY DEF job
<1> QED
    BY <1>1, <1>2, <1>3, TakenBase

LEMMA EndsBase ==
    ASSUME Base, NEW t \in Threads, Ends(t),
           answers # <<>>, Answer.by = t, answers' = Tail(answers),
           UNCHANGED <<go, keys, queue>>,
           copy' \in Settings, keyError' \in BOOLEAN, known' \in BOOLEAN,
           overtaken' \in BOOLEAN
    PROVE  Base'
<1>1. NoJob \in StartJobs /\ NoJob \in QueueJobs
    BY DEF StartJobs, QueueJobs
<1> QED
    BY <1>1, TakenBase DEF Ends

LEMMA EnqueueBase ==
    ASSUME Base, NEW c \in Planned, Enqueue(c)
    PROVE  Base'
<1>1. queue' \in Seq(Planned)
    BY AppendOf DEF Base, SettingsTypeOK, Enqueue
<1>2. UNCHANGED <<stored, legacy, readable, hides, live, others, tray, copy, keyError, jobs,
                  known, overtaken, posted, answers>>
    BY DEF Enqueue, go, keys
<1> QED
    BY <1>1, <1>2 DEF Base, SettingsTypeOK, JobsType, Plumbing, OneEach, CallsFit, OldFirst

LEMMA UserBase == Base /\ User => Base'
<1> SUFFICES ASSUME Base, User PROVE Base'
    OBVIOUS
<1>1. CASE SavePreference
  <2>1. PICK b \in BOOLEAN : Enqueue([kind |-> "save", patch |-> [f \in {"stays"} |-> b]])
    BY <1>1 DEF SavePreference
  <2>2. [kind |-> "save", patch |-> [f \in {"stays"} |-> b]] \in Planned
    BY DEF Planned, Plain
  <2> QED
    BY <2>1, <2>2, EnqueueBase
<1>2. CASE OpenSettings
  <2>1. [kind |-> "save", patch |-> [f \in {"seen"} |-> TRUE]] \in Planned
    BY DEF Planned, Plain
  <2> QED
    BY <1>2, <2>1, EnqueueBase DEF OpenSettings
<1>3. CASE PickHotkey
  <2>1. PICK name \in Combos \cup {Off} : Enqueue([kind |-> "hotkey", name |-> name])
    BY <1>3 DEF PickHotkey
  <2>2. [kind |-> "hotkey", name |-> name] \in Planned
    BY DEF Planned, Names
  <2> QED
    BY <2>1, <2>2, EnqueueBase
<1>4. CASE Import
  <2>1. [kind |-> "import"] \in Planned
    BY DEF Planned
  <2> QED
    BY <1>4, <2>1, EnqueueBase DEF Import
<1> QED
    BY <1>1, <1>2, <1>3, <1>4 DEF User

\* The change at the head of the queue, its job and its call.
LEMMA BeginsWith ==
    ASSUME Base, Begin
    PROVE  /\ queue # <<>> /\ Head(queue) \in Planned /\ queue' = Tail(queue)
           /\ jobs["queue"] = NoJob
           /\ UNCHANGED <<go, keys, copy, known, answers, changes, faults>>
           /\ keyError' = (keyError /\ Head(queue).kind # "hotkey")
           /\ overtaken' = (overtaken /\ Head(queue).kind # "hotkey")
           /\ \E job \in QueueJobs, m \in Messages :
                 /\ jobs' = [jobs EXCEPT !["queue"] = job] /\ posted' = Append(posted, m)
                 /\ m.by = "queue" /\ m.call = Expected(job.at) /\ job # NoJob
                 /\ job.kind = Head(queue).kind
                 /\ job.kind = "save" =>
                       job.at = "save" /\ Head(queue).patch \in Plain /\ m = Save(Head(queue).patch)
                 /\ job.kind = "import" => job.at = "import"
                 /\ job.kind = "hotkey" =>
                       job.at = "apply" /\ m.arg = job.name /\ job.previous = copy["hotkey"]
<1> DEFINE c == Head(queue)
<1>1. queue # <<>> /\ jobs["queue"] = NoJob /\ queue' = Tail(queue)
      /\ UNCHANGED <<go, keys, copy, known, answers, changes, faults>>
      /\ keyError' = (keyError /\ c.kind # "hotkey")
      /\ overtaken' = (overtaken /\ c.kind # "hotkey")
    BY DEF Begin, Turn
<1>2. c \in Planned
    BY <1>1, TailOf DEF Base, SettingsTypeOK
<1>3. \/ c.kind = "save" /\ c.patch \in Plain
      \/ c.kind = "import"
      \/ c.kind = "hotkey" /\ c.name \in Names
    BY <1>2 DEF Planned
<1>4. CASE c.kind = "save"
  <2> DEFINE job == [at |-> "save", kind |-> "save"]
  <2>1. jobs' = [jobs EXCEPT !["queue"] = job] /\ posted' = Append(posted, Save(c.patch))
    BY <1>4 DEF Begin, Calls
  <2>2. job \in QueueJobs /\ job # NoJob /\ Expected(job.at) = "save"
    BY DEF QueueJobs, NoJob, Expected
  <2>3. c.patch \in Plain /\ c.patch \in Patches /\ job.kind = "save" /\ job.at = "save"
    BY <1>3, <1>4 DEF Patches
  <2>4. Save(c.patch) \in Messages /\ Save(c.patch).by = "queue" /\ Save(c.patch).call = "save"
    BY <2>3, SaveMessage DEF Base
  <2> HIDE DEF job, c
  <2>5. \E j \in QueueJobs, m \in Messages :
            /\ jobs' = [jobs EXCEPT !["queue"] = j] /\ posted' = Append(posted, m)
            /\ m.by = "queue" /\ m.call = Expected(j.at) /\ j # NoJob
            /\ j.kind = "save" /\ j.at = "save" /\ m = Save(c.patch)
    BY <2>1, <2>2, <2>3, <2>4
  <2> QED
    BY <1>1, <1>2, <1>4, <2>3, <2>5 DEF c
<1>5. CASE c.kind = "import"
  <2> DEFINE job == [at |-> "import", kind |-> "import"]
             call == [by |-> "queue", call |-> "import"]
  <2>1. jobs' = [jobs EXCEPT !["queue"] = job] /\ posted' = Append(posted, call)
    BY <1>5 DEF Begin, Calls
  <2>2. job \in QueueJobs /\ job # NoJob /\ Expected(job.at) = "import"
        /\ job.kind = "import" /\ job.at = "import"
    BY DEF QueueJobs, NoJob, Expected
  <2>3. call \in Messages /\ call.by = "queue" /\ call.call = "import"
    BY DEF Messages, Senders, Threads
  <2> HIDE DEF job, call, c
  <2>4. \E j \in QueueJobs, m \in Messages :
            /\ jobs' = [jobs EXCEPT !["queue"] = j] /\ posted' = Append(posted, m)
            /\ m.by = "queue" /\ m.call = Expected(j.at) /\ j # NoJob
            /\ j.kind = "import" /\ j.at = "import"
    BY <2>1, <2>2, <2>3
  <2> QED
    BY <1>1, <1>2, <1>5, <2>4 DEF c
<1>6. CASE c.kind = "hotkey"
  <2> DEFINE job == [at |-> "apply", kind |-> "hotkey", name |-> c.name, previous |-> copy["hotkey"]]
  <2>1. jobs' = [jobs EXCEPT !["queue"] = job] /\ posted' = Append(posted, SetHotkey("queue", c.name))
    BY <1>6 DEF Begin, Calls
  <2>2. c.name \in Names /\ copy["hotkey"] \in Names
    BY <1>3, <1>6 DEF Base, SettingsTypeOK, Settings
  <2>3. job \in QueueJobs /\ job # NoJob /\ Expected(job.at) = "hotkey"
        /\ job.kind = "hotkey" /\ job.at = "apply" /\ job.name = c.name
        /\ job.previous = copy["hotkey"]
    BY <2>2 DEF QueueJobs, NoJob, Expected
  <2>4. SetHotkey("queue", c.name) \in Messages /\ SetHotkey("queue", c.name).by = "queue"
        /\ SetHotkey("queue", c.name).call = "hotkey" /\ SetHotkey("queue", c.name).arg = c.name
    BY <2>2, OtherMessages DEF Threads
  <2> HIDE DEF job, c
  <2>5. \E j \in QueueJobs, m \in Messages :
            /\ jobs' = [jobs EXCEPT !["queue"] = j] /\ posted' = Append(posted, m)
            /\ m.by = "queue" /\ m.call = Expected(j.at) /\ j # NoJob
            /\ j.kind = "hotkey" /\ j.at = "apply" /\ m.arg = j.name /\ j.previous = copy["hotkey"]
    BY <2>1, <2>3, <2>4
  <2> QED
    BY <1>1, <1>2, <1>6, <2>5 DEF c
<1> QED
    BY <1>3, <1>4, <1>5, <1>6

LEMMA BeginBase == Base /\ Begin => Base'
<1> SUFFICES ASSUME Base, Begin PROVE Base'
    OBVIOUS
<1>1. /\ queue # <<>> /\ queue' = Tail(queue) /\ jobs["queue"] = NoJob
      /\ UNCHANGED <<go, keys, copy, known, answers, changes, faults>>
      /\ keyError' = (keyError /\ Head(queue).kind # "hotkey")
      /\ overtaken' = (overtaken /\ Head(queue).kind # "hotkey")
    BY BeginsWith
<1>2. PICK job \in QueueJobs, m \in Messages :
          /\ jobs' = [jobs EXCEPT !["queue"] = job] /\ posted' = Append(posted, m)
          /\ m.by = "queue" /\ m.call = Expected(job.at) /\ job # NoJob
    BY BeginsWith
<1>3. Plumbing'
    BY <1>1, <1>2, CallingKeeps DEF Base
<1>4. queue' \in Seq(Planned) /\ posted' \in Seq(Messages)
    BY <1>1, <1>2, TailOf, AppendOf DEF Base, SettingsTypeOK
<1>5. JobsType'
    BY <1>2 DEF Base, SettingsTypeOK, JobsType
<1>6. SettingsTypeOK'
    BY <1>1, <1>4, <1>5 DEF Base, SettingsTypeOK, go, keys
<1> QED
    BY <1>3, <1>6 DEF Base

LEMMA NextJob ==
    ASSUME SettingsTypeOK, NEW t \in Threads, NEW at,
           \/ t = "start" /\ jobs[t] # NoJob /\ at \in {"effect", "blind", "reapply"}
           \/ t = "queue" /\ jobs[t].kind = "save" /\ at = "effect"
           \/ t = "queue" /\ jobs[t].kind = "import" /\ at \in {"get", "effect", "blind", "reapply"}
           \/ t = "queue" /\ jobs[t].kind = "hotkey" /\ at \in {"save", "back"}
    PROVE  LET job == [jobs[t] EXCEPT !.at = at]
           IN  /\ IF t = "start" THEN job \in StartJobs ELSE job \in QueueJobs
               /\ job.at = at /\ job.kind = jobs[t].kind
               /\ job.kind = "hotkey" => job.name = jobs[t].name /\ job.previous = jobs[t].previous
<1>1. CASE t = "start"
  <2>1. jobs[t] \in [at : {"get", "effect", "blind", "reapply"}, kind : {"load"}]
    BY <1>1 DEF SettingsTypeOK, JobsType, StartJobs
  <2> QED
    BY <1>1, <2>1 DEF StartJobs
<1>2. CASE t = "queue" /\ jobs[t].kind = "save" /\ at = "effect"
  <2>1. jobs[t] \in [at : {"save", "effect"}, kind : {"save"}]
    BY <1>2 DEF SettingsTypeOK, JobsType, QueueJobs, NoJob
  <2> QED
    BY <1>2, <2>1 DEF QueueJobs
<1>3. CASE t = "queue" /\ jobs[t].kind = "import" /\ at \in {"get", "effect", "blind", "reapply"}
  <2>1. jobs[t] \in [at : {"import", "get", "effect", "blind", "reapply"}, kind : {"import"}]
    BY <1>3 DEF SettingsTypeOK, JobsType, QueueJobs, NoJob
  <2> QED
    BY <1>3, <2>1 DEF QueueJobs
<1>4. CASE t = "queue" /\ jobs[t].kind = "hotkey" /\ at \in {"save", "back"}
  <2>1. jobs[t] \in [at : {"apply", "save", "back"}, kind : {"hotkey"}, name : Names, previous : Names]
    BY <1>4 DEF SettingsTypeOK, JobsType, QueueJobs, NoJob
  <2> QED
    BY <1>4, <2>1 DEF QueueJobs
<1> QED
    BY <1>1, <1>2, <1>3, <1>4 DEF Threads

LEMMA KeyAppliedBase == Base /\ KeyApplied => Base'
<1> SUFFICES ASSUME Base, KeyApplied PROVE Base'
    OBVIOUS
<1> DEFINE p == [f \in {"hotkey"} |-> jobs["queue"].name]
<1>1. /\ answers # <<>> /\ Answer.by = "queue" /\ jobs["queue"].at = "apply"
      /\ answers' = Tail(answers) /\ UNCHANGED <<go, keys, queue, copy, known, overtaken>>
    BY DEF KeyApplied, Awaits
<1>2. SettingsTypeOK /\ "queue" \in Threads /\ copy' \in Settings /\ known' \in BOOLEAN
      /\ overtaken' \in BOOLEAN
    BY <1>1 DEF Base, SettingsTypeOK, Threads
<1>3. jobs["queue"].kind = "hotkey" /\ jobs["queue"].name \in Names
    BY <1>1, <1>2, JobTypes
<1>4. p \in Patches
    BY <1>3 DEF Patches
<1>5. CASE Answer.ok
  <2>1. Goes("queue", "save", Save(p)) /\ keyError' \in BOOLEAN
    BY <1>2, <1>5 DEF KeyApplied, SettingsTypeOK
  <2>j. [jobs["queue"] EXCEPT !.at = "save"] \in QueueJobs
        /\ [jobs["queue"] EXCEPT !.at = "save"].at = "save"
    BY <1>2, <1>3, NextJob
  <2>e. Expected("save") = "save"
    BY DEF Expected
  <2> HIDE DEF p
  <2>m. Save(p) \in Messages /\ Save(p).by = "queue" /\ Save(p).call = "save"
    BY <1>2, <1>4, SaveMessage
  <2> QED
    BY <1>1, <1>2, <2>1, <2>j, <2>e, <2>m, GoesBase
<1>6. CASE ~Answer.ok
  <2>1. Ends("queue") /\ keyError' \in BOOLEAN
    BY <1>6 DEF KeyApplied
  <2> QED
    BY <1>1, <1>2, <2>1, EndsBase
<1> QED
    BY <1>5, <1>6

LEMMA SavedBase == Base /\ Saved => Base'
<1> SUFFICES ASSUME Base, Saved PROVE Base'
    OBVIOUS
<1>1. /\ answers # <<>> /\ Answer.by = "queue" /\ jobs["queue"].at = "save"
      /\ answers' = Tail(answers) /\ UNCHANGED <<go, keys, queue, keyError, known, overtaken>>
      /\ IF Answer.ok THEN copy' = Answer.value ELSE copy' = copy
    BY DEF Saved, Awaits
<1>2. SettingsTypeOK /\ "queue" \in Threads /\ keyError' \in BOOLEAN /\ known' \in BOOLEAN
      /\ overtaken' \in BOOLEAN
    BY <1>1 DEF Base, SettingsTypeOK, Threads
<1>3. copy' \in Settings
    BY <1>1, <1>2, AnswerTypes DEF SettingsTypeOK
<1>4. CASE Answer.ok /\ jobs["queue"].kind = "save"
  <2>1. Goes("queue", "effect", ApplyAutoHide("queue", ~copy'["stays"]))
    BY <1>4 DEF Saved
  <2>2. (~copy'["stays"]) \in BOOLEAN
    BY <1>3 DEF Settings
  <2>j. [jobs["queue"] EXCEPT !.at = "effect"] \in QueueJobs
        /\ [jobs["queue"] EXCEPT !.at = "effect"].at = "effect"
    BY <1>2, <1>4, NextJob
  <2>e. Expected("effect") = "hides"
    BY DEF Expected
  <2> DEFINE m == ApplyAutoHide("queue", ~copy'["stays"])
  <2>m. m \in Messages /\ m.by = "queue" /\ m.call = "hides"
    BY <1>2, <2>2, OtherMessages
  <2> HIDE DEF m
  <2> QED
    BY <1>1, <1>2, <1>3, <2>1, <2>j, <2>e, <2>m, GoesBase DEF m
<1>5. CASE ~Answer.ok /\ jobs["queue"].kind = "hotkey"
  <2>1. Goes("queue", "back", SetHotkey("queue", jobs["queue"].previous))
    BY <1>5 DEF Saved
  <2>2. jobs["queue"].previous \in Names
    BY <1>2, <1>5, JobTypes
  <2>j. [jobs["queue"] EXCEPT !.at = "back"] \in QueueJobs
        /\ [jobs["queue"] EXCEPT !.at = "back"].at = "back"
    BY <1>2, <1>5, NextJob
  <2>e. Expected("back") = "hotkey"
    BY DEF Expected
  <2> DEFINE m == SetHotkey("queue", jobs["queue"].previous)
  <2>m. m \in Messages /\ m.by = "queue" /\ m.call = "hotkey"
    BY <1>2, <2>2, OtherMessages
  <2> HIDE DEF m
  <2> QED
    BY <1>1, <1>2, <1>3, <2>1, <2>j, <2>e, <2>m, GoesBase DEF m
<1>6. CASE Ends("queue")
    BY <1>1, <1>2, <1>3, <1>6, EndsBase
<1> QED
    BY <1>4, <1>5, <1>6 DEF Saved

LEMMA ImportedBase == Base /\ (Imported \/ KeyRestored) => Base'
<1> SUFFICES ASSUME Base, Imported \/ KeyRestored PROVE Base'
    OBVIOUS
<1>1. /\ answers # <<>> /\ Answer.by = "queue"
      /\ answers' = Tail(answers) /\ UNCHANGED <<go, keys, queue, copy, known, overtaken>>
    BY DEF Imported, KeyRestored, Awaits
<1>2. SettingsTypeOK /\ "queue" \in Threads /\ copy' \in Settings /\ known' \in BOOLEAN
      /\ overtaken' \in BOOLEAN
    BY <1>1 DEF Base, SettingsTypeOK, Threads
<1>3. keyError' \in BOOLEAN
    BY <1>1, <1>2, AnswerTypes DEF Imported, KeyRestored, SettingsTypeOK
<1>4. CASE Ends("queue")
    BY <1>1, <1>2, <1>3, <1>4, EndsBase
<1>5. CASE Imported /\ Goes("queue", "get", GetCall("queue"))
  <2>1. jobs["queue"].at = "import" /\ jobs["queue"].kind = "import"
    BY <1>2, <1>5, JobTypes DEF Imported, Awaits
  <2>j. [jobs["queue"] EXCEPT !.at = "get"] \in QueueJobs
        /\ [jobs["queue"] EXCEPT !.at = "get"].at = "get"
    BY <1>2, <2>1, NextJob
  <2>e. Expected("get") = "get"
    BY DEF Expected
  <2> DEFINE m == GetCall("queue")
  <2>m. m \in Messages /\ m.by = "queue" /\ m.call = "get"
    BY <1>2, OtherMessages
  <2> HIDE DEF m
  <2> QED
    BY <1>1, <1>2, <1>3, <1>5, <2>j, <2>e, <2>m, GoesBase DEF m
<1> QED
    BY <1>4, <1>5 DEF Imported, KeyRestored

LEMMA LoadedBase ==
    ASSUME Base, NEW t \in Threads, Loaded(t) \/ EffectDone(t) \/ KeyReapplied(t)
    PROVE  Base'
<1>1. /\ answers # <<>> /\ Answer.by = t
      /\ answers' = Tail(answers) /\ UNCHANGED <<go, keys, queue>>
    BY DEF Loaded, EffectDone, KeyReapplied, Awaits
<1>2. SettingsTypeOK
    BY DEF Base
<1>3. copy' \in Settings
    BY <1>1, <1>2, AnswerTypes DEF Loaded, EffectDone, KeyReapplied, SettingsTypeOK
<1>4. keyError' \in BOOLEAN /\ known' \in BOOLEAN /\ overtaken' \in BOOLEAN
    BY <1>1, <1>2, AnswerTypes DEF Loaded, EffectDone, KeyReapplied, SettingsTypeOK
<1>5. CASE Loaded(t)
  <2> DEFINE at == IF Answer.ok THEN "effect" ELSE "blind"
             m == ApplyAutoHide(t, ~copy'["stays"])
  <2>1. jobs[t].at = "get" /\ Goes(t, at, m)
    BY <1>5 DEF Loaded, Awaits, Goes
  <2>2. m \in Messages /\ m.by = t /\ m.call = "hides"
    <3>1. (~copy'["stays"]) \in BOOLEAN
      BY <1>3 DEF Settings
    <3> QED
      BY <3>1, OtherMessages
  <2>3. at \in {"effect", "blind"} /\ Expected(at) = "hides"
    BY DEF Expected
  <2>4. IF t = "start" THEN jobs[t] # NoJob ELSE t = "queue" /\ jobs[t].kind = "import"
    BY <1>2, <2>1, JobTypes DEF NoJob, Threads
  <2> HIDE DEF at, m
  <2>5. IF t = "start" THEN [jobs[t] EXCEPT !.at = at] \in StartJobs
                       ELSE [jobs[t] EXCEPT !.at = at] \in QueueJobs
    BY <1>2, <2>3, <2>4, NextJob
  <2>6. [jobs[t] EXCEPT !.at = at].at = at
    BY <1>2, <2>3, <2>4, NextJob
  <2> QED
    BY <1>1, <1>3, <1>4, <2>1, <2>2, <2>3, <2>5, <2>6, GoesBase
<1>6. CASE Ends(t)
    BY <1>1, <1>3, <1>4, <1>6, EndsBase
<1>7. CASE EffectDone(t) /\ ~Ends(t)
  <2>1. jobs[t].at = "effect" /\ jobs[t].kind # "save" /\ Goes(t, "reapply", SetHotkey(t, copy["hotkey"]))
    BY <1>7 DEF EffectDone
  <2>2. IF t = "start" THEN jobs[t] # NoJob ELSE t = "queue" /\ jobs[t].kind = "import"
    BY <1>2, <2>1, JobTypes DEF NoJob, Threads
  <2>3. copy["hotkey"] \in Names
    BY <1>2 DEF SettingsTypeOK, Settings
  <2> DEFINE m == SetHotkey(t, copy["hotkey"])
  <2>4. m \in Messages /\ m.by = t /\ m.call = "hotkey"
    BY <2>3, OtherMessages
  <2>5. IF t = "start" THEN [jobs[t] EXCEPT !.at = "reapply"] \in StartJobs
                       ELSE [jobs[t] EXCEPT !.at = "reapply"] \in QueueJobs
    BY <1>2, <2>2, NextJob
  <2>6. [jobs[t] EXCEPT !.at = "reapply"].at = "reapply"
    BY <1>2, <2>2, NextJob
  <2>7. Expected("reapply") = "hotkey"
    BY DEF Expected
  <2> HIDE DEF m
  <2> QED
    BY <1>1, <1>3, <1>4, <2>1, <2>4, <2>5, <2>6, <2>7, GoesBase DEF m
<1> QED
    BY <1>5, <1>6, <1>7 DEF KeyReapplied

LEMMA CallTypes ==
    ASSUME SettingsTypeOK, posted # <<>>
    PROVE  /\ Call = posted[1] /\ 1 \in DOMAIN posted /\ Call \in Messages
           /\ Call.call = "save" => Call.arg \in Settings
           /\ Call.call = "hotkey" => Call.arg \in Names /\ Resolve(Call.arg) \in Combos \cup {Off}
           /\ Call.call = "hides" => Call.arg \in BOOLEAN
<1>1. Call = posted[1] /\ 1 \in DOMAIN posted /\ Call \in Messages
    BY TailOf DEF SettingsTypeOK, Call
<1>2. Call.call = "hotkey" => Call.arg \in Names
    BY <1>1, MessageTypes
<1>3. Call.call = "hotkey" => Resolve(Call.arg) \in Combos \cup {Off}
    BY <1>2, CombosAssumption DEF Names, Resolve
<1> QED
    BY <1>1, <1>2, <1>3, MessageTypes

LEMMA BuiltinType == Builtin \in Settings
<1>1. Builtin \in [Fields -> BOOLEAN \cup Names]
    BY DEF Builtin, Names
<1>2. Builtin["stays"] \in BOOLEAN /\ Builtin["seen"] \in BOOLEAN /\ Builtin["hotkey"] \in Names
    BY DEF Builtin, Fields, Names
<1> QED
    BY <1>1, <1>2 DEF Settings

\* The tray thread works for the call at the head.
TrayServes == tray # Resting => Receives("hotkey")

LEMMA RepliesBase ==
    ASSUME Base, posted # <<>>, NEW ok \in BOOLEAN, NEW value \in Settings, Replies(ok, value),
           UNCHANGED page,
           stored' \in Settings, legacy' \in BOOLEAN, readable' \in BOOLEAN, hides' \in BOOLEAN,
           live' \in Combos \cup {Off}, others' \subseteq Combos, tray' = Resting
    PROVE  Base' /\ TrayServes'
<1>1. Plumbing'
    BY HandlingKeeps DEF Base, page
<1>2. posted' \in Seq(Messages)
    BY TailOf DEF Base, SettingsTypeOK, Replies
<1>3. answers' \in Seq(Replied)
  <2>1. CASE Call.by = "nobody"
    BY <2>1 DEF Base, SettingsTypeOK, Replies
  <2>2. CASE Call.by # "nobody"
    <3>1. Call.by \in Threads
      BY <2>2, CallTypes, MessageTypes DEF Base, Senders, Nobody
    <3>2. [by |-> Call.by, ok |-> ok, value |-> value] \in Replied
      BY <3>1 DEF Replied
    <3>3. answers \in Seq(Replied)
      BY DEF Base, SettingsTypeOK
    <3> QED
      BY <2>2, <3>2, <3>3, AppendOf DEF Replies
  <2> QED
    BY <2>1, <2>2
<1>4. SettingsTypeOK'
    BY <1>2, <1>3 DEF Base, SettingsTypeOK, JobsType, page
<1> QED
    BY <1>1, <1>4 DEF Base, TrayServes

LEMMA HandlersBase ==
    ASSUME Base, TrayServes, GetSettings \/ SaveSettings \/ SetAutoHide \/ ImportData
    PROVE  Base' /\ TrayServes'
<1>1. /\ posted # <<>> /\ Call.call \in {"get", "save", "hides", "import"}
      /\ UNCHANGED <<readable, keys, page>>
    BY DEF GetSettings, SaveSettings, SetAutoHide, ImportData, Receives
<1>2. tray' = Resting
    BY <1>1 DEF TrayServes, Receives, keys
<1>3. PICK ok \in BOOLEAN, value \in Settings : Replies(ok, value)
  <2>1. CASE Replies(FALSE, Builtin) \/ Replies(TRUE, Builtin)
    BY <2>1, BuiltinType
  <2>2. CASE Replies(TRUE, stored)
    BY <2>2 DEF Base, SettingsTypeOK
  <2>3. CASE Replies(TRUE, Call.arg) /\ Call.call = "save"
    BY <1>1, <2>3, CallTypes DEF Base
  <2> QED
    BY <2>1, <2>2, <2>3 DEF GetSettings, SaveSettings, SetAutoHide, ImportData, Fails, Receives
<1>4. legacy' \in BOOLEAN /\ hides' \in BOOLEAN
    BY <1>1, CallTypes DEF GetSettings, SaveSettings, SetAutoHide, ImportData, Fails, Base,
                           SettingsTypeOK, Receives
<1>5. stored' \in Settings
    BY <1>1, CallTypes, BackupsAssumption
    DEF GetSettings, SaveSettings, SetAutoHide, ImportData, Fails, Base, SettingsTypeOK, Receives
<1> QED
    BY <1>1, <1>2, <1>3, <1>4, <1>5, RepliesBase DEF keys, Base, SettingsTypeOK

LEMMA TrayBase ==
    ASSUME Base, TrayServes, Unregister \/ Register \/ Restore
    PROVE  Base' /\ TrayServes'
<1>1. SettingsTypeOK
    BY DEF Base
<1>2. CASE Unregister
  <2>1. /\ UNCHANGED <<go, others, page, posted, answers>> /\ live' = Off
        /\ tray' = [at |-> "registers", prev |-> live] /\ Receives("hotkey")
    BY <1>2 DEF Unregister
  <2>2. tray' \in [at : {"registers", "restores"}, prev : Combos \cup {Off}]
    BY <1>1, <2>1 DEF SettingsTypeOK
  <2>3. SettingsTypeOK'
    BY <1>1, <2>1, <2>2 DEF SettingsTypeOK, JobsType, go, page
  <2> QED
    BY <2>1, <2>3 DEF Base, Plumbing, OneEach, CallsFit, OldFirst, TrayServes, Receives, Call, page
<1>3. CASE Register \/ Restore
  <2>1. /\ tray \in [at : {"registers", "restores"}, prev : Combos \cup {Off}]
        /\ Receives("hotkey") /\ UNCHANGED <<go, others, page>>
    <3>0. Resting.at = "rests"
      BY DEF Resting
    <3>1. tray # Resting
      <4>1. CASE Register
        BY <3>0, <4>1 DEF Register
      <4>2. CASE Restore
        BY <3>0, <4>2 DEF Restore
      <4> QED
        BY <1>3, <4>1, <4>2
    <3>2. UNCHANGED <<go, others, page>>
      BY <1>3 DEF Register, Restore
    <3> QED
      BY <1>1, <3>1, <3>2 DEF SettingsTypeOK, TrayServes
  <2>2. /\ posted # <<>> /\ Resolve(Call.arg) \in Combos \cup {Off}
        /\ tray.prev \in Combos \cup {Off} /\ live \in Combos \cup {Off}
    BY <1>1, <2>1, CallTypes DEF Receives, SettingsTypeOK
  <2>3. CASE \E ok \in BOOLEAN : Returns(ok)
    <3>1. PICK ok \in BOOLEAN : Returns(ok)
      BY <2>3
    <3>2. live' \in Combos \cup {Off}
      BY <1>3, <2>2 DEF Register, Restore
    <3> QED
      BY <1>1, <2>1, <2>2, <3>1, <3>2, BuiltinType, RepliesBase DEF Returns, go, SettingsTypeOK
  <2>4. CASE tray' = [tray EXCEPT !.at = "restores"] /\ UNCHANGED <<live, posted, answers>>
    <3>1. tray' \in [at : {"registers", "restores"}, prev : Combos \cup {Off}]
      BY <2>1, <2>4
    <3>2. SettingsTypeOK'
      BY <1>1, <2>1, <2>4, <3>1 DEF SettingsTypeOK, JobsType, go, page
    <3> QED
      BY <2>1, <2>4, <3>2 DEF Base, Plumbing, OneEach, CallsFit, OldFirst, TrayServes, Receives,
                              Call, page
  <2> QED
    BY <1>3, <2>3, <2>4 DEF Register, Restore
<1> QED
    BY <1>2, <1>3

LEMMA WorldBase ==
    ASSUME Base, TrayServes, World
    PROVE  Base' /\ TrayServes'
<1>1. CASE OthersRegister \/ OthersUnregister \/ FileChanges
  <2>1. /\ UNCHANGED <<stored, legacy, hides, live, tray, page, posted, answers>>
        /\ readable' \in BOOLEAN /\ others' \subseteq Combos
    BY <1>1 DEF OthersRegister, OthersUnregister, FileChanges, go, keys, Base, SettingsTypeOK
  <2> QED
    BY <2>1 DEF Base, SettingsTypeOK, JobsType, Plumbing, OneEach, CallsFit, OldFirst, TrayServes,
                Receives, Call, page
<1>2. CASE Reload
  <2>1. /\ UNCHANGED <<go, keys>> /\ copy' = Builtin /\ keyError' = FALSE /\ known' = FALSE
        /\ overtaken' = FALSE
        /\ queue' = <<>>
        /\ jobs' = [t \in Threads |-> IF t = "start" THEN Loading ELSE NoJob]
    BY <1>2 DEF Reload
  <2>2. JobsType'
    BY <2>1 DEF JobsType, Threads, StartJobs, QueueJobs, Loading
  <2>3. queue' \in Seq(Planned)
    BY <2>1
  <2>4. SettingsTypeOK'
    BY <1>2, <2>1, <2>2, <2>3, ReloadKeeps, BuiltinType DEF Base, SettingsTypeOK, go, keys
  <2>5. TrayServes'
    <3>1. CASE posted = <<>>
      BY <2>1, <3>1 DEF TrayServes, Receives, keys
    <3>2. CASE posted # <<>>
      <4>1. 1 \in DOMAIN posted /\ Call = posted[1] /\ Call \in Messages
        BY <3>2, CallTypes DEF Base
      <4>2. posted' \in Seq(Messages) /\ posted' # <<>> /\ 1 \in DOMAIN posted'
            /\ (posted'[1] = [posted[1] EXCEPT !.by = "nobody"] \/ 1 = Len(posted) + 1)
        BY <1>2, <4>1, ReloadKeeps DEF Base
      <4>3. Len(posted) # 0
        BY <3>2 DEF Base, SettingsTypeOK
      <4>4. posted'[1].call = posted[1].call
        BY <1>2, <4>1, <4>2, <4>3, ReloadKeeps DEF Base, Messages
      <4>5. Head(posted') = posted'[1]
        BY <4>2, TailOf
      <4> QED
        BY <2>1, <4>1, <4>2, <4>4, <4>5 DEF TrayServes, Receives, Call, keys
    <3> QED
      BY <3>1, <3>2
  <2> QED
    BY <1>2, <2>4, <2>5, ReloadKeeps DEF Base
<1> QED
    BY <1>1, <1>2 DEF World

LEMMA PageTray ==
    ASSUME SettingsTypeOK, TrayServes, tray' = tray,
           posted' = posted \/ \E m : posted' = Append(posted, m)
    PROVE  TrayServes'
<1>1. CASE posted' = posted
    BY <1>1 DEF TrayServes, Receives, Call
<1>2. CASE \E m : posted' = Append(posted, m)
  <2>1. PICK m : posted' = Append(posted, m)
    BY <1>2
  <2>2. CASE posted # <<>>
    <3> DEFINE M == Messages \cup {m}
    <3>1. posted \in Seq(M) /\ m \in M
      BY DEF SettingsTypeOK
    <3> HIDE DEF M
    <3>2. posted' \in Seq(M) /\ posted' # <<>> /\ 1 \in DOMAIN posted /\ posted'[1] = posted[1]
      BY <2>1, <2>2, <3>1, TailOf, AppendOf
    <3>3. Head(posted') = posted'[1] /\ Head(posted) = posted[1]
      BY <2>2, <3>1, <3>2, TailOf
    <3> QED
      BY <2>2, <3>2, <3>3 DEF TrayServes, Receives, Call
  <2>3. CASE posted = <<>>
    BY <2>3 DEF TrayServes, Receives
  <2> QED
    BY <2>2, <2>3
<1> QED
    BY <1>1, <1>2

LEMMA BaseStep ==
    ASSUME Base, TrayServes, [Next]_vars
    PROVE  Base' /\ TrayServes'
<1>1. CASE User \/ Page
  <2>1. Base'
    BY <1>1, UserBase, BeginBase, KeyAppliedBase, SavedBase, ImportedBase, LoadedBase DEF Page
  <2>2. tray' = tray
    <3>1. CASE User
      BY <3>1 DEF User, SavePreference, OpenSettings, PickHotkey, Import, Enqueue, keys
    <3>2. CASE Page
      BY <3>2 DEF Page, Begin, KeyApplied, Saved, KeyRestored, Imported, Loaded, EffectDone,
                  KeyReapplied, Awaits, keys
    <3> QED
      BY <1>1, <3>1, <3>2
  <2>3. posted' = posted \/ \E m : posted' = Append(posted, m)
    <3>1. CASE User
      BY <3>1 DEF User, SavePreference, OpenSettings, PickHotkey, Import, Enqueue
    <3>2. CASE Begin
      BY <3>2, BeginsWith
    <3>3. CASE Page /\ ~Begin
      BY <3>3 DEF Page, KeyApplied, Saved, KeyRestored, Imported, Loaded, EffectDone,
                  KeyReapplied, Goes, Ends, Calls
    <3> QED
      BY <1>1, <3>1, <3>2, <3>3
  <2>4. TrayServes'
    BY <2>2, <2>3, PageTray DEF Base
  <2> QED
    BY <2>1, <2>4
<1>2. CASE UIThread \/ ImportData
    BY <1>2, HandlersBase DEF UIThread
<1>3. CASE TrayThread
    BY <1>3, TrayBase DEF TrayThread
<1>4. CASE World
    BY <1>4, WorldBase
<1>5. CASE UNCHANGED vars
    BY <1>5 DEF vars, go, keys, page, Base, SettingsTypeOK, JobsType, Plumbing, OneEach, CallsFit,
                OldFirst, TrayServes, Receives, Call
<1> QED
    BY <1>1, <1>2, <1>3, <1>4, <1>5 DEF Next

LEMMA BaseInit == Init => Base /\ TrayServes
<1> SUFFICES ASSUME Init PROVE Base /\ TrayServes
    OBVIOUS
<1>1. /\ posted = <<GetCall("start")>> /\ answers = <<>> /\ queue = <<>> /\ tray = Resting
      /\ copy = Builtin /\ keyError = FALSE /\ known = FALSE /\ overtaken = FALSE
      /\ stored \in Backups /\ legacy \in BOOLEAN /\ readable \in BOOLEAN
      /\ others \subseteq Combos
      /\ jobs = [t \in Threads |-> IF t = "start" THEN Loading ELSE NoJob]
    BY DEF Init
<1>2. JobsType
    BY <1>1 DEF JobsType, Threads, StartJobs, QueueJobs, Loading
<1>3. GetCall("start") \in Messages /\ GetCall("start").by = "start" /\ GetCall("start").call = "get"
    BY OtherMessages DEF Threads
<1>4. /\ posted \in Seq(Messages) /\ queue \in Seq(Planned) /\ answers \in Seq(Replied)
      /\ DOMAIN posted = {1} /\ posted[1] = GetCall("start") /\ DOMAIN answers = {}
    BY <1>1, <1>3
<1>5. /\ live \in Combos \cup {Off} /\ hides \in BOOLEAN
  <2>1. PICK s \in Settings :
            /\ live = IF Resolve(s["hotkey"]) \in others THEN Off ELSE Resolve(s["hotkey"])
            /\ hides = ~s["stays"]
    BY <1>1, BuiltinType, BackupsAssumption DEF Init
  <2>2. s["hotkey"] \in Names
    BY DEF Settings
  <2> QED
    BY <2>1, <2>2, CombosAssumption DEF Resolve, Names
<1>6. SettingsTypeOK
    BY <1>1, <1>2, <1>4, <1>5, BuiltinType, BackupsAssumption DEF SettingsTypeOK
<1>7. Plumbing
  <2>1. Expected(jobs["start"].at) = "get" /\ "start" # Nobody
    BY <1>1 DEF Expected, Loading, Threads, Nobody
  <2> QED
    BY <1>1, <1>3, <1>4, <2>1 DEF Plumbing, OneEach, CallsFit, OldFirst
<1> QED
    BY <1>1, <1>6, <1>7 DEF Base, TrayServes

-----------------------------------------------------------------------------
\* What is read, and what is saved

\* What the start has been told is stored is stored, unless it will be told of
\* a save or an import too.
ReadIsFresh ==
    \A j \in DOMAIN answers :
        answers[j].by = "start" /\ jobs["start"].at = "get" /\ answers[j].ok =>
            \/ answers[j].value = stored
            \/ \E k \in DOMAIN answers : k > j /\ answers[k].by = "queue"

SavesAsAsked ==
    \A i \in DOMAIN posted :
        posted[i].call = "save" /\ posted[i].known =>
            /\ \A f \in Fields : f \notin DOMAIN posted[i].patch => posted[i].arg[f] = stored[f]
            /\ \A k \in DOMAIN posted : k < i => posted[k].call \notin {"save", "import"}

\* An import that succeeded has stored its settings, so they can be read.
StoredAfterImport ==
    /\ jobs["queue"].at = "get" => ~legacy
    /\ jobs["queue"].at # "blind"
    /\ \A j \in DOMAIN answers : answers[j].by = "queue" =>
          /\ jobs["queue"].at = "import" /\ answers[j].ok => ~legacy
          /\ jobs["queue"].at = "get" => answers[j].ok

Side == ReadIsFresh /\ SavesAsAsked /\ StoredAfterImport

\* A call that a page may make at this moment.
Sound(m) ==
    m.call = "save" /\ m.known =>
        /\ \A i \in DOMAIN posted : posted[i].call \notin {"save", "import"}
        /\ \A f \in Fields : f \notin DOMAIN m.patch => m.arg[f] = stored[f]

LEMMA CallingSaves ==
    ASSUME Base, SavesAsAsked, stored' = stored,
           \/ posted' = posted
           \/ \E m \in Messages : posted' = Append(posted, m) /\ Sound(m)
    PROVE  SavesAsAsked'
<1>1. posted \in Seq(Messages)
    BY DEF Base, SettingsTypeOK
<1>2. CASE posted' = posted
    BY <1>2 DEF SavesAsAsked
<1>3. CASE \E m \in Messages : posted' = Append(posted, m) /\ Sound(m)
  <2>1. PICK m \in Messages : posted' = Append(posted, m) /\ Sound(m)
    BY <1>3
  <2>2. \A i \in DOMAIN posted' :
            \/ i \in DOMAIN posted /\ posted'[i] = posted[i]
            \/ i = Len(posted) + 1 /\ posted'[i] = m
    BY <1>1, <2>1, AppendOf
  <2>3. \A i \in DOMAIN posted : i \in Nat /\ i <= Len(posted) /\ Len(posted) \in Nat
    BY <1>1
  <2> QED
    BY <2>1, <2>2, <2>3 DEF SavesAsAsked, Sound
<1> QED
    BY <1>2, <1>3

\* A thread takes its answer, and ends or calls again.
LEMMA TakingSide ==
    ASSUME Base, Side, NEW t \in Threads, answers # <<>>, Answer.by = t,
           answers' = Tail(answers), UNCHANGED go,
           NEW job, jobs' = [jobs EXCEPT ![t] = job],
           t = "start" => job.at # "get",
           t = "queue" => job.at # "blind" /\ (job.at = "get" => ~legacy),
           \/ posted' = posted
           \/ \E m \in Messages : posted' = Append(posted, m) /\ Sound(m)
    PROVE  Side'
<1>1. answers \in Seq(Replied) /\ DOMAIN jobs = Threads
    BY DEF Base, SettingsTypeOK, JobsType
<1>2. /\ Answer = answers[1] /\ 1 \in DOMAIN answers
      /\ \A j \in DOMAIN answers' :
            j \in Nat /\ j >= 1 /\ j + 1 \in DOMAIN answers /\ answers'[j] = answers[j + 1]
      /\ \A j \in DOMAIN answers :
            j \in Nat /\ (j = 1 \/ (j - 1 \in DOMAIN answers' /\ answers[j] = answers'[j - 1]))
    BY <1>1, TailOf DEF Answer
<1>3. \A j \in DOMAIN answers' : answers'[j].by # t
  <2>1. \A j \in DOMAIN answers' : j + 1 # 1
    BY <1>2
  <2> QED
    BY <1>2, <2>1 DEF Base, Plumbing, OneEach
<1>4. UNCHANGED <<stored, legacy>>
    BY DEF go
<1>5. SavesAsAsked'
    BY <1>4, CallingSaves DEF Side
<1>6. ReadIsFresh'
  <2>1. CASE t = "start"
    BY <1>3, <2>1 DEF ReadIsFresh
  <2>2. CASE t # "start"
    <3> SUFFICES ASSUME NEW j \in DOMAIN answers', answers'[j].by = "start",
                        jobs'["start"].at = "get", answers'[j].ok, answers'[j].value # stored
                 PROVE  \E k \in DOMAIN answers' : k > j /\ answers'[k].by = "queue"
      BY <1>4 DEF ReadIsFresh
    <3>1. jobs'["start"] = jobs["start"]
      BY <1>1, <2>2
    <3>2. PICK k \in DOMAIN answers : k > j + 1 /\ answers[k].by = "queue"
      BY <1>2, <3>1 DEF Side, ReadIsFresh
    <3>3. k - 1 \in DOMAIN answers' /\ answers[k] = answers'[k - 1] /\ k - 1 > j
      BY <1>2, <3>2
    <3> QED
      BY <3>2, <3>3
  <2> QED
    BY <2>1, <2>2
<1>7. StoredAfterImport'
  <2>1. CASE t = "queue"
    <3>1. jobs'["queue"] = job
      BY <1>1, <2>1
    <3> QED
      BY <1>3, <1>4, <2>1, <3>1 DEF StoredAfterImport
  <2>2. CASE t # "queue"
    <3>1. jobs'["queue"] = jobs["queue"]
      BY <1>1, <2>2
    <3> QED
      BY <1>2, <1>4, <3>1 DEF Side, StoredAfterImport
  <2> QED
    BY <2>1, <2>2
<1> QED
    BY <1>5, <1>6, <1>7 DEF Side

\* Go handles a call.
LEMMA HandlingSide ==
    ASSUME Base, Side, posted # <<>>, NEW ok \in BOOLEAN, NEW value, Replies(ok, value),
           jobs' = jobs, legacy' => legacy,
           stored' = stored \/ Call.call \in {"save", "import"},
           Call.call = "import" /\ ok => ~legacy',
           Call.call = "get" => (~legacy => ok) /\ (ok => value = stored)
    PROVE  Side'
<1>1. posted \in Seq(Messages) /\ answers \in Seq(Replied)
    BY DEF Base, SettingsTypeOK
<1>2. /\ Call = posted[1] /\ 1 \in DOMAIN posted /\ posted' = Tail(posted)
      /\ \A i \in DOMAIN posted' :
            i \in Nat /\ i >= 1 /\ i + 1 \in DOMAIN posted /\ posted'[i] = posted[i + 1]
    BY <1>1, TailOf DEF Replies, Call
<1>3. SavesAsAsked'
  <2> SUFFICES ASSUME NEW i \in DOMAIN posted', posted'[i].call = "save", posted'[i].known
               PROVE  /\ \A f \in Fields :
                            f \notin DOMAIN posted'[i].patch => posted'[i].arg[f] = stored'[f]
                      /\ \A k \in DOMAIN posted' :
                            k < i => posted'[k].call \notin {"save", "import"}
    BY DEF SavesAsAsked
  <2>1. /\ \A f \in Fields :
              f \notin DOMAIN posted[i + 1].patch => posted[i + 1].arg[f] = stored[f]
        /\ \A k \in DOMAIN posted : k < i + 1 => posted[k].call \notin {"save", "import"}
    BY <1>2 DEF Side, SavesAsAsked
  <2>2. Call.call \notin {"save", "import"}
    BY <1>2, <2>1
  <2>3. \A k \in DOMAIN posted' : k < i => posted'[k].call \notin {"save", "import"}
    BY <1>2, <2>1
  <2> QED
    BY <1>2, <2>1, <2>2, <2>3
<1>4. CASE Call.by = Nobody
  <2>1. answers = <<>>
    BY <1>2, <1>4 DEF Base, Plumbing, OldFirst
  <2>2. answers' = answers /\ DOMAIN answers' = {}
    BY <1>4, <2>1 DEF Replies, Nobody
  <2>3. ReadIsFresh'
    BY <2>2 DEF ReadIsFresh
  <2>4. StoredAfterImport'
    BY <2>2 DEF Side, StoredAfterImport
  <2> QED
    BY <1>3, <2>3, <2>4 DEF Side
<1>5. CASE Call.by # Nobody
  <2> DEFINE a == [by |-> Call.by, ok |-> ok, value |-> value]
             S == Replied \cup {a}
  <2>1. answers' = Append(answers, a)
    BY <1>5 DEF Replies, Nobody
  <2>2. a.by = Call.by /\ a.ok = ok /\ a.value = value
    OBVIOUS
  <2>3. answers \in Seq(S) /\ a \in S
    BY <1>1
  <2> HIDE DEF a, S
  <2>4. /\ Len(answers) \in Nat
        /\ \A j \in DOMAIN answers :
              /\ j \in Nat /\ j <= Len(answers)
              /\ j \in DOMAIN answers' /\ answers'[j] = answers[j]
        /\ Len(answers) + 1 \in DOMAIN answers' /\ answers'[Len(answers) + 1] = a
        /\ \A j \in DOMAIN answers' : j \in DOMAIN answers \/ j = Len(answers) + 1
    BY <2>1, <2>3, AppendOf
  <2>5. Call.call = Expected(jobs[Call.by].at) /\ Call.by \in Threads
    BY <1>2, <1>5, Underway DEF Base, Plumbing, CallsFit, Senders
  <2>6. ReadIsFresh'
    <3> SUFFICES ASSUME NEW j \in DOMAIN answers', answers'[j].by = "start",
                        jobs["start"].at = "get", answers'[j].ok, answers'[j].value # stored'
                 PROVE  \E k \in DOMAIN answers' : k > j /\ answers'[k].by = "queue"
      BY DEF ReadIsFresh
    <3>1. Call.by = "start" => Call.call = "get"
      BY <2>5 DEF Expected
    <3>2. CASE j = Len(answers) + 1
      BY <2>2, <2>4, <3>1, <3>2
    <3>3. CASE j \in DOMAIN answers /\ stored' = stored
      <4>1. PICK k \in DOMAIN answers : k > j /\ answers[k].by = "queue"
        BY <2>4, <3>3 DEF Side, ReadIsFresh
      <4> QED
        BY <2>4, <4>1
    <3>4. CASE j \in DOMAIN answers /\ stored' # stored
      <4>1. Call.by = "queue"
        BY <2>5, <3>1, <3>4 DEF Threads
      <4> QED
        BY <2>2, <2>4, <3>4, <4>1
    <3> QED
      BY <2>4, <3>2, <3>3, <3>4
  <2>7. StoredAfterImport'
    <3>1. /\ Call.by = "queue" /\ jobs["queue"].at = "import" => Call.call = "import"
          /\ Call.by = "queue" /\ jobs["queue"].at = "get" => Call.call = "get"
      BY <2>5 DEF Expected
    <3>2. jobs["queue"].at = "get" => ~legacy
      BY DEF Side, StoredAfterImport
    <3>3. a.by = "queue" =>
              /\ jobs["queue"].at = "import" /\ a.ok => ~legacy'
              /\ jobs["queue"].at = "get" => a.ok
      BY <2>2, <3>1, <3>2
    <3> QED
      BY <2>4, <3>3 DEF Side, StoredAfterImport
  <2> QED
    BY <1>3, <2>6, <2>7 DEF Side
<1> QED
    BY <1>4, <1>5

LEMMA ReloadSide ==
    ASSUME Base, Side, Reload
    PROVE  Side'
<1>1. /\ UNCHANGED <<stored, legacy>> /\ answers' = <<>> /\ DOMAIN answers' = {}
      /\ jobs'["queue"] = NoJob
    BY DEF Reload, go, Threads
<1>2. ReadIsFresh' /\ StoredAfterImport'
    BY <1>1 DEF ReadIsFresh, StoredAfterImport, NoJob
<1>3. /\ Len(posted) \in Nat
      /\ \A i \in DOMAIN posted' :
            \/ i \in DOMAIN posted /\ posted'[i] = [posted[i] EXCEPT !.by = "nobody"]
            \/ i = Len(posted) + 1 /\ posted'[i] = GetCall("start")
      /\ \A i \in DOMAIN posted : posted[i] \in Messages /\ i \in Nat /\ i <= Len(posted)
    BY ReloadKeeps, Underway DEF Base, SettingsTypeOK
<1>4. \A m \in Messages :
          /\ [m EXCEPT !.by = "nobody"].call = m.call
          /\ m.call = "save" => /\ [m EXCEPT !.by = "nobody"].known = m.known
                                /\ [m EXCEPT !.by = "nobody"].patch = m.patch
                                /\ [m EXCEPT !.by = "nobody"].arg = m.arg
    BY DEF Messages
<1>5. GetCall("start").call = "get"
    BY DEF GetCall
<1>6. \A i \in DOMAIN posted' :
          \/ /\ i \in DOMAIN posted /\ posted'[i].call = posted[i].call
             /\ posted[i].call = "save" => /\ posted'[i].known = posted[i].known
                                           /\ posted'[i].patch = posted[i].patch
                                           /\ posted'[i].arg = posted[i].arg
          \/ i = Len(posted) + 1 /\ posted'[i].call = "get"
  <2>1. ASSUME NEW i \in DOMAIN posted', i \in DOMAIN posted,
               posted'[i] = [posted[i] EXCEPT !.by = "nobody"]
        PROVE  /\ posted'[i].call = posted[i].call
               /\ posted[i].call = "save" => /\ posted'[i].known = posted[i].known
                                             /\ posted'[i].patch = posted[i].patch
                                             /\ posted'[i].arg = posted[i].arg
    <3>1. posted[i] \in Messages
      BY <1>3, <2>1
    <3> QED
      BY <1>4, <2>1, <3>1
  <2>2. ASSUME NEW i \in DOMAIN posted', posted'[i] = GetCall("start")
        PROVE  posted'[i].call = "get"
    BY <1>5, <2>2
  <2> QED
    BY <1>3, <2>1, <2>2
<1>7. SavesAsAsked'
    BY <1>1, <1>3, <1>6 DEF Side, SavesAsAsked
<1> QED
    BY <1>2, <1>7 DEF Side

-----------------------------------------------------------------------------
\* A page that knows the settings

QueueJob == jobs["queue"]
StartJob == jobs["start"]

\* The call of a thread that is on its way, and its answer.
Posted(t) == {posted[i] : i \in {k \in DOMAIN posted : posted[k].by = t}}
Told(t) == {answers[j] : j \in {k \in DOMAIN answers : answers[k].by = t}}

\* Nothing of the start is under way; or it comes before what is the queue's.
StartOut == Posted("start") = {} /\ Told("start") = {}
StartAhead ==
    /\ \A i, k \in DOMAIN posted : posted[i].by = "start" /\ posted[k].by = "queue" => i < k
    /\ \A i, k \in DOMAIN answers : answers[i].by = "start" /\ answers[k].by = "queue" => i < k
    /\ Posted("start") = {} \/ Told("queue") = {}

LEMMA Fits ==
    ASSUME Base, NEW t \in Threads
    PROVE  /\ \A m \in Posted(t) :
                  m \in Messages /\ m.by = t /\ m.call = Expected(jobs[t].at) /\ m.call # "none"
           /\ \A a \in Told(t) : a \in Replied /\ a.by = t
           /\ Posted(t) = {} \/ Told(t) = {}
           /\ jobs[t] = NoJob => Posted(t) = {} /\ Told(t) = {}
<1>1. SettingsTypeOK /\ Plumbing /\ t # Nobody
    BY DEF Base, Threads, Nobody
<1>2. \A m \in Posted(t) :
          m \in Messages /\ m.by = t /\ m.call = Expected(jobs[t].at) /\ m.call # "none"
    BY <1>1, Underway DEF Posted, Plumbing, CallsFit
<1>3. \A a \in Told(t) : a \in Replied /\ a.by = t /\ jobs[t] # NoJob
    BY <1>1, Underway DEF Told, Plumbing, CallsFit
<1>4. Posted(t) = {} \/ Told(t) = {}
    BY <1>1 DEF Posted, Told, Plumbing, OneEach
<1>5. jobs[t] = NoJob => Posted(t) = {}
    BY <1>2 DEF Expected, NoJob
<1> QED
    BY <1>2, <1>3, <1>4, <1>5

\* Go handles the call at the head.
LEMMA Handled ==
    ASSUME Base, posted # <<>>, NEW t \in Threads, Call.by = t, NEW ok, NEW value,
           Replies(ok, value)
    PROVE  /\ Posted(t) = {Call} /\ Told(t) = {}
           /\ Posted(t)' = {} /\ Told(t)' = {[by |-> t, ok |-> ok, value |-> value]}
           /\ \A u \in Threads : u # t => Posted(u)' = Posted(u) /\ Told(u)' = Told(u)
           /\ StartAhead => StartAhead'
           /\ StartAhead /\ t = "queue" => Posted("start") = {}
           /\ StartAhead /\ t = "start" => Told("queue") = {}
<1> DEFINE a == [by |-> t, ok |-> ok, value |-> value]
           S == Replied \cup {a}
<1>1. SettingsTypeOK /\ Plumbing /\ posted \in Seq(Messages) /\ answers \in Seq(Replied)
      /\ t # Nobody
    BY DEF Base, SettingsTypeOK, Threads, Nobody
<1>2. /\ Call = posted[1] /\ 1 \in DOMAIN posted /\ posted' = Tail(posted)
      /\ \A i \in DOMAIN posted :
            i \in Nat /\ i >= 1 /\ (i = 1 \/ (i - 1 \in DOMAIN posted' /\ posted[i] = posted'[i - 1]))
      /\ \A i \in DOMAIN posted' :
            i \in Nat /\ i >= 1 /\ i + 1 \in DOMAIN posted /\ posted'[i] = posted[i + 1]
    BY <1>1, TailOf DEF Replies, Call
<1>3. answers' = Append(answers, a)
    BY <1>1 DEF Replies, Nobody
<1>4. answers \in Seq(S) /\ a \in S
    BY <1>1
<1>5. a.by = t
    OBVIOUS
<1> HIDE DEF a, S
<1>6. /\ Len(answers) \in Nat
      /\ \A j \in DOMAIN answers : j \in Nat /\ j <= Len(answers)
      /\ \A j \in DOMAIN answers : j \in DOMAIN answers' /\ answers'[j] = answers[j]
      /\ Len(answers) + 1 \in DOMAIN answers' /\ answers'[Len(answers) + 1] = a
      /\ \A j \in DOMAIN answers' : j \in DOMAIN answers \/ j = Len(answers) + 1
    BY <1>3, <1>4, AppendOf
<1>7. /\ \A i \in DOMAIN posted : posted[i].by = t => i = 1
      /\ \A j \in DOMAIN answers : answers[j].by # t
    BY <1>1, <1>2 DEF Plumbing, OneEach
<1>8. Posted(t) = {Call} /\ Told(t) = {}
    BY <1>2, <1>7 DEF Posted, Told
<1>9. Posted(t)' = {}
  <2>1. \A i \in DOMAIN posted' : i + 1 # 1
    BY <1>2
  <2> QED
    BY <1>2, <1>7, <2>1 DEF Posted
<1>10. Told(t)' = {a}
    BY <1>5, <1>6, <1>7 DEF Told
<1>11. ASSUME NEW u \in Threads, u # t
       PROVE  Posted(u)' = Posted(u) /\ Told(u)' = Told(u)
  <2>1. Posted(u)' \subseteq Posted(u)
    BY <1>2 DEF Posted
  <2>2. Posted(u) \subseteq Posted(u)'
    <3> SUFFICES ASSUME NEW i \in DOMAIN posted, posted[i].by = u
                 PROVE  \E k \in DOMAIN posted' : posted'[k].by = u /\ posted'[k] = posted[i]
      BY DEF Posted
    <3>1. i # 1
      BY <1>2, <1>11
    <3> QED
      BY <1>2, <3>1
  <2>3. Told(u)' \subseteq Told(u)
    <3> SUFFICES ASSUME NEW j \in DOMAIN answers', answers'[j].by = u
                 PROVE  j \in DOMAIN answers /\ answers'[j] = answers[j]
      BY DEF Told
    <3> QED
      BY <1>5, <1>6, <1>11
  <2>4. Told(u) \subseteq Told(u)'
    BY <1>6 DEF Told
  <2> QED
    BY <2>1, <2>2, <2>3, <2>4
<1>12. StartAhead /\ t = "queue" => Posted("start") = {}
  <2> SUFFICES ASSUME StartAhead, t = "queue", NEW i \in DOMAIN posted, posted[i].by = "start"
               PROVE  FALSE
    BY DEF Posted
  <2>1. i < 1
    BY <1>2 DEF StartAhead
  <2> QED
    BY <1>2, <2>1
<1>13. StartAhead /\ t = "start" => Told("queue") = {}
    BY <1>8 DEF StartAhead
<1>14. ASSUME StartAhead PROVE StartAhead'
  <2>1. \A i, k \in DOMAIN posted' : posted'[i].by = "start" /\ posted'[k].by = "queue" => i < k
    <3> SUFFICES ASSUME NEW i \in DOMAIN posted', NEW k \in DOMAIN posted',
                        posted'[i].by = "start", posted'[k].by = "queue"
                 PROVE  i < k
      OBVIOUS
    <3>1. i + 1 < k + 1
      BY <1>2, <1>14 DEF StartAhead
    <3> QED
      BY <1>2, <3>1
  <2>2. CASE t = "queue"
    <3>1. Posted("start")' = {}
      BY <1>11, <1>12, <1>14, <2>2 DEF Threads
    <3>2. \A j \in DOMAIN answers : answers[j].by # "queue"
      BY <1>7, <2>2
    <3>3. \A i, k \in DOMAIN answers' :
              answers'[i].by = "start" /\ answers'[k].by = "queue" => i < k
      <4> SUFFICES ASSUME NEW i \in DOMAIN answers', NEW k \in DOMAIN answers',
                          answers'[i].by = "start", answers'[k].by = "queue"
                   PROVE  i < k
        OBVIOUS
      <4>1. k = Len(answers) + 1 /\ i \in DOMAIN answers
        BY <1>5, <1>6, <2>2, <3>2
      <4> QED
        BY <1>6, <4>1
    <3> QED
      BY <2>1, <3>1, <3>3 DEF StartAhead
  <2>3. CASE t = "start"
    <3>1. Told("queue") = {}
      BY <1>13, <1>14, <2>3
    <3>2. Told("queue")' = {}
      BY <1>11, <2>3, <3>1 DEF Threads
    <3>3. \A j \in DOMAIN answers' : answers'[j].by # "queue"
      BY <3>2 DEF Told
    <3> QED
      BY <2>1, <3>2, <3>3 DEF StartAhead
  <2> QED
    BY <2>2, <2>3 DEF Threads
<1> QED
    BY <1>8, <1>9, <1>10, <1>11, <1>12, <1>13, <1>14 DEF a

\* A thread takes its answer.
LEMMA Taken ==
    ASSUME Base, NEW t \in Threads, answers # <<>>, Answer.by = t, answers' = Tail(answers)
    PROVE  /\ Posted(t) = {} /\ Told(t) = {Answer} /\ Told(t)' = {}
           /\ \A u \in Threads : u # t => Told(u)' = Told(u)
           /\ \A i, k \in DOMAIN answers' : answers'[i].by # answers'[k].by =>
                 /\ i + 1 \in DOMAIN answers /\ k + 1 \in DOMAIN answers
                 /\ answers'[i] = answers[i + 1] /\ answers'[k] = answers[k + 1]
                 /\ i \in Nat /\ k \in Nat
           /\ StartAhead /\ t = "queue" => StartOut
<1>1. SettingsTypeOK /\ Plumbing /\ answers \in Seq(Replied)
    BY DEF Base, SettingsTypeOK
<1>2. /\ Answer = answers[1] /\ 1 \in DOMAIN answers
      /\ \A j \in DOMAIN answers :
            j \in Nat /\ j >= 1
            /\ (j = 1 \/ (j - 1 \in DOMAIN answers' /\ answers[j] = answers'[j - 1]))
      /\ \A j \in DOMAIN answers' :
            j \in Nat /\ j >= 1 /\ j + 1 \in DOMAIN answers /\ answers'[j] = answers[j + 1]
    BY <1>1, TailOf DEF Answer
<1>3. /\ \A j \in DOMAIN answers : answers[j].by = t => j = 1
      /\ \A i \in DOMAIN posted : posted[i].by # t
    BY <1>1, <1>2 DEF Plumbing, OneEach
<1>4. Posted(t) = {} /\ Told(t) = {Answer}
    BY <1>2, <1>3 DEF Posted, Told
<1>5. Told(t)' = {}
  <2>1. \A j \in DOMAIN answers' : j + 1 # 1
    BY <1>2
  <2> QED
    BY <1>2, <1>3, <2>1 DEF Told
<1>6. ASSUME NEW u \in Threads, u # t PROVE Told(u)' = Told(u)
  <2>1. Told(u)' \subseteq Told(u)
    BY <1>2 DEF Told
  <2>2. Told(u) \subseteq Told(u)'
    <3> SUFFICES ASSUME NEW j \in DOMAIN answers, answers[j].by = u
                 PROVE  \E k \in DOMAIN answers' : answers'[k].by = u /\ answers'[k] = answers[j]
      BY DEF Told
    <3>1. j # 1
      BY <1>2, <1>6
    <3> QED
      BY <1>2, <3>1
  <2> QED
    BY <2>1, <2>2
<1>7. ASSUME StartAhead, t = "queue" PROVE StartOut
  <2>1. Posted("start") = {}
    BY <1>4, <1>7 DEF StartAhead
  <2>2. Told("start") = {}
    <3> SUFFICES ASSUME NEW j \in DOMAIN answers, answers[j].by = "start" PROVE FALSE
      BY DEF Told
    <3>1. j < 1
      BY <1>2, <1>7 DEF StartAhead
    <3> QED
      BY <1>2, <3>1
  <2> QED
    BY <2>1, <2>2 DEF StartOut
<1> QED
    BY <1>2, <1>4, <1>5, <1>6, <1>7

\* ... and ends,
LEMMA TakenEnds ==
    ASSUME Base, NEW t \in Threads, answers # <<>>, Answer.by = t, answers' = Tail(answers),
           posted' = posted
    PROVE  /\ \A u \in Threads : Posted(u)' = Posted(u)
           /\ StartOut => StartOut'
           /\ StartAhead => StartAhead'
           /\ t = "queue" => StartAhead'
           /\ t = "start" => StartOut'
<1>1. \A u \in Threads : Posted(u)' = Posted(u)
    BY DEF Posted
<1>2. /\ Posted(t) = {} /\ Told(t)' = {}
      /\ \A u \in Threads : u # t => Told(u)' = Told(u)
    BY Taken
<1>3. t = "start" => StartOut'
    BY <1>1, <1>2 DEF StartOut
<1>4. t = "queue" => StartAhead' /\ (StartOut => StartOut')
  <2> SUFFICES ASSUME t = "queue" PROVE StartAhead' /\ (StartOut => StartOut')
    OBVIOUS
  <2>1. StartOut => StartOut'
    BY <1>1, <1>2 DEF StartOut, Threads
  <2>2. \A i \in DOMAIN posted' : posted'[i].by # "queue"
    BY <1>2 DEF Posted
  <2>3. Told("queue")' = {}
    BY <1>2
  <2>4. \A i \in DOMAIN answers' : answers'[i].by # "queue"
    BY <2>3 DEF Told
  <2>5. StartAhead'
    BY <2>2, <2>3, <2>4 DEF StartAhead
  <2> QED
    BY <2>1, <2>5
<1>5. ASSUME StartOut' PROVE StartAhead'
  <2>1. /\ \A i \in DOMAIN posted' : posted'[i].by # "start"
        /\ \A i \in DOMAIN answers' : answers'[i].by # "start"
    BY <1>5 DEF StartOut, Posted, Told
  <2> QED
    BY <1>5, <2>1 DEF StartOut, StartAhead
<1> QED
    BY <1>1, <1>3, <1>4, <1>5 DEF Threads

\* ... or calls again.
LEMMA TakenCalls ==
    ASSUME Base, NEW t \in Threads, answers # <<>>, Answer.by = t, answers' = Tail(answers),
           NEW m \in Messages, m.by = t, posted' = Append(posted, m)
    PROVE  /\ Posted(t)' = {m}
           /\ \A u \in Threads : u # t => Posted(u)' = Posted(u)
           /\ t = "queue" => (StartOut => StartOut') /\ StartAhead'
<1>1. /\ posted \in Seq(Messages) /\ Posted(t) = {} /\ Told(t)' = {}
      /\ \A u \in Threads : u # t => Told(u)' = Told(u)
    BY Taken DEF Base, SettingsTypeOK
<1>2. /\ Len(posted) \in Nat
      /\ \A i \in DOMAIN posted : i \in Nat /\ i <= Len(posted)
      /\ \A i \in DOMAIN posted : i \in DOMAIN posted' /\ posted'[i] = posted[i]
      /\ Len(posted) + 1 \in DOMAIN posted' /\ posted'[Len(posted) + 1] = m
      /\ \A i \in DOMAIN posted' : i \in DOMAIN posted \/ i = Len(posted) + 1
    BY <1>1, AppendOf
<1>3. \A i \in DOMAIN posted : posted[i].by # t
    BY <1>1 DEF Posted
<1>4. Posted(t)' = {m}
    BY <1>2, <1>3 DEF Posted
<1>5. ASSUME NEW u \in Threads, u # t PROVE Posted(u)' = Posted(u)
  <2>1. Posted(u)' \subseteq Posted(u)
    BY <1>2, <1>5 DEF Posted
  <2>2. Posted(u) \subseteq Posted(u)'
    BY <1>2 DEF Posted
  <2> QED
    BY <2>1, <2>2
<1>6. ASSUME t = "queue" PROVE (StartOut => StartOut') /\ StartAhead'
  <2>1. StartOut => StartOut'
    BY <1>1, <1>5, <1>6 DEF StartOut, Threads
  <2>0. Told("queue")' = {}
    BY <1>1, <1>6
  <2>2. \A i \in DOMAIN answers' : answers'[i].by # "queue"
    BY <2>0 DEF Told
  <2>3. \A i, k \in DOMAIN posted' : posted'[i].by = "start" /\ posted'[k].by = "queue" => i < k
    <3> SUFFICES ASSUME NEW i \in DOMAIN posted', NEW k \in DOMAIN posted',
                        posted'[i].by = "start", posted'[k].by = "queue"
                 PROVE  i < k
      OBVIOUS
    <3>1. k = Len(posted) + 1
      BY <1>2, <1>3, <1>6
    <3>2. i \in DOMAIN posted
      BY <1>2, <1>6
    <3> QED
      BY <1>2, <3>1, <3>2
  <2>4. StartAhead'
    BY <2>0, <2>2, <2>3 DEF StartAhead
  <2> QED
    BY <2>1, <2>4
<1> QED
    BY <1>4, <1>5, <1>6

\* The queue makes the first call of a change.
LEMMA FirstCall ==
    ASSUME Base, QueueJob = NoJob, answers' = answers,
           NEW m \in Messages, m.by = "queue", posted' = Append(posted, m)
    PROVE  /\ Posted("queue")' = {m} /\ Told("queue")' = {}
           /\ Posted("queue") = {} /\ Told("queue") = {}
           /\ Posted("start")' = Posted("start") /\ Told("start")' = Told("start")
           /\ StartAhead'
<1>1. /\ posted \in Seq(Messages) /\ Posted("queue") = {} /\ Told("queue") = {}
      /\ \A u \in Threads : Told(u)' = Told(u)
    BY Fits DEF Base, SettingsTypeOK, QueueJob, Threads, Told
<1>2. /\ Len(posted) \in Nat
      /\ \A i \in DOMAIN posted : i \in Nat /\ i <= Len(posted)
      /\ \A i \in DOMAIN posted : i \in DOMAIN posted' /\ posted'[i] = posted[i]
      /\ Len(posted) + 1 \in DOMAIN posted' /\ posted'[Len(posted) + 1] = m
      /\ \A i \in DOMAIN posted' : i \in DOMAIN posted \/ i = Len(posted) + 1
    BY <1>1, AppendOf
<1>3. \A i \in DOMAIN posted : posted[i].by # "queue"
    BY <1>1 DEF Posted
<1>4. Posted("queue")' = {m}
    BY <1>2, <1>3 DEF Posted
<1>5. Posted("start")' = Posted("start")
  <2>1. Posted("start")' \subseteq Posted("start")
    BY <1>2 DEF Posted
  <2>2. Posted("start") \subseteq Posted("start")'
    BY <1>2 DEF Posted
  <2> QED
    BY <2>1, <2>2
<1>6. StartAhead'
  <2>1. \A i \in DOMAIN answers' : answers'[i].by # "queue"
    BY <1>1 DEF Told
  <2>2. \A i, k \in DOMAIN posted' : posted'[i].by = "start" /\ posted'[k].by = "queue" => i < k
    <3> SUFFICES ASSUME NEW i \in DOMAIN posted', NEW k \in DOMAIN posted',
                        posted'[i].by = "start", posted'[k].by = "queue"
                 PROVE  i < k
      OBVIOUS
    <3>1. k = Len(posted) + 1 /\ i \in DOMAIN posted
      BY <1>2, <1>3
    <3> QED
      BY <1>2, <3>1
  <2> QED
    BY <1>1, <2>1, <2>2 DEF StartAhead, Threads
<1> QED
    BY <1>1, <1>4, <1>5, <1>6 DEF Threads

-----------------------------------------------------------------------------
\* What is true of such a page

WindowDoes == hides = ~stored["stays"]
KeyIsStored == live = Resolve(stored["hotkey"])

\* The start may still have to say what the window does.
Windowed == WindowDoes \/ (StartJob.at = "effect" /\ Posted("start") # {})
KeyFine == overtaken \/ KeyIsStored

\* The queue is past the first call of a change, or past the second.
Second ==
    \/ QueueJob.kind = "hotkey" /\ QueueJob.at = "save"
    \/ QueueJob.kind = "save" /\ QueueJob.at = "effect"
    \/ QueueJob.at = "get"
Third ==
    \/ QueueJob.at \in {"back", "reapply"}
    \/ QueueJob.kind = "import" /\ QueueJob.at = "effect"

\* A change has not been written, and the stored shortcut is not being changed.
Unwritten == QueueJob.at \in {"save", "import"} /\ \A a \in Told("queue") : ~a.ok
Kept ==
    \/ QueueJob = NoJob \/ QueueJob.kind = "save"
    \/ QueueJob.kind = "import" /\ Unwritten

Alive ==
    /\ StartJob # NoJob => StartJob.at \in {"effect", "reapply"}
    /\ \A i \in DOMAIN posted : posted[i].by # Nobody

Order ==
    /\ Third \/ (Second /\ StartJob.at = "effect") => StartOut
    /\ QueueJob.kind = "hotkey" /\ QueueJob.at = "save" /\ ~overtaken => StartOut
    /\ StartJob.at = "effect" \/ Second \/ (QueueJob.kind = "hotkey" /\ ~overtaken) => StartAhead

Agrees ==
    /\ QueueJob.at \in {"idle", "apply", "back", "effect", "reapply"} \/ Unwritten => copy = stored
    /\ QueueJob.at \in {"idle", "apply", "back", "reapply"} \/ Unwritten => Windowed
    /\ QueueJob.kind = "hotkey" => QueueJob.previous = copy["hotkey"]
    /\ QueueJob.kind = "save" => copy["hotkey"] = stored["hotkey"]

QueueAsks == \A m \in Posted("queue") :
    /\ m.call = "save" =>
          /\ m.known
          /\ QueueJob.kind = "save" => "hotkey" \notin DOMAIN m.patch
          /\ QueueJob.kind = "hotkey" =>
                DOMAIN m.patch = {"hotkey"} /\ m.arg["hotkey"] = QueueJob.name
    /\ m.call = "hides" => m.arg = ~stored["stays"]
    /\ m.call = "hotkey" =>
          m.arg = CASE QueueJob.at = "apply" -> QueueJob.name
                    [] QueueJob.at = "back" -> QueueJob.previous
                    [] OTHER -> copy["hotkey"]

QueueIsTold == \A a \in Told("queue") :
    /\ QueueJob.at = "save" /\ a.ok =>
          /\ a.value = stored
          /\ QueueJob.kind = "hotkey" => Windowed /\ stored["hotkey"] = QueueJob.name
    /\ QueueJob.at = "get" /\ a.ok => a.value = stored
    /\ QueueJob.at = "effect" => WindowDoes
    /\ QueueJob.at = "apply" /\ a.ok => overtaken \/ live = Resolve(QueueJob.name)
    /\ QueueJob.at = "back" /\ a.ok => live = Resolve(QueueJob.previous)
    /\ QueueJob.at = "reapply" /\ a.ok => live = Resolve(copy["hotkey"])

StartAsks == \A m \in Posted("start") :
    /\ m.call = "hides" => m.arg = ~stored["stays"]
    /\ m.call = "hotkey" /\ Kept => overtaken \/ m.arg = stored["hotkey"]

KeyClaims ==
    /\ QueueJob.kind = "hotkey" /\ QueueJob.at = "save" => overtaken \/ live = Resolve(QueueJob.name)
    /\ Kept /\ StartJob = NoJob => keyError \/ KeyFine
    /\ Kept /\ StartJob.at = "reapply" => \A a \in Told("start") : a.ok => KeyFine

KnownInv ==
    Alive /\ Order /\ Agrees /\ QueueAsks /\ QueueIsTold /\ StartAsks /\ KeyClaims

IInv == Base /\ TrayServes /\ Side /\ (known => KnownInv)

\* The states of the queue's job.
LEMMA QueueStates ==
    ASSUME SettingsTypeOK
    PROVE  /\ QueueJob.kind \in {"none", "save", "import", "hotkey"}
           /\ QueueJob.kind = "none" <=> QueueJob = NoJob
           /\ QueueJob.at = "idle" <=> QueueJob = NoJob
           /\ QueueJob.kind = "save" => QueueJob.at \in {"save", "effect"}
           /\ QueueJob.kind = "import" =>
                 QueueJob.at \in {"import", "get", "effect", "blind", "reapply"}
           /\ QueueJob.kind = "hotkey" =>
                 /\ QueueJob.at \in {"apply", "save", "back"}
                 /\ QueueJob.name \in Names /\ QueueJob.previous \in Names
<1>1. QueueJob \in QueueJobs
    BY DEF SettingsTypeOK, JobsType, QueueJob
<1> QED
    BY <1>1 DEF QueueJobs, NoJob

LEMMA StartStates ==
    ASSUME SettingsTypeOK
    PROVE  /\ StartJob.at = "idle" <=> StartJob = NoJob
           /\ StartJob.at \in {"idle", "get", "effect", "blind", "reapply"}
           /\ StartJob # NoJob => StartJob.kind = "load"
<1>1. StartJob \in StartJobs
    BY DEF SettingsTypeOK, JobsType, StartJob
<1> QED
    BY <1>1 DEF StartJobs, NoJob

\* Whose call it can be, and at which step.
LEMMA WhoseCall ==
    ASSUME IInv, known, posted # <<>>
    PROVE  /\ Call.by \in {"queue", "start"} /\ Call \in Messages /\ Call = posted[1]
           /\ 1 \in DOMAIN posted
           /\ Call.by = "queue" =>
                 /\ QueueJob # NoJob /\ Call.call = Expected(QueueJob.at) /\ Call \in Posted("queue")
           /\ Call.by = "start" =>
                 /\ StartJob # NoJob /\ Call \in Posted("start")
                 /\ \/ StartJob.at = "effect" /\ Call.call = "hides"
                    \/ StartJob.at = "reapply" /\ Call.call = "hotkey"
<1>1. Base /\ SettingsTypeOK /\ KnownInv
    BY DEF IInv, Base
<1>2. Call = posted[1] /\ 1 \in DOMAIN posted /\ Call \in Messages
    BY <1>1, CallTypes
<1>3. Call.by \in Threads
    BY <1>1, <1>2, MessageTypes DEF KnownInv, Alive, Senders
<1>4. Call \in Posted(Call.by)
    BY <1>2 DEF Posted
<1>5. jobs[Call.by] # NoJob /\ Call.call = Expected(jobs[Call.by].at)
    BY <1>1, <1>3, <1>4, Fits
<1>6. ASSUME Call.by = "start"
      PROVE  \/ StartJob.at = "effect" /\ Call.call = "hides"
             \/ StartJob.at = "reapply" /\ Call.call = "hotkey"
  <2>1. StartJob.at \in {"effect", "reapply"} /\ Call.call = Expected(StartJob.at)
    BY <1>1, <1>5, <1>6 DEF KnownInv, Alive, StartJob
  <2> QED
    BY <2>1 DEF Expected
<1> QED
    BY <1>2, <1>3, <1>4, <1>5, <1>6 DEF Threads, QueueJob, StartJob

LEMMA HandledAlive ==
    ASSUME Base, Alive, posted # <<>>, posted' = Tail(posted), StartJob' = StartJob
    PROVE  Alive'
<1>1. posted \in Seq(Messages)
    BY DEF Base, SettingsTypeOK
<1>2. \A i \in DOMAIN posted' : i + 1 \in DOMAIN posted /\ posted'[i] = posted[i + 1]
    BY <1>1, TailOf
<1> QED
    BY <1>2 DEF Alive

\* While the tray thread works, nothing is claimed of the hotkey registered.
LEMMA NoClaim ==
    ASSUME IInv, known, posted # <<>>, Call.call = "hotkey"
    PROVE  /\ QueueJob.at = "apply" /\ Told("queue") # {} => overtaken
           /\ QueueJob.at \in {"back", "reapply"} => Told("queue") = {}
           /\ QueueJob.kind = "hotkey" /\ QueueJob.at = "save" => overtaken
           /\ Kept => StartJob # NoJob /\ Told("start") = {}
<1>1. Base /\ SettingsTypeOK /\ Order /\ posted # <<>>
    BY DEF IInv, Base, KnownInv
<1>2. /\ Call.by \in {"queue", "start"}
      /\ Call.by = "queue" => Call \in Posted("queue") /\ Call.call = Expected(QueueJob.at)
      /\ Call.by = "start" => StartJob # NoJob /\ Call \in Posted("start")
    BY WhoseCall
<1>3. CASE Call.by = "queue"
  <2>1. Told("queue") = {}
    BY <1>1, <1>2, <1>3, Fits DEF Threads
  <2>2. QueueJob.at \in {"apply", "back", "reapply"}
    BY <1>2, <1>3 DEF Expected
  <2>3. ~Kept
    BY <1>1, <2>2, QueueStates DEF Kept, Unwritten
  <2> QED
    BY <2>1, <2>2, <2>3
<1>4. CASE Call.by = "start"
  <2>1. Told("start") = {} /\ Posted("start") # {}
    BY <1>1, <1>2, <1>4, Fits DEF Threads
  <2>2. QueueJob.at \notin {"back", "reapply"}
    BY <1>1, <2>1 DEF Order, Third, StartOut
  <2>3. QueueJob.kind = "hotkey" /\ QueueJob.at = "save" => overtaken
    BY <1>1, <2>1 DEF Order, StartOut
  <2>4. QueueJob.at = "apply" /\ Told("queue") # {} => overtaken
    BY <1>1, <2>1, JobTypes DEF Order, StartAhead, QueueJob
  <2> QED
    BY <1>2, <1>4, <2>1, <2>2, <2>3, <2>4
<1> QED
    BY <1>2, <1>3, <1>4

-----------------------------------------------------------------------------
\* Go

\* What the handlers do to a page that knows the settings.
LEMMA HandledKnown ==
    ASSUME IInv, known, posted # <<>>, NEW ok \in BOOLEAN, NEW value, Replies(ok, value),
           UNCHANGED page,
           \* what the handler does to the settings
           \/ /\ UNCHANGED <<stored, hides>> /\ Call.call \in {"get", "save", "import"}
              /\ live' = live /\ (Call.call = "get" /\ ok => value = stored)
              /\ Call.call \in {"save", "import"} => ~ok
           \/ Call.call = "save" /\ ok /\ stored' = Call.arg /\ value = Call.arg
              /\ UNCHANGED <<hides, live>>
           \/ Call.call = "import" /\ ok /\ UNCHANGED <<hides, live>>
           \/ Call.call = "hides" /\ hides' = Call.arg /\ UNCHANGED <<stored, live>>
           \/ /\ Call.call = "hotkey" /\ UNCHANGED <<stored, hides>>
              /\ ok => live' = Resolve(Call.arg)
    PROVE  KnownInv'
<1> DEFINE a == [by |-> Call.by, ok |-> ok, value |-> value]
<1>1. Base /\ SettingsTypeOK /\ KnownInv
    BY DEF IInv, Base
<1>2. /\ Call.by \in {"queue", "start"} /\ Call \in Messages /\ Call = posted[1]
      /\ 1 \in DOMAIN posted
      /\ Call.by = "queue" =>
            /\ QueueJob # NoJob /\ Call.call = Expected(QueueJob.at) /\ Call \in Posted("queue")
      /\ Call.by = "start" =>
            /\ StartJob # NoJob /\ Call \in Posted("start")
            /\ \/ StartJob.at = "effect" /\ Call.call = "hides"
               \/ StartJob.at = "reapply" /\ Call.call = "hotkey"
    BY WhoseCall
<1>3. UNCHANGED <<copy, keyError, overtaken, QueueJob, StartJob>>
    BY DEF page, QueueJob, StartJob
<1>4. /\ QueueJob.kind \in {"none", "save", "import", "hotkey"}
      /\ QueueJob.kind = "none" <=> QueueJob = NoJob
      /\ QueueJob.at = "idle" <=> QueueJob = NoJob
      /\ QueueJob.kind = "save" => QueueJob.at \in {"save", "effect"}
      /\ QueueJob.kind = "import" =>
            QueueJob.at \in {"import", "get", "effect", "blind", "reapply"}
      /\ QueueJob.kind = "hotkey" => QueueJob.at \in {"apply", "save", "back"}
    BY <1>1, QueueStates
<1>5. StartAhead => StartAhead'
    BY <1>1, <1>2, Handled DEF Threads
<1>6. CASE Call.by = "queue"
  <2>1. /\ Posted("queue") = {Call} /\ Told("queue") = {}
        /\ Posted("queue")' = {} /\ Told("queue")' = {a}
        /\ Posted("start")' = Posted("start") /\ Told("start")' = Told("start")
        /\ StartAhead => Posted("start") = {}
    BY <1>1, <1>6, Handled DEF Threads
  <2>2. a.ok = ok /\ a.value = value
    OBVIOUS
  <2> HIDE DEF a
  <2>3. Alive' /\ Order'
    <3>1. Alive'
      BY <1>1, <1>3, HandledAlive DEF KnownInv, Replies
    <3>2. StartOut' = StartOut
      BY <2>1 DEF StartOut
    <3>3. Order'
      BY <1>1, <1>3, <1>5, <3>2 DEF KnownInv, Order, Second, Third
    <3> QED
      BY <3>1, <3>3
  <2>4. QueueAsks'
    BY <2>1 DEF QueueAsks
  <2>5. CASE UNCHANGED <<stored, hides, live>> /\ Call.call \in {"get", "save", "import"}
             /\ (Call.call = "get" /\ ok => value = stored) /\ (Call.call \in {"save", "import"} => ~ok)
    <3>1. QueueJob.at = Call.call
      BY <1>2, <1>4, <1>6, <2>5 DEF Expected
    <3>2. UNCHANGED <<WindowDoes, KeyIsStored, Windowed, KeyFine>>
      BY <1>3, <2>1, <2>5 DEF WindowDoes, KeyIsStored, Windowed, KeyFine
    <3>3. Unwritten' = Unwritten
      BY <1>3, <2>1, <2>2, <2>5, <3>1 DEF Unwritten
    <3>4. Kept' = Kept
      BY <1>3, <3>3 DEF Kept
    <3>5. Agrees'
      BY <1>1, <1>3, <2>5, <3>2, <3>3 DEF KnownInv, Agrees
    <3>6. QueueIsTold'
      BY <1>3, <2>1, <2>2, <2>5, <3>1 DEF QueueIsTold
    <3>7. StartAsks'
      BY <1>1, <1>3, <2>1, <2>5, <3>4 DEF KnownInv, StartAsks
    <3>8. KeyClaims'
      BY <1>1, <1>3, <2>1, <2>5, <3>2, <3>4 DEF KnownInv, KeyClaims
    <3> QED
      BY <2>3, <2>4, <3>5, <3>6, <3>7, <3>8 DEF KnownInv
  <2>6. CASE Call.call = "save" /\ ok /\ stored' = Call.arg /\ value = Call.arg
             /\ UNCHANGED <<hides, live>>
    <3>1. QueueJob.at = "save" /\ QueueJob.kind \in {"save", "hotkey"}
      BY <1>2, <1>4, <1>6, <2>6 DEF Expected
    <3>2. /\ Call.known
          /\ QueueJob.kind = "save" => "hotkey" \notin DOMAIN Call.patch
          /\ QueueJob.kind = "hotkey" =>
                DOMAIN Call.patch = {"hotkey"} /\ Call.arg["hotkey"] = QueueJob.name
      BY <1>1, <1>2, <1>6, <2>6 DEF KnownInv, QueueAsks
    <3>3. \A f \in Fields : f \notin DOMAIN Call.patch => stored'[f] = stored[f]
      BY <1>2, <2>6, <3>2 DEF IInv, Side, SavesAsAsked
    <3>4. /\ QueueJob.kind = "save" => stored'["hotkey"] = stored["hotkey"]
          /\ QueueJob.kind = "hotkey" =>
                stored'["hotkey"] = QueueJob.name /\ stored'["stays"] = stored["stays"]
      BY <2>6, <3>2, <3>3 DEF Fields
    <3>5. Unwritten /\ ~Unwritten'
      BY <1>3, <2>1, <2>2, <2>6, <3>1 DEF Unwritten
    <3>6. Windowed /\ (QueueJob.kind = "hotkey" => Windowed')
      BY <1>1, <1>3, <2>1, <2>6, <3>4, <3>5 DEF KnownInv, Agrees, Windowed, WindowDoes
    <3>7. Agrees'
      BY <1>1, <1>3, <3>1, <3>4, <3>5 DEF KnownInv, Agrees
    <3>8. QueueIsTold'
      BY <1>3, <2>1, <2>2, <2>6, <3>1, <3>4, <3>6 DEF QueueIsTold
    <3>9. Kept' => Kept /\ stored'["hotkey"] = stored["hotkey"]
      BY <1>3, <1>4, <3>1, <3>4 DEF Kept, NoJob
    <3>10. StartAsks'
      <4> SUFFICES ASSUME NEW m \in Posted("start"), m.call = "hides" PROVE FALSE
        BY <1>1, <1>3, <2>1, <3>9 DEF KnownInv, StartAsks
      <4>1. Expected(StartJob.at) = "hides"
        BY <1>1, Fits DEF Threads, StartJob
      <4>2. StartJob.at = "effect"
        BY <1>1, <4>1 DEF Expected, KnownInv, Alive, NoJob
      <4> QED
        BY <1>1, <2>1, <4>2 DEF KnownInv, Order
    <3>11. KeyClaims'
      BY <1>1, <1>3, <2>1, <2>6, <3>9 DEF KnownInv, KeyClaims, KeyFine, KeyIsStored
    <3> QED
      BY <2>3, <2>4, <3>7, <3>8, <3>10, <3>11 DEF KnownInv
  <2>7. CASE Call.call = "import" /\ ok /\ UNCHANGED <<hides, live>>
    <3>1. QueueJob.at = "import" /\ QueueJob.kind = "import"
      BY <1>2, <1>4, <1>6, <2>7 DEF Expected
    <3>2. ~Unwritten' /\ ~Kept'
      <4>1. ~Unwritten'
        BY <1>3, <2>1, <2>2, <2>7, <3>1 DEF Unwritten
      <4>2. QueueJob # NoJob
        BY <1>4, <3>1
      <4> QED
        BY <1>3, <3>1, <4>1, <4>2 DEF Kept
    <3>3. Agrees' /\ QueueIsTold' /\ KeyClaims'
      BY <1>3, <3>1, <3>2 DEF Agrees, QueueIsTold, KeyClaims
    <3>4. StartAsks'
      <4> SUFFICES ASSUME NEW m \in Posted("start"), m.call = "hides" PROVE FALSE
        BY <2>1, <3>2 DEF StartAsks
      <4>1. Expected(StartJob.at) = "hides"
        BY <1>1, Fits DEF Threads, StartJob
      <4>2. StartJob.at = "effect"
        BY <1>1, <4>1 DEF Expected, KnownInv, Alive, NoJob
      <4> QED
        BY <1>1, <2>1, <4>2 DEF KnownInv, Order
    <3> QED
      BY <2>3, <2>4, <3>3, <3>4 DEF KnownInv
  <2>8. CASE Call.call = "hides" /\ hides' = Call.arg /\ UNCHANGED <<stored, live>>
    <3>1. QueueJob.at \in {"effect", "blind"} /\ Call.arg = ~stored["stays"]
      BY <1>1, <1>2, <1>6, <2>8 DEF Expected, KnownInv, QueueAsks
    <3>2. WindowDoes' /\ Windowed' /\ KeyIsStored' = KeyIsStored /\ KeyFine' = KeyFine
      BY <1>3, <2>8, <3>1 DEF WindowDoes, Windowed, KeyIsStored, KeyFine
    <3>3. ~Unwritten /\ ~Unwritten' /\ Kept' = Kept
      BY <1>3, <3>1 DEF Unwritten, Kept
    <3>4. Agrees'
      BY <1>1, <1>3, <2>8, <3>2, <3>3 DEF KnownInv, Agrees
    <3>5. QueueIsTold'
      BY <1>3, <3>1, <3>2 DEF QueueIsTold
    <3>6. StartAsks' /\ KeyClaims'
      BY <1>1, <1>3, <2>1, <2>8, <3>2, <3>3 DEF KnownInv, StartAsks, KeyClaims
    <3> QED
      BY <2>3, <2>4, <3>4, <3>5, <3>6 DEF KnownInv
  <2>9. CASE Call.call = "hotkey" /\ UNCHANGED <<stored, hides>> /\ (ok => live' = Resolve(Call.arg))
    <3>1. QueueJob.at \in {"apply", "back", "reapply"}
      BY <1>2, <1>6, <2>9 DEF Expected
    <3>2. ~Unwritten /\ ~Unwritten' /\ ~Kept /\ ~Kept'
      BY <1>3, <1>4, <3>1 DEF Unwritten, Kept
    <3>3. UNCHANGED <<WindowDoes, Windowed>>
      BY <1>3, <2>1, <2>9 DEF WindowDoes, Windowed
    <3>4. Agrees'
      BY <1>1, <1>3, <2>9, <3>2, <3>3 DEF KnownInv, Agrees
    <3>5. Call.arg = CASE QueueJob.at = "apply" -> QueueJob.name
                       [] QueueJob.at = "back" -> QueueJob.previous
                       [] OTHER -> copy["hotkey"]
      BY <1>1, <1>2, <1>6, <2>9 DEF KnownInv, QueueAsks
    <3>6. /\ ok /\ QueueJob.at = "apply" => live' = Resolve(QueueJob.name)
          /\ ok /\ QueueJob.at = "back" => live' = Resolve(QueueJob.previous)
          /\ ok /\ QueueJob.at = "reapply" => live' = Resolve(copy["hotkey"])
      BY <2>9, <3>5
    <3>7. QueueIsTold'
      BY <1>3, <2>1, <2>2, <3>1, <3>6 DEF QueueIsTold
    <3>8. StartAsks' /\ KeyClaims'
      BY <1>1, <1>3, <1>4, <2>1, <2>9, <3>1, <3>2 DEF KnownInv, StartAsks, KeyClaims
    <3> QED
      BY <2>3, <2>4, <3>4, <3>7, <3>8 DEF KnownInv
  <2> QED
    BY <2>5, <2>6, <2>7, <2>8, <2>9
<1>7. CASE Call.by = "start"
  <2>1. /\ Posted("start") = {Call} /\ Told("start") = {}
        /\ Posted("start")' = {} /\ Told("start")' = {a}
        /\ Posted("queue")' = Posted("queue") /\ Told("queue")' = Told("queue")
    BY <1>1, <1>7, Handled DEF Threads
  <2>2. a.ok = ok
    OBVIOUS
  <2> HIDE DEF a
  <2>3. Alive' /\ Order' /\ StartAsks'
    <3>1. Alive'
      BY <1>1, <1>3, HandledAlive DEF KnownInv, Replies
    <3>2. ~StartOut
      BY <2>1 DEF StartOut
    <3>3. Order'
      BY <1>1, <1>3, <1>5, <3>2 DEF KnownInv, Order, Second, Third
    <3>4. StartAsks'
      BY <2>1 DEF StartAsks
    <3> QED
      BY <3>1, <3>3, <3>4
  <2>4. Unwritten' = Unwritten
    BY <1>3, <2>1 DEF Unwritten
  <2>5. Kept' = Kept
    BY <1>3, <2>4 DEF Kept
  <2>6. CASE Call.call = "hides" /\ hides' = Call.arg /\ UNCHANGED <<stored, live>>
    <3>1. Call.arg = ~stored["stays"] /\ StartJob.at = "effect" /\ StartJob # NoJob
      BY <1>1, <1>2, <1>7, <2>6 DEF KnownInv, StartAsks
    <3>2. WindowDoes' /\ Windowed' /\ KeyIsStored' = KeyIsStored /\ KeyFine' = KeyFine
      BY <1>3, <2>6, <3>1 DEF WindowDoes, Windowed, KeyIsStored, KeyFine
    <3>3. Agrees'
      BY <1>1, <1>3, <2>4, <2>6, <3>2 DEF KnownInv, Agrees
    <3>4. QueueAsks' /\ QueueIsTold'
      BY <1>1, <1>3, <2>1, <2>6, <3>2 DEF KnownInv, QueueAsks, QueueIsTold
    <3>5. KeyClaims'
      BY <1>1, <1>3, <2>5, <2>6, <3>1 DEF KnownInv, KeyClaims
    <3> QED
      BY <2>3, <3>3, <3>4, <3>5 DEF KnownInv
  <2>7. CASE Call.call = "hotkey" /\ UNCHANGED <<stored, hides>> /\ (ok => live' = Resolve(Call.arg))
    <3>1. StartJob.at = "reapply" /\ StartJob # NoJob
          /\ (Kept => overtaken \/ Call.arg = stored["hotkey"])
      BY <1>1, <1>2, <1>7, <2>7 DEF KnownInv, StartAsks
    <3>2. /\ QueueJob.at = "apply" /\ Told("queue") # {} => overtaken
          /\ QueueJob.at \in {"back", "reapply"} => Told("queue") = {}
          /\ QueueJob.kind = "hotkey" /\ QueueJob.at = "save" => overtaken
      BY <2>7, NoClaim
    <3>3. UNCHANGED WindowDoes /\ Windowed' = Windowed
      BY <1>3, <2>7, <3>1 DEF WindowDoes, Windowed
    <3>4. Agrees'
      BY <1>1, <1>3, <2>4, <2>7, <3>3 DEF KnownInv, Agrees
    <3>5. QueueAsks'
      BY <1>1, <1>3, <2>1, <2>7 DEF KnownInv, QueueAsks
    <3>6. QueueIsTold'
      BY <1>1, <1>3, <2>1, <2>7, <3>2, <3>3 DEF KnownInv, QueueIsTold
    <3>7. Kept /\ ok => KeyFine'
      BY <1>3, <2>7, <3>1 DEF KeyFine, KeyIsStored
    <3>8. KeyClaims'
      BY <1>3, <2>1, <2>2, <2>5, <3>1, <3>2, <3>7 DEF KeyClaims
    <3> QED
      BY <2>3, <3>4, <3>5, <3>6, <3>8 DEF KnownInv
  <2> QED
    BY <1>2, <1>7, <2>6, <2>7
<1> QED
    BY <1>2, <1>6, <1>7

LEMMA GetStep ==
    ASSUME IInv, GetSettings
    PROVE  Side' /\ (known' => KnownInv')
<1>1. /\ posted # <<>> /\ Call.call = "get" /\ UNCHANGED <<stored, legacy, hides, keys, page>>
    BY DEF GetSettings, Receives, Fails
<1>2. PICK ok \in BOOLEAN, value \in Settings : Replies(ok, value) /\ (~legacy => ok) /\ (ok => value = stored)
  <2>1. CASE legacy /\ ~readable
    BY <2>1, BuiltinType DEF GetSettings, Fails
  <2>2. CASE ~(legacy /\ ~readable)
    BY <2>2 DEF GetSettings, IInv, Base, SettingsTypeOK
  <2> QED
    BY <2>1, <2>2
<1>3. Side'
    BY <1>1, <1>2, HandlingSide DEF page, IInv
<1>4. known => KnownInv'
  BY <1>1, <1>2, HandledKnown DEF keys
<1> QED
    BY <1>1, <1>3, <1>4 DEF page

LEMMA SaveStep ==
    ASSUME IInv, SaveSettings
    PROVE  Side' /\ (known' => KnownInv')
<1>1. /\ posted # <<>> /\ Call.call = "save" /\ UNCHANGED <<hides, keys, page>>
    BY DEF SaveSettings, Receives
<1>2. CASE Replies(TRUE, Call.arg) /\ stored' = Call.arg /\ legacy' = FALSE
  <2>1. Side'
    BY <1>1, <1>2, HandlingSide DEF page, IInv
  <2>2. known => KnownInv'
    BY <1>1, <1>2, HandledKnown DEF keys
  <2> QED
    BY <1>1, <2>1, <2>2 DEF page
<1>3. CASE Fails
  <2>1. Replies(FALSE, Builtin) /\ UNCHANGED <<stored, legacy>>
    BY <1>3 DEF Fails
  <2>2. Side'
    BY <1>1, <2>1, HandlingSide DEF page, IInv
  <2>3. known => KnownInv'
    BY <1>1, <2>1, HandledKnown DEF keys
  <2> QED
    BY <1>1, <2>2, <2>3 DEF page
<1> QED
    BY <1>2, <1>3 DEF SaveSettings

LEMMA ImportStep ==
    ASSUME IInv, ImportData
    PROVE  Side' /\ (known' => KnownInv')
<1>1. /\ posted # <<>> /\ Call.call = "import" /\ UNCHANGED <<hides, keys, page>>
    BY DEF ImportData, Receives
<1>2. CASE Replies(TRUE, Builtin) /\ legacy' = FALSE
  <2>1. Side'
    BY <1>1, <1>2, HandlingSide DEF page, IInv
  <2>2. known => KnownInv'
    BY <1>1, <1>2, HandledKnown DEF keys
  <2> QED
    BY <1>1, <2>1, <2>2 DEF page
<1>3. CASE Fails
  <2>1. Replies(FALSE, Builtin) /\ UNCHANGED <<stored, legacy>>
    BY <1>3 DEF Fails
  <2>2. Side'
    BY <1>1, <2>1, HandlingSide DEF page, IInv
  <2>3. known => KnownInv'
    BY <1>1, <2>1, HandledKnown DEF keys
  <2> QED
    BY <1>1, <2>2, <2>3 DEF page
<1> QED
    BY <1>2, <1>3 DEF ImportData

LEMMA HidesStep ==
    ASSUME IInv, SetAutoHide
    PROVE  Side' /\ (known' => KnownInv')
<1>1. /\ posted # <<>> /\ Call.call = "hides" /\ UNCHANGED <<stored, legacy, keys, page>>
      /\ hides' = Call.arg /\ Replies(TRUE, Builtin)
    BY DEF SetAutoHide, Receives
<1>2. Side'
    BY <1>1, HandlingSide DEF page, IInv
<1>3. known => KnownInv'
    BY <1>1, HandledKnown DEF keys
<1> QED
    BY <1>1, <1>2, <1>3 DEF page

LEMMA TrayStep ==
    ASSUME IInv, Unregister \/ Register \/ Restore
    PROVE  Side' /\ (known' => KnownInv')
<1>1. /\ posted # <<>> /\ Call.call = "hotkey" /\ UNCHANGED <<go, page>>
  <2>0. Resting.at = "rests"
    BY DEF Resting
  <2>1. CASE Unregister
    BY <2>1 DEF Unregister, Receives
  <2>2. CASE Register
    BY <2>0, <2>2 DEF Register, IInv, TrayServes, Receives
  <2>3. CASE Restore
    BY <2>0, <2>3 DEF Restore, IInv, TrayServes, Receives
  <2> QED
    BY <2>1, <2>2, <2>3
<1>2. CASE \E ok \in BOOLEAN : Replies(ok, Builtin) /\ (ok => live' = Resolve(Call.arg))
  <2>1. PICK ok \in BOOLEAN : Replies(ok, Builtin) /\ (ok => live' = Resolve(Call.arg))
    BY <1>2
  <2>2. Side'
    BY <1>1, <2>1, HandlingSide DEF page, go, IInv
  <2>3. known => KnownInv'
    BY <1>1, <2>1, HandledKnown DEF go
  <2> QED
    BY <1>1, <2>2, <2>3 DEF page
\* The call is still under way.
<1>3. CASE UNCHANGED <<posted, answers>>
  <2>1. Side'
    BY <1>1, <1>3 DEF IInv, Side, ReadIsFresh, SavesAsAsked, StoredAfterImport, go, page
  <2>2. ASSUME known PROVE KnownInv'
    <3>1. /\ QueueJob.at = "apply" /\ Told("queue") # {} => overtaken
          /\ QueueJob.at \in {"back", "reapply"} => Told("queue") = {}
          /\ QueueJob.kind = "hotkey" /\ QueueJob.at = "save" => overtaken
          /\ Kept => StartJob # NoJob /\ Told("start") = {}
      BY <1>1, <2>2, NoClaim
    <3>2. /\ UNCHANGED <<stored, hides, copy, keyError, overtaken, QueueJob, StartJob>>
          /\ Posted("queue")' = Posted("queue") /\ Told("queue")' = Told("queue")
          /\ Posted("start")' = Posted("start") /\ Told("start")' = Told("start")
      BY <1>1, <1>3 DEF go, page, QueueJob, StartJob, Posted, Told
    <3>3. KnownInv /\ (StartAhead => StartAhead') /\ (StartOut => StartOut')
      BY <1>3, <2>2, <3>2 DEF IInv, StartAhead, StartOut
    <3>4. UNCHANGED <<WindowDoes, Windowed, Unwritten, Kept>>
      BY <3>2 DEF WindowDoes, Windowed, Unwritten, Kept
    <3>5. Alive' /\ Order' /\ Agrees'
      BY <1>3, <3>2, <3>3, <3>4 DEF KnownInv, Alive, Order, Second, Third, Agrees
    <3>6. QueueAsks' /\ StartAsks'
      BY <3>2, <3>3, <3>4 DEF KnownInv, QueueAsks, StartAsks
    <3>7. QueueIsTold'
      BY <3>1, <3>2, <3>3, <3>4 DEF KnownInv, QueueIsTold
    <3>8. KeyClaims'
      BY <3>1, <3>2, <3>4 DEF KeyClaims
    <3> QED
      BY <3>5, <3>6, <3>7, <3>8 DEF KnownInv
  <2> QED
    BY <1>1, <2>1, <2>2 DEF page
<1> QED
  <2>1. CASE Unregister
    BY <1>3, <2>1 DEF Unregister
  <2>2. CASE Register
    BY <1>2, <1>3, <2>2 DEF Register, Returns
  <2>3. CASE Restore
    BY <1>2, <2>3 DEF Restore, Returns
  <2> QED
    BY <2>1, <2>2, <2>3

-----------------------------------------------------------------------------
\* The user, and the world

\* What a page knows does not depend on the changes that wait, or on what other
\* programs have registered.
LEMMA Untouched ==
    ASSUME KnownInv, UNCHANGED <<stored, hides, live, copy, keyError, overtaken, jobs>>,
           UNCHANGED <<posted, answers>>
    PROVE  KnownInv'
<1>1. UNCHANGED <<QueueJob, StartJob>> /\ \A t \in Threads : Posted(t)' = Posted(t) /\ Told(t)' = Told(t)
    BY DEF QueueJob, StartJob, Posted, Told
<1>2. /\ Posted("queue")' = Posted("queue") /\ Told("queue")' = Told("queue")
      /\ Posted("start")' = Posted("start") /\ Told("start")' = Told("start")
    BY <1>1 DEF Threads
<1>3. UNCHANGED <<WindowDoes, Windowed, Unwritten, Kept, KeyIsStored, KeyFine, StartOut, StartAhead>>
    BY <1>1, <1>2 DEF WindowDoes, Windowed, Unwritten, Kept, KeyIsStored, KeyFine, StartOut,
                      StartAhead
<1>4. Alive' /\ Order' /\ Agrees'
    BY <1>1, <1>3 DEF KnownInv, Alive, Order, Second, Third, Agrees
<1>5. QueueAsks' /\ StartAsks' /\ QueueIsTold' /\ KeyClaims'
    BY <1>1, <1>2, <1>3 DEF KnownInv, QueueAsks, StartAsks, QueueIsTold, KeyClaims
<1> QED
    BY <1>4, <1>5 DEF KnownInv

LEMMA EnqueueStep ==
    ASSUME IInv, NEW c, Enqueue(c)
    PROVE  Side' /\ (known' => KnownInv')
<1>1. /\ UNCHANGED <<stored, legacy, hides, live, copy, keyError, jobs, posted, answers>>
      /\ UNCHANGED <<known, overtaken>>
    BY DEF Enqueue, go, keys
<1>2. Side'
    BY <1>1 DEF IInv, Side, ReadIsFresh, SavesAsAsked, StoredAfterImport
<1>3. known => KnownInv'
    BY <1>1, Untouched DEF IInv
<1> QED
    BY <1>1, <1>2, <1>3

LEMMA WorldStep ==
    ASSUME IInv, World
    PROVE  Side' /\ (known' => KnownInv')
<1>1. CASE OthersRegister \/ OthersUnregister \/ FileChanges
  <2>1. /\ UNCHANGED <<stored, legacy, hides, live, tray, page, posted, answers>>
    BY <1>1 DEF OthersRegister, OthersUnregister, FileChanges, go, keys
  <2>2. Side'
    BY <2>1 DEF IInv, Side, ReadIsFresh, SavesAsAsked, StoredAfterImport, page
  <2>3. known => KnownInv'
    BY <2>1, Untouched DEF IInv, page
  <2> QED
    BY <2>1, <2>2, <2>3 DEF page
<1>2. CASE Reload
    BY <1>2, ReloadSide DEF IInv, Reload
<1> QED
    BY <1>1, <1>2 DEF World

-----------------------------------------------------------------------------
\* The page takes an answer

LEMMA GoesSide ==
    ASSUME IInv, NEW t \in Threads, NEW at, NEW m \in Messages, Goes(t, at, m),
           answers # <<>>, Answer.by = t, answers' = Tail(answers), UNCHANGED go,
           [jobs[t] EXCEPT !.at = at].at = at,
           t = "start" => at # "get",
           t = "queue" => at # "blind" /\ (at = "get" => ~legacy),
           Sound(m)
    PROVE  Side'
<1> DEFINE job == [jobs[t] EXCEPT !.at = at]
<1>1. jobs' = [jobs EXCEPT ![t] = job] /\ posted' = Append(posted, m)
    BY DEF Goes, Calls, IInv, Base, SettingsTypeOK, JobsType
<1>2. job.at = at
    OBVIOUS
<1> HIDE DEF job
<1> QED
    BY <1>1, <1>2, TakingSide DEF IInv

LEMMA EndsSide ==
    ASSUME IInv, NEW t \in Threads, Ends(t),
           answers # <<>>, Answer.by = t, answers' = Tail(answers), UNCHANGED go
    PROVE  Side'
<1>1. NoJob.at = "idle"
    BY DEF NoJob
<1> QED
    BY <1>1, TakingSide DEF Ends, IInv

\* While the queue has no call on its way, none writes settings.
LEMMA OnlyStartCalls ==
    ASSUME Base, Alive, Posted("queue") = {}
    PROVE  \A i \in DOMAIN posted : posted[i].by = "start" /\ posted[i].call \in {"hides", "hotkey", "get"}
<1> SUFFICES ASSUME NEW i \in DOMAIN posted
             PROVE  posted[i].by = "start" /\ posted[i].call \in {"hides", "hotkey", "get"}
    OBVIOUS
<1>1. SettingsTypeOK /\ Plumbing
    BY DEF Base
<1>2. posted[i].by \in Senders /\ posted[i].by # Nobody /\ posted[i].by # "queue"
      /\ posted[i].call # "none"
    BY <1>1, Underway DEF Alive, Posted
<1>3. posted[i].by = "start" /\ posted[i].call = Expected(StartJob.at)
    BY <1>1, <1>2 DEF Senders, Threads, Plumbing, CallsFit, StartJob
<1> QED
    BY <1>1, <1>2, <1>3, StartStates DEF Expected

\* The queue takes its answer, and the change has settled ...
LEMMA QueueEnds ==
    ASSUME IInv, known, Ends("queue"), answers # <<>>, Answer.by = "queue",
           answers' = Tail(answers), UNCHANGED <<go, keys, overtaken>>,
           copy' = stored, Windowed,
           \/ Kept /\ keyError' = keyError
           \/ (keyError' \/ KeyFine) /\ (overtaken \/ StartOut)
    PROVE  KnownInv'
<1>1. Base /\ KnownInv /\ "queue" \in Threads /\ DOMAIN jobs = Threads
    BY DEF IInv, Base, SettingsTypeOK, JobsType, Threads
<1>2. QueueJob' = NoJob /\ StartJob' = StartJob
    BY <1>1 DEF Ends, QueueJob, StartJob, Threads
<1>3. /\ Posted("queue")' = {} /\ Told("queue")' = {}
      /\ Posted("start")' = Posted("start") /\ Told("start")' = Told("start")
      /\ StartAhead' /\ (StartOut => StartOut')
    BY <1>1, Taken, TakenEnds DEF Ends, Threads
<1>4. UNCHANGED <<stored, live, hides, posted>>
    BY DEF go, keys, Ends
<1>5. WindowDoes' = WindowDoes /\ Windowed' /\ KeyFine' = KeyFine /\ ~Unwritten'
    BY <1>2, <1>3, <1>4 DEF WindowDoes, Windowed, KeyFine, KeyIsStored, Unwritten, NoJob
<1>6. Alive' /\ Order'
    BY <1>1, <1>2, <1>3, <1>4 DEF KnownInv, Alive, Order, Second, Third, NoJob
<1>7. Agrees'
    BY <1>2, <1>4, <1>5 DEF Agrees, NoJob
<1>8. QueueAsks' /\ QueueIsTold'
    BY <1>3 DEF QueueAsks, QueueIsTold
<1>9. StartAsks'
    BY <1>1, <1>3, <1>4 DEF KnownInv, StartAsks, StartOut
<1>10. KeyClaims'
    BY <1>1, <1>2, <1>3, <1>5 DEF KnownInv, KeyClaims, StartOut, KeyFine, NoJob
<1> QED
    BY <1>6, <1>7, <1>8, <1>9, <1>10 DEF KnownInv

\* ... or it goes on.
LEMMA QueueGoes ==
    ASSUME IInv, known, NEW at, NEW m \in Messages, Goes("queue", at, m), m.by = "queue",
           answers # <<>>, Answer.by = "queue", answers' = Tail(answers)
    PROVE  /\ QueueJob' = [QueueJob EXCEPT !.at = at] /\ StartJob' = StartJob
           /\ Posted("queue")' = {m} /\ Told("queue")' = {}
           /\ Posted("start")' = Posted("start") /\ Told("start")' = Told("start")
           /\ StartAhead' /\ (StartAhead => StartOut /\ StartOut') /\ (StartOut => StartOut')
           /\ Alive' /\ Told("queue") = {Answer}
<1>1. Base /\ KnownInv /\ "queue" \in Threads /\ DOMAIN jobs = Threads
      /\ posted \in Seq(Messages) /\ posted' = Append(posted, m)
    BY DEF IInv, Base, SettingsTypeOK, JobsType, Threads, Goes, Calls
<1>2. QueueJob' = [QueueJob EXCEPT !.at = at] /\ StartJob' = StartJob
    BY <1>1 DEF Goes, QueueJob, StartJob, Threads
<1>3. /\ Posted("queue")' = {m} /\ Told("queue")' = {} /\ Told("queue") = {Answer}
      /\ Posted("start")' = Posted("start") /\ Told("start")' = Told("start")
      /\ StartAhead' /\ (StartAhead => StartOut) /\ (StartOut => StartOut')
    BY <1>1, Taken, TakenCalls DEF Threads
<1>4. Alive'
  <2>1. \A i \in DOMAIN posted' : posted'[i] = m \/ (i \in DOMAIN posted /\ posted'[i] = posted[i])
    BY <1>1, AppendOf
  <2>2. m.by # Nobody
    BY DEF Nobody
  <2> QED
    BY <1>1, <1>2, <2>1, <2>2 DEF KnownInv, Alive
<1> QED
    BY <1>2, <1>3, <1>4

LEMMA KeyAppliedStep ==
    ASSUME IInv, KeyApplied
    PROVE  Side' /\ (known' => KnownInv')
<1> DEFINE p == [f \in {"hotkey"} |-> QueueJob.name]
<1>1. /\ answers # <<>> /\ Answer.by = "queue" /\ QueueJob.at = "apply"
      /\ answers' = Tail(answers) /\ UNCHANGED <<go, keys, queue, copy, known, overtaken>>
    BY DEF KeyApplied, Awaits, QueueJob
<1>2. SettingsTypeOK /\ Base /\ "queue" \in Threads
    BY DEF IInv, Base, Threads
<1>3. QueueJob.kind = "hotkey" /\ QueueJob.name \in Names /\ QueueJob # NoJob
    BY <1>1, <1>2, QueueStates, JobTypes DEF QueueJob
<1>4. ASSUME known
      PROVE  /\ KnownInv /\ copy = stored /\ Windowed /\ QueueJob.previous = copy["hotkey"]
             /\ Answer.ok => overtaken \/ live = Resolve(QueueJob.name)
             /\ StartJob.at = "effect" \/ ~overtaken => StartAhead
             /\ Told("queue") = {Answer} /\ Posted("queue") = {}
    BY <1>1, <1>2, <1>3, <1>4, Taken DEF IInv, KnownInv, Agrees, QueueIsTold, Order
<1>5. CASE Answer.ok
  <2>1. p \in Patches /\ DOMAIN p = {"hotkey"} /\ p["hotkey"] = QueueJob.name
    BY <1>3 DEF Patches
  <2>2. Goes("queue", "save", Save(p)) /\ UNCHANGED keyError
    BY <1>5 DEF KeyApplied, QueueJob
  <2> HIDE DEF p
  <2> DEFINE m == Save(p)
             job == [QueueJob EXCEPT !.at = "save"]
  <2>3. /\ m \in Messages /\ m.by = "queue" /\ m.call = "save" /\ m.patch = p /\ m.known = known
        /\ \A f \in Fields : m.arg[f] = IF f \in DOMAIN p THEN p[f] ELSE copy[f]
    BY <1>2, <2>1, SaveMessage
  <2> HIDE DEF m
  <2>4. /\ job.at = "save" /\ job.kind = "hotkey" /\ job.name = QueueJob.name
        /\ job.previous = QueueJob.previous
    BY <1>2, <1>3, NextJob DEF QueueJob
  <2>5. Sound(m)
    <3> SUFFICES ASSUME known
                 PROVE  /\ \A i \in DOMAIN posted : posted[i].call \notin {"save", "import"}
                        /\ \A f \in Fields : f \notin DOMAIN p => m.arg[f] = stored[f]
      BY <2>3 DEF Sound
    <3>1. \A i \in DOMAIN posted : posted[i].call \notin {"save", "import"}
      BY <1>2, <1>4, OnlyStartCalls DEF KnownInv
    <3> QED
      BY <1>4, <2>3, <3>1
  <2>6. Side'
    BY <1>1, <1>2, <2>2, <2>3, <2>4, <2>5, GoesSide DEF QueueJob, m
  <2>7. ASSUME known PROVE KnownInv'
    <3>1. /\ QueueJob' = job /\ StartJob' = StartJob
          /\ Posted("queue")' = {m} /\ Told("queue")' = {}
          /\ Posted("start")' = Posted("start") /\ Told("start")' = Told("start")
          /\ StartAhead' /\ (StartAhead => StartOut') /\ Alive'
      BY <1>1, <2>2, <2>3, <2>7, QueueGoes DEF m
    <3> HIDE DEF job
    <3>2. QueueJob'.at = "save" /\ QueueJob'.kind = "hotkey" /\ QueueJob'.name = QueueJob.name
          /\ QueueJob'.previous = QueueJob.previous /\ QueueJob' # NoJob
      BY <2>4, <3>1 DEF NoJob
    <3>3. UNCHANGED <<stored, hides, live, copy, overtaken, keyError>>
      BY <1>1, <2>2 DEF go, keys
    <3>4. Order'
      BY <1>4, <2>7, <3>1, <3>2, <3>3 DEF Order, Third
    <3>5. Agrees'
      BY <1>4, <2>7, <3>1, <3>2, <3>3 DEF Agrees, Windowed, WindowDoes
    <3>6. QueueAsks'
      <4>1. m.arg["hotkey"] = QueueJob.name /\ m.known /\ m.patch = p /\ m.call = "save"
        BY <2>1, <2>3, <2>7 DEF Fields
      <4> QED
        BY <2>1, <3>1, <3>2, <4>1 DEF QueueAsks
    <3>7. QueueIsTold'
      BY <3>1 DEF QueueIsTold
    <3>8. ~Kept'
      BY <3>2 DEF Kept
    <3>9. StartAsks' /\ KeyClaims'
      BY <1>4, <1>5, <2>7, <3>1, <3>2, <3>3, <3>8 DEF KnownInv, StartAsks, KeyClaims
    <3> QED
      BY <3>1, <3>4, <3>5, <3>6, <3>7, <3>9 DEF KnownInv
  <2> QED
    BY <1>1, <2>6, <2>7
<1>6. CASE ~Answer.ok
  <2>1. Ends("queue") /\ keyError' = TRUE
    BY <1>6 DEF KeyApplied
  <2>2. Side'
    BY <1>1, <1>2, <2>1, EndsSide
  <2>3. ASSUME known PROVE KnownInv'
    <3>1. overtaken \/ StartOut
      BY <1>1, <1>2, <1>4, <2>3, Taken
    <3> QED
      BY <1>1, <1>4, <2>1, <2>3, <3>1, QueueEnds
  <2> QED
    BY <1>1, <2>2, <2>3
<1> QED
    BY <1>5, <1>6

LEMMA SavedStep ==
    ASSUME IInv, Saved
    PROVE  Side' /\ (known' => KnownInv')
<1>1. /\ answers # <<>> /\ Answer.by = "queue" /\ QueueJob.at = "save"
      /\ answers' = Tail(answers) /\ UNCHANGED <<go, keys, queue, keyError, known, overtaken>>
      /\ copy' = IF Answer.ok THEN Answer.value ELSE copy
    BY DEF Saved, Awaits, QueueJob
<1>2. SettingsTypeOK /\ Base /\ "queue" \in Threads /\ QueueJob = jobs["queue"]
    BY DEF IInv, Base, Threads, QueueJob
<1>3. QueueJob.kind \in {"save", "hotkey"} /\ QueueJob # NoJob
    BY <1>1, <1>2, QueueStates, JobTypes
<1>4. UNCHANGED <<stored, hides, live, legacy>>
    BY <1>1 DEF go, keys
<1>5. ASSUME known
      PROVE  /\ KnownInv /\ copy' = stored
             /\ QueueJob.kind = "hotkey" \/ ~Answer.ok => Windowed
             /\ QueueJob.kind = "hotkey" =>
                   /\ overtaken \/ StartOut
                   /\ overtaken \/ live = Resolve(QueueJob.name)
                   /\ Answer.ok => stored["hotkey"] = QueueJob.name
             /\ ~Answer.ok => Unwritten
             /\ QueueJob.kind = "save" => copy'["hotkey"] = copy["hotkey"]
             /\ StartJob.at = "effect" \/ QueueJob.kind = "hotkey" => StartAhead
  <2>1. KnownInv /\ Told("queue") = {Answer}
    BY <1>1, <1>2, <1>5, Taken DEF IInv
  <2>2. /\ Answer.ok => /\ Answer.value = stored
                        /\ QueueJob.kind = "hotkey" =>
                              Windowed /\ stored["hotkey"] = QueueJob.name
        /\ ~Answer.ok => Unwritten
    BY <1>1, <2>1 DEF KnownInv, QueueIsTold, Unwritten
  <2>3. copy' = stored /\ (~Answer.ok => Windowed)
    BY <1>1, <2>1, <2>2 DEF KnownInv, Agrees
  <2>4. QueueJob.kind = "save" => copy["hotkey"] = stored["hotkey"]
    BY <2>1 DEF KnownInv, Agrees
  <2>5. /\ StartJob.at = "effect" \/ QueueJob.kind = "hotkey" => StartAhead
        /\ QueueJob.kind = "hotkey" => overtaken \/ StartOut
    BY <1>1, <2>1 DEF KnownInv, Order, Second
  <2>6. QueueJob.kind = "hotkey" => overtaken \/ live = Resolve(QueueJob.name)
    BY <1>1, <2>1 DEF KnownInv, KeyClaims
  <2> QED
    BY <2>1, <2>2, <2>3, <2>4, <2>5, <2>6
<1>6. CASE Answer.ok /\ QueueJob.kind = "save"
  <2> DEFINE m == ApplyAutoHide("queue", ~copy'["stays"])
             job == [QueueJob EXCEPT !.at = "effect"]
  <2>1. Goes("queue", "effect", m)
    BY <1>2, <1>6 DEF Saved
  <2>2. copy' \in Settings
    BY <1>1, <1>2, AnswerTypes DEF SettingsTypeOK
  <2>3. m \in Messages /\ m.by = "queue" /\ m.call = "hides" /\ m.arg = ~copy'["stays"]
    <3>1. (~copy'["stays"]) \in BOOLEAN
      BY <2>2 DEF Settings
    <3> QED
      BY <1>2, <3>1, OtherMessages
  <2>4. job.at = "effect" /\ job.kind = "save"
    BY <1>2, <1>6, NextJob
  <2> HIDE DEF m
  <2>5. Side'
    BY <1>1, <1>2, <2>1, <2>3, <2>4, GoesSide DEF Sound
  <2>6. ASSUME known PROVE KnownInv'
    <3>1. /\ QueueJob' = job /\ StartJob' = StartJob
          /\ Posted("queue")' = {m} /\ Told("queue")' = {}
          /\ Posted("start")' = Posted("start") /\ Told("start")' = Told("start")
          /\ StartAhead' /\ (StartAhead => StartOut') /\ Alive'
      BY <1>1, <2>1, <2>3, <2>6, QueueGoes
    <3> HIDE DEF job
    <3>2. QueueJob'.at = "effect" /\ QueueJob'.kind = "save"
      BY <2>4, <3>1
    <3>3. KeyFine' = KeyFine
      BY <1>1, <1>4 DEF KeyFine, KeyIsStored
    <3>4. Order'
      BY <1>5, <2>6, <3>1, <3>2 DEF Order, Third
    <3>5. Agrees'
      BY <1>4, <1>5, <2>6, <3>2 DEF Agrees, Unwritten
    <3>6. QueueAsks' /\ QueueIsTold'
      BY <1>4, <1>5, <2>3, <2>6, <3>1 DEF QueueAsks, QueueIsTold
    <3>7. Kept /\ KnownInv
      BY <1>5, <1>6, <2>6 DEF Kept
    <3>8. StartAsks' /\ KeyClaims'
      BY <1>1, <1>4, <3>1, <3>2, <3>3, <3>7 DEF KnownInv, StartAsks, KeyClaims
    <3> QED
      BY <3>1, <3>4, <3>5, <3>6, <3>8 DEF KnownInv
  <2> QED
    BY <1>1, <2>5, <2>6
<1>7. CASE ~Answer.ok /\ QueueJob.kind = "hotkey"
  <2> DEFINE m == SetHotkey("queue", QueueJob.previous)
             job == [QueueJob EXCEPT !.at = "back"]
  <2>1. Goes("queue", "back", m)
    BY <1>2, <1>7 DEF Saved
  <2>2. QueueJob.previous \in Names
    BY <1>2, <1>7, QueueStates
  <2>3. m \in Messages /\ m.by = "queue" /\ m.call = "hotkey" /\ m.arg = QueueJob.previous
    BY <1>2, <2>2, OtherMessages
  <2>4. job.at = "back" /\ job.kind = "hotkey" /\ job.previous = QueueJob.previous
    BY <1>2, <1>7, NextJob
  <2> HIDE DEF m
  <2>5. Side'
    BY <1>1, <1>2, <2>1, <2>3, <2>4, GoesSide DEF Sound
  <2>6. ASSUME known PROVE KnownInv'
    <3>1. /\ QueueJob' = job /\ StartJob' = StartJob
          /\ Posted("queue")' = {m} /\ Told("queue")' = {}
          /\ Posted("start")' = Posted("start") /\ Told("start")' = Told("start")
          /\ StartAhead' /\ (StartAhead => StartOut') /\ Alive'
      BY <1>1, <2>1, <2>3, <2>6, QueueGoes
    <3> HIDE DEF job
    <3>2. QueueJob'.at = "back" /\ QueueJob'.kind = "hotkey" /\ QueueJob' # NoJob
          /\ QueueJob'.previous = QueueJob.previous
      BY <2>4, <3>1 DEF NoJob
    <3>3. StartOut'
      BY <1>5, <1>7, <2>6, <3>1
    <3>4. Order'
      BY <3>1, <3>3 DEF Order
    <3>5. Agrees'
      <4>1. Windowed'
        BY <1>4, <1>5, <1>7, <2>6, <3>1 DEF Windowed, WindowDoes
      <4>2. QueueJob.previous = copy["hotkey"] /\ copy' = copy
        BY <1>1, <1>5, <1>7, <2>6 DEF KnownInv, Agrees
      <4> QED
        BY <1>4, <1>5, <2>6, <3>2, <4>1, <4>2 DEF Agrees, Unwritten
    <3>6. QueueAsks' /\ QueueIsTold'
      BY <2>3, <3>1, <3>2 DEF QueueAsks, QueueIsTold
    <3>7. ~Kept'
      BY <3>2 DEF Kept
    <3>8. StartAsks' /\ KeyClaims'
      BY <3>2, <3>3, <3>7 DEF StartAsks, KeyClaims, StartOut
    <3> QED
      BY <3>1, <3>4, <3>5, <3>6, <3>8 DEF KnownInv
  <2> QED
    BY <1>1, <2>5, <2>6
<1>8. CASE Ends("queue") /\ (Answer.ok => QueueJob.kind = "hotkey") /\ (~Answer.ok => QueueJob.kind = "save")
  <2>1. Side'
    BY <1>1, <1>2, <1>8, EndsSide
  <2>2. ASSUME known PROVE KnownInv'
    <3>1. Windowed /\ copy' = stored
      BY <1>5, <1>8, <2>2
    <3>2. \/ Kept /\ keyError' = keyError
          \/ (keyError' \/ KeyFine) /\ (overtaken \/ StartOut)
      <4>1. CASE QueueJob.kind = "save"
        BY <1>1, <4>1 DEF Kept
      <4>2. CASE QueueJob.kind = "hotkey"
        BY <1>5, <1>8, <2>2, <4>2 DEF KeyFine, KeyIsStored
      <4> QED
        BY <1>3, <4>1, <4>2
    <3> QED
      BY <1>1, <1>8, <2>2, <3>1, <3>2, QueueEnds
  <2> QED
    BY <1>1, <2>1, <2>2
<1> QED
    BY <1>2, <1>3, <1>6, <1>7, <1>8 DEF Saved

LEMMA KeyRestoredStep ==
    ASSUME IInv, KeyRestored
    PROVE  Side' /\ (known' => KnownInv')
<1>1. /\ answers # <<>> /\ Answer.by = "queue" /\ QueueJob.at = "back"
      /\ answers' = Tail(answers) /\ UNCHANGED <<go, keys, queue, copy, known, overtaken>>
      /\ Ends("queue") /\ keyError' = (keyError \/ ~Answer.ok)
    BY DEF KeyRestored, Awaits, QueueJob
<1>2. SettingsTypeOK /\ Base /\ "queue" \in Threads /\ QueueJob = jobs["queue"]
    BY DEF IInv, Base, Threads, QueueJob
<1>3. Side'
    BY <1>1, <1>2, EndsSide
<1>4. ASSUME known PROVE KnownInv'
  <2>1. KnownInv /\ Told("queue") = {Answer} /\ QueueJob.kind = "hotkey"
    BY <1>1, <1>2, <1>4, Taken, JobTypes DEF IInv
  <2>2. copy = stored /\ Windowed /\ QueueJob.previous = stored["hotkey"]
    BY <1>1, <2>1 DEF KnownInv, Agrees
  <2>3. Answer.ok => KeyFine
    BY <1>1, <2>1, <2>2 DEF KnownInv, QueueIsTold, KeyFine, KeyIsStored
  <2>4. StartOut
    BY <1>1, <2>1 DEF KnownInv, Order, Third
  <2>5. Answer.ok \in BOOLEAN
    BY <1>1, <1>2, AnswerTypes
  <2> QED
    BY <1>1, <1>4, <2>2, <2>3, <2>4, <2>5, QueueEnds
<1> QED
    BY <1>1, <1>3, <1>4

LEMMA ImportedStep ==
    ASSUME IInv, Imported
    PROVE  Side' /\ (known' => KnownInv')
<1>1. /\ answers # <<>> /\ Answer.by = "queue" /\ QueueJob.at = "import"
      /\ answers' = Tail(answers)
      /\ UNCHANGED <<go, keys, queue, copy, keyError, known, overtaken>>
    BY DEF Imported, Awaits, QueueJob
<1>2. SettingsTypeOK /\ Base /\ "queue" \in Threads /\ QueueJob = jobs["queue"]
    BY DEF IInv, Base, Threads, QueueJob
<1>3. QueueJob.kind = "import" /\ QueueJob # NoJob
    BY <1>1, <1>2, JobTypes, QueueStates
<1>4. CASE Answer.ok
  <2> DEFINE m == GetCall("queue")
             job == [QueueJob EXCEPT !.at = "get"]
  <2>1. Goes("queue", "get", m)
    BY <1>4 DEF Imported
  <2>2. m \in Messages /\ m.by = "queue" /\ m.call = "get"
    BY <1>2, OtherMessages
  <2>3. job.at = "get" /\ job.kind = "import"
    BY <1>2, <1>3, NextJob
  <2>4. ~legacy
    BY <1>1, <1>2, <1>4, AnswerTypes DEF IInv, Side, StoredAfterImport
  <2> HIDE DEF m
  <2>5. Side'
    BY <1>1, <1>2, <2>1, <2>2, <2>3, <2>4, GoesSide DEF Sound
  <2>6. ASSUME known PROVE KnownInv'
    <3>1. /\ QueueJob' = job /\ StartJob' = StartJob
          /\ Posted("queue")' = {m} /\ Told("queue")' = {}
          /\ Posted("start")' = Posted("start") /\ Told("start")' = Told("start")
          /\ StartAhead' /\ (StartAhead => StartOut') /\ Alive'
      BY <1>1, <2>1, <2>2, <2>6, QueueGoes
    <3> HIDE DEF job
    <3>2. QueueJob'.at = "get" /\ QueueJob'.kind = "import" /\ QueueJob' # NoJob
      BY <2>3, <3>1 DEF NoJob
    <3>3. ~Unwritten' /\ ~Kept'
      BY <3>2 DEF Unwritten, Kept
    <3>4. KnownInv
      BY <2>6 DEF IInv
    <3>5. Order'
      BY <3>1, <3>2, <3>4 DEF KnownInv, Order, Third
    <3>6. Agrees' /\ QueueAsks' /\ QueueIsTold' /\ KeyClaims'
      BY <2>2, <3>1, <3>2, <3>3 DEF Agrees, QueueAsks, QueueIsTold, KeyClaims
    <3>7. StartAsks'
      BY <1>1, <3>1, <3>3, <3>4 DEF KnownInv, StartAsks, go
    <3> QED
      BY <3>1, <3>5, <3>6, <3>7 DEF KnownInv
  <2> QED
    BY <1>1, <2>5, <2>6
<1>5. CASE ~Answer.ok
  <2>1. Ends("queue")
    BY <1>5 DEF Imported
  <2>2. Side'
    BY <1>1, <1>2, <2>1, EndsSide
  <2>3. ASSUME known PROVE KnownInv'
    <3>1. KnownInv /\ Told("queue") = {Answer}
      BY <1>1, <1>2, <2>3, Taken DEF IInv
    <3>2. Unwritten /\ Kept
      BY <1>1, <1>3, <1>5, <3>1 DEF Unwritten, Kept
    <3>3. copy = stored /\ Windowed
      BY <3>1, <3>2 DEF KnownInv, Agrees
    <3> QED
      BY <1>1, <2>1, <2>3, <3>2, <3>3, QueueEnds
  <2> QED
    BY <1>1, <2>2, <2>3
<1> QED
    BY <1>4, <1>5

\* The start of a page, when it learns the settings, has only their answer left.
LEMMA OnlyTheAnswer ==
    ASSUME IInv, answers # <<>>, Answer.by = "start", StartJob.at = "get", Answer.ok,
           QueueJob = NoJob
    PROVE  /\ DOMAIN posted = {} /\ DOMAIN Tail(answers) = {}
           /\ Answer.value = stored
<1>1. SettingsTypeOK /\ Plumbing /\ answers \in Seq(Replied) /\ posted \in Seq(Messages)
    BY DEF IInv, Base, SettingsTypeOK
<1>2. /\ Answer = answers[1] /\ 1 \in DOMAIN answers
      /\ \A j \in DOMAIN Tail(answers) : j \in Nat /\ j >= 1 /\ j + 1 \in DOMAIN answers
    BY <1>1, TailOf DEF Answer
<1>3. \A j \in DOMAIN answers : answers[j].by \in Threads /\ answers[j].by # "queue"
    BY <1>1, Underway DEF Plumbing, CallsFit, QueueJob
<1>4. \A j \in DOMAIN answers : j = 1
    BY <1>1, <1>2, <1>3 DEF Threads, Plumbing, OneEach
<1>5. DOMAIN Tail(answers) = {}
  <2> SUFFICES ASSUME NEW j \in DOMAIN Tail(answers) PROVE FALSE
    OBVIOUS
  <2>1. j + 1 = 1 /\ j \in Nat /\ j >= 1
    BY <1>2, <1>4
  <2> QED
    BY <2>1
<1>6. ASSUME NEW i \in DOMAIN posted PROVE FALSE
  <2>1. posted[i].by \in Threads
    BY <1>1, Underway DEF Plumbing, OldFirst, Senders
  <2>2. posted[i].by # "start"
    BY <1>1, <1>2 DEF Plumbing, OneEach
  <2>3. posted[i].by = "queue" => posted[i].call = "none"
    BY <1>1, <2>1 DEF Plumbing, CallsFit, Expected, NoJob, QueueJob, Threads, Nobody
  <2> QED
    BY <1>1, <2>1, <2>2, <2>3, Underway DEF Threads
<1>7. Answer.value = stored
    BY <1>2, <1>3 DEF IInv, Side, ReadIsFresh, StartJob
<1> QED
    BY <1>5, <1>6, <1>7

LEMMA LoadedStep ==
    ASSUME IInv, NEW t \in Threads, Loaded(t)
    PROVE  Side' /\ (known' => KnownInv')
<1> DEFINE at == IF Answer.ok THEN "effect" ELSE "blind"
           m == ApplyAutoHide(t, ~copy'["stays"])
           job == [jobs[t] EXCEPT !.at = at]
<1>1. /\ answers # <<>> /\ Answer.by = t /\ jobs[t].at = "get"
      /\ answers' = Tail(answers) /\ UNCHANGED <<go, keys, queue, keyError, overtaken>>
      /\ copy' = IF Answer.ok THEN Answer.value ELSE copy
      /\ known' = (known \/ (Answer.ok /\ queue = <<>> /\ QueueJob = NoJob))
      /\ Goes(t, at, m)
    BY DEF Loaded, Awaits, Goes, QueueJob
<1>2. SettingsTypeOK /\ Base /\ t \in {"queue", "start"}
    BY DEF IInv, Base, Threads
<1>3. IF t = "start" THEN jobs[t] # NoJob ELSE jobs[t].kind = "import"
    BY <1>1, <1>2, JobTypes DEF NoJob
<1>4. at \in {"effect", "blind"} /\ (Answer.ok => at = "effect")
    OBVIOUS
<1> HIDE DEF at
<1>5. job.at = at /\ job.kind = jobs[t].kind
    BY <1>2, <1>3, <1>4, NextJob
<1>6. m \in Messages /\ m.by = t /\ m.call = "hides" /\ m.arg = ~copy'["stays"]
  <2>1. copy' \in Settings
    BY <1>1, <1>2, AnswerTypes DEF SettingsTypeOK
  <2>2. (~copy'["stays"]) \in BOOLEAN
    BY <2>1 DEF Settings
  <2> QED
    BY <2>2, OtherMessages
<1> HIDE DEF m
<1>7. t = "queue" => Answer.ok
    BY <1>1, <1>2, AnswerTypes DEF IInv, Side, StoredAfterImport
<1>8. Side'
    BY <1>1, <1>4, <1>5, <1>6, <1>7, GoesSide DEF Sound
<1>9. ASSUME t = "queue", known PROVE KnownInv'
  <2>0. QueueJob.at = "get" /\ jobs["queue"] = QueueJob
    BY <1>1, <1>9 DEF QueueJob
  <2>1. /\ QueueJob' = job /\ StartJob' = StartJob
        /\ Posted("queue")' = {m} /\ Told("queue")' = {} /\ Told("queue") = {Answer}
        /\ Posted("start")' = Posted("start") /\ Told("start")' = Told("start")
        /\ StartAhead' /\ (StartAhead => StartOut') /\ Alive'
    BY <1>1, <1>6, <1>9, <2>0, QueueGoes
  <2> HIDE DEF job
  <2>2. QueueJob'.at = "effect" /\ QueueJob'.kind = "import" /\ QueueJob' # NoJob
    BY <1>3, <1>4, <1>5, <1>7, <1>9, <2>1 DEF NoJob
  <2>3. KnownInv /\ StartOut'
    BY <1>9, <2>0, <2>1 DEF IInv, KnownInv, Order, Second
  <2>4. copy' = stored /\ stored' = stored
    BY <1>1, <1>7, <1>9, <2>0, <2>1, <2>3 DEF KnownInv, QueueIsTold, go
  <2>5. ~Unwritten' /\ ~Kept'
    BY <2>2 DEF Unwritten, Kept
  <2>6. Order'
    BY <2>1, <2>2, <2>3 DEF Order
  <2>7. Agrees' /\ QueueAsks' /\ QueueIsTold'
    BY <1>6, <2>1, <2>2, <2>4, <2>5 DEF Agrees, QueueAsks, QueueIsTold
  <2>8. StartAsks' /\ KeyClaims'
    BY <2>2, <2>3, <2>5 DEF StartAsks, KeyClaims, StartOut
  <2> QED
    BY <2>1, <2>6, <2>7, <2>8 DEF KnownInv
<1>10. ASSUME t = "start", known' PROVE KnownInv'
  <2>1. ~known
    BY <1>1, <1>3, <1>10 DEF IInv, KnownInv, Alive, StartJob
  <2>2. Answer.ok /\ QueueJob = NoJob
    BY <1>1, <1>10, <2>1
  <2>3. DOMAIN posted = {} /\ DOMAIN answers' = {} /\ copy' = stored'
    BY <1>1, <1>10, <2>2, OnlyTheAnswer DEF StartJob, go
  <2>4. DOMAIN posted' = {1} /\ posted'[1] = m
    <3>1. posted \in Seq(Messages) /\ posted' = Append(posted, m)
      BY <1>1, <1>2 DEF SettingsTypeOK, Goes, Calls
    <3>2. posted = <<>>
      BY <2>3, <3>1
    <3> QED
      BY <3>1, <3>2, <1>6
  <2>5. StartJob' = job /\ StartJob'.at = "effect" /\ QueueJob' = NoJob /\ StartJob' # NoJob
    BY <1>1, <1>2, <1>4, <1>5, <1>10, <2>2
    DEF Goes, IInv, Base, SettingsTypeOK, JobsType, StartJob, QueueJob, Threads, NoJob
  <2> HIDE DEF job
  <2>6. /\ Posted("start")' = {m} /\ Told("start")' = {}
        /\ Posted("queue")' = {} /\ Told("queue")' = {}
    BY <1>6, <1>10, <2>3, <2>4 DEF Posted, Told
  <2>7. Alive'
    BY <1>6, <1>10, <2>4, <2>5 DEF Alive, Nobody
  <2>8. StartAhead'
    BY <1>6, <1>10, <2>3, <2>4, <2>6 DEF StartAhead
  <2>9. Order'
    BY <2>5, <2>8 DEF Order, Second, Third, NoJob
  <2>10. Agrees'
    BY <2>3, <2>5, <2>6 DEF Agrees, Windowed, NoJob
  <2>11. QueueAsks' /\ QueueIsTold' /\ StartAsks'
    BY <1>6, <2>3, <2>6 DEF QueueAsks, QueueIsTold, StartAsks
  <2>12. KeyClaims'
    BY <2>5 DEF KeyClaims, NoJob
  <2> QED
    BY <2>7, <2>9, <2>10, <2>11, <2>12 DEF KnownInv
<1>11. t = "queue" /\ known' => known
  <2>1. t = "queue" => QueueJob # NoJob
    BY <1>1 DEF QueueJob, NoJob
  <2> QED
    BY <1>1, <2>1
<1> QED
    BY <1>2, <1>8, <1>9, <1>10, <1>11

LEMMA EffectStep ==
    ASSUME IInv, NEW t \in Threads, EffectDone(t)
    PROVE  Side' /\ (known' => KnownInv')
<1>1. /\ answers # <<>> /\ Answer.by = t /\ jobs[t].at \in {"effect", "blind"}
      /\ answers' = Tail(answers) /\ UNCHANGED <<go, keys, queue, copy, keyError, known>>
    BY DEF EffectDone, Awaits
<1>2. SettingsTypeOK /\ Base /\ t \in {"queue", "start"}
    BY DEF IInv, Base, Threads
<1>3. UNCHANGED <<stored, hides, live, WindowDoes, KeyIsStored>>
    BY <1>1 DEF go, keys, WindowDoes, KeyIsStored
<1>4. ASSUME known
      PROVE  /\ KnownInv /\ jobs[t].at = "effect"
             /\ Told(t) = {Answer} /\ Posted(t) = {}
  <2>1. KnownInv
    BY <1>4 DEF IInv
  <2>2. jobs[t].at = "effect"
    BY <1>1, <1>2, <2>1 DEF StartJob, IInv, Side, StoredAfterImport, KnownInv, Alive, NoJob
  <2> QED
    BY <1>1, <1>2, <2>1, <2>2, Taken
<1>5. CASE jobs[t].at = "effect" /\ jobs[t].kind # "save"
  <2> DEFINE m == SetHotkey(t, copy["hotkey"])
             job == [jobs[t] EXCEPT !.at = "reapply"]
  <2>1. Goes(t, "reapply", m) /\ overtaken' = (QueueJob.kind = "hotkey")
    BY <1>5 DEF EffectDone, QueueJob
  <2>2. m \in Messages /\ m.by = t /\ m.call = "hotkey" /\ m.arg = copy["hotkey"]
    BY <1>2, OtherMessages DEF SettingsTypeOK, Settings
  <2>3. IF t = "start" THEN jobs[t] # NoJob ELSE jobs[t].kind = "import"
    BY <1>2, <1>5, JobTypes DEF NoJob
  <2>4. job.at = "reapply" /\ job.kind = jobs[t].kind
    BY <1>2, <2>3, NextJob
  <2> HIDE DEF m
  <2>5. Side'
    BY <1>1, <2>1, <2>2, <2>4, GoesSide DEF Sound
  <2>6. ASSUME t = "queue", known PROVE KnownInv'
    <3>0. QueueJob.at = "effect" /\ QueueJob.kind = "import" /\ jobs["queue"] = QueueJob
      BY <1>5, <2>3, <2>6 DEF QueueJob
    <3>1. /\ QueueJob' = job /\ StartJob' = StartJob
          /\ Posted("queue")' = {m} /\ Told("queue")' = {}
          /\ Posted("start")' = Posted("start") /\ Told("start")' = Told("start")
          /\ StartAhead' /\ (StartOut => StartOut') /\ Alive'
      BY <1>1, <2>1, <2>2, <2>6, <3>0, QueueGoes
    <3> HIDE DEF job
    <3>2. QueueJob'.at = "reapply" /\ QueueJob'.kind = "import" /\ QueueJob' # NoJob
      BY <2>4, <2>6, <3>0, <3>1 DEF NoJob
    <3>3. KnownInv /\ StartOut' /\ WindowDoes /\ copy = stored
      BY <1>4, <2>6, <3>0, <3>1 DEF KnownInv, Order, Third, Agrees, QueueIsTold
    <3>4. ~Unwritten' /\ ~Kept'
      BY <3>2 DEF Unwritten, Kept
    <3>5. Order'
      BY <3>1, <3>2, <3>3 DEF Order
    <3>6. Agrees' /\ QueueAsks' /\ QueueIsTold'
      BY <1>1, <1>3, <2>2, <3>1, <3>2, <3>3, <3>4 DEF Agrees, QueueAsks, QueueIsTold, Windowed
    <3>7. StartAsks' /\ KeyClaims'
      BY <3>2, <3>3, <3>4 DEF StartAsks, KeyClaims, StartOut
    <3> QED
      BY <3>1, <3>5, <3>6, <3>7 DEF KnownInv
  <2>7. ASSUME t = "start", known PROVE KnownInv'
    <3>1. /\ KnownInv /\ StartJob.at = "effect" /\ jobs["start"] = StartJob
          /\ Told("start") = {Answer} /\ Posted("start") = {}
      BY <1>4, <2>7 DEF StartJob
    <3>2. StartJob' = job /\ QueueJob' = QueueJob
      BY <1>2, <2>1, <2>7 DEF Goes, SettingsTypeOK, JobsType, StartJob, QueueJob, Threads
    <3>3. StartJob'.at = "reapply" /\ StartJob' # NoJob
      BY <2>4, <3>2 DEF NoJob
    <3> HIDE DEF job
    <3>4. /\ Posted("start")' = {m} /\ Told("start")' = {}
          /\ Posted("queue")' = Posted("queue") /\ Told("queue")' = Told("queue")
          /\ posted' = Append(posted, m) /\ posted \in Seq(Messages)
      BY <1>1, <1>2, <2>1, <2>2, <2>7, Taken, TakenCalls DEF Goes, Calls, Threads, SettingsTypeOK
    <3>5. ~StartOut /\ StartAhead
      BY <3>1 DEF StartOut, KnownInv, Order
    <3>6. /\ ~Third /\ ~Second
          /\ QueueJob.kind = "hotkey" /\ QueueJob.at = "save" => overtaken
      BY <3>1, <3>5 DEF KnownInv, Order
    <3>7. overtaken' = (QueueJob.kind = "hotkey")
      BY <2>1
    <3>8. Alive'
      <4>1. \A i \in DOMAIN posted' : posted'[i] = m \/ (i \in DOMAIN posted /\ posted'[i] = posted[i])
        BY <2>2, <3>4, AppendOf
      <4>2. m.by # Nobody
        BY <2>2, <2>7 DEF Nobody
      <4> QED
        BY <3>1, <3>3, <4>1, <4>2 DEF KnownInv, Alive
    <3>9. Order'
      BY <3>2, <3>3, <3>6, <3>7 DEF Order, Second, Third
    <3>10. Windowed => WindowDoes /\ Windowed'
      BY <1>3, <3>1 DEF Windowed
    <3>11. Unwritten' = Unwritten
      BY <3>2, <3>4 DEF Unwritten
    <3>12. Kept' = Kept
      BY <3>2, <3>11 DEF Kept
    <3>13. Agrees'
      BY <1>1, <1>3, <3>1, <3>2, <3>10, <3>11 DEF KnownInv, Agrees
    <3>14. QueueAsks' /\ QueueIsTold'
      BY <1>1, <1>2, <1>3, <3>1, <3>2, <3>4, <3>6, <3>7, <3>10, QueueStates
      DEF KnownInv, QueueAsks, QueueIsTold, Third
    <3>15. Kept => copy["hotkey"] = stored["hotkey"]
      BY <1>2, <3>1, QueueStates DEF KnownInv, Agrees, Kept
    <3>16. StartAsks' /\ KeyClaims'
      BY <1>3, <2>2, <3>2, <3>3, <3>4, <3>7, <3>12, <3>15 DEF StartAsks, KeyClaims
    <3> QED
      BY <3>8, <3>9, <3>13, <3>14, <3>16 DEF KnownInv
  <2> QED
    BY <1>1, <1>2, <2>5, <2>6, <2>7
<1>6. CASE ~(jobs[t].at = "effect" /\ jobs[t].kind # "save")
  <2>1. Ends(t) /\ overtaken' = overtaken
    BY <1>6 DEF EffectDone
  <2>2. Side'
    BY <1>1, <2>1, EndsSide
  <2>3. ASSUME known PROVE KnownInv'
    <3>1. t = "queue" /\ QueueJob.kind = "save" /\ QueueJob.at = "effect"
      BY <1>2, <1>4, <1>6, <2>3, JobTypes DEF QueueJob
    <3>2. copy = stored /\ WindowDoes
      BY <1>4, <2>3, <3>1 DEF KnownInv, Agrees, QueueIsTold
    <3>3. Kept /\ Windowed
      BY <3>1, <3>2 DEF Kept, Windowed
    <3> QED
      BY <1>1, <2>1, <2>3, <3>1, <3>2, <3>3, QueueEnds
  <2> QED
    BY <1>1, <2>2, <2>3
<1> QED
    BY <1>5, <1>6

LEMMA ReappliedStep ==
    ASSUME IInv, NEW t \in Threads, KeyReapplied(t)
    PROVE  Side' /\ (known' => KnownInv')
<1>1. /\ answers # <<>> /\ Answer.by = t /\ jobs[t].at = "reapply"
      /\ answers' = Tail(answers) /\ UNCHANGED <<go, keys, queue, copy, known, overtaken>>
      /\ Ends(t) /\ keyError' = ~Answer.ok
    BY DEF KeyReapplied, Awaits
<1>2. SettingsTypeOK /\ Base /\ t \in {"queue", "start"}
    BY DEF IInv, Base, Threads
<1>3. Side'
    BY <1>1, EndsSide
<1>4. UNCHANGED <<stored, hides, live, WindowDoes, KeyIsStored, KeyFine>>
    BY <1>1 DEF go, keys, WindowDoes, KeyIsStored, KeyFine
<1>5. ASSUME t = "queue", known PROVE KnownInv'
  <2>1. KnownInv /\ QueueJob.at = "reapply" /\ Told("queue") = {Answer} /\ Answer.ok \in BOOLEAN
    BY <1>1, <1>2, <1>5, Taken, AnswerTypes DEF IInv, QueueJob
  <2>2. copy = stored /\ Windowed /\ StartOut
    BY <2>1 DEF KnownInv, Agrees, Order, Third
  <2>3. Answer.ok => KeyFine
    BY <2>1, <2>2 DEF KnownInv, QueueIsTold, KeyFine, KeyIsStored
  <2> QED
    BY <1>1, <1>5, <2>1, <2>2, <2>3, QueueEnds
<1>6. ASSUME t = "start", known PROVE KnownInv'
  <2>1. KnownInv /\ StartJob.at = "reapply" /\ Told("start") = {Answer} /\ Answer.ok \in BOOLEAN
    BY <1>1, <1>2, <1>6, Taken, AnswerTypes DEF IInv, StartJob
  <2>2. StartJob' = NoJob /\ QueueJob' = QueueJob /\ posted' = posted
    BY <1>1, <1>2, <1>6 DEF Ends, SettingsTypeOK, JobsType, StartJob, QueueJob, Threads
  <2>3. /\ Posted("queue")' = Posted("queue") /\ Told("queue")' = Told("queue")
        /\ StartOut' /\ (StartAhead => StartAhead')
    BY <1>1, <1>2, <1>6, <2>2, Taken, TakenEnds DEF Threads
  <2>4. Windowed => Windowed'
    BY <1>4, <2>1 DEF Windowed
  <2>5. Unwritten' = Unwritten
    BY <2>2, <2>3 DEF Unwritten
  <2>6. Kept' = Kept
    BY <2>2, <2>5 DEF Kept
  <2>7. Alive'
    BY <2>1, <2>2 DEF KnownInv, Alive
  <2>8. Order'
    BY <1>1, <2>1, <2>2, <2>3 DEF KnownInv, Order, Second, Third, NoJob
  <2>9. Agrees'
    BY <1>1, <1>4, <2>1, <2>2, <2>4, <2>5 DEF KnownInv, Agrees
  <2>10. QueueAsks' /\ QueueIsTold'
    BY <1>1, <1>4, <2>1, <2>2, <2>3, <2>4 DEF KnownInv, QueueAsks, QueueIsTold
  <2>11. StartAsks'
    BY <2>3 DEF StartAsks, StartOut
  <2>12. KeyClaims'
    BY <1>1, <1>4, <2>1, <2>2, <2>6 DEF KnownInv, KeyClaims, NoJob
  <2> QED
    BY <2>7, <2>8, <2>9, <2>10, <2>11, <2>12 DEF KnownInv
<1> QED
    BY <1>1, <1>2, <1>3, <1>5, <1>6

\* A change gets its turn, though the start may be under way.
LEMMA BeginStep ==
    ASSUME IInv, Begin
    PROVE  Side' /\ (known' => KnownInv')
<1>1. /\ queue # <<>> /\ QueueJob = NoJob /\ QueueJob = jobs["queue"]
      /\ UNCHANGED <<go, keys, copy, known, answers>>
      /\ keyError' = (keyError /\ Head(queue).kind # "hotkey")
      /\ overtaken' = (overtaken /\ Head(queue).kind # "hotkey")
    BY BeginsWith DEF IInv, QueueJob
<1>2. PICK job \in QueueJobs, m \in Messages :
          /\ jobs' = [jobs EXCEPT !["queue"] = job] /\ posted' = Append(posted, m)
          /\ m.by = "queue" /\ m.call = Expected(job.at) /\ job # NoJob
          /\ job.kind = Head(queue).kind
          /\ job.kind = "save" =>
                job.at = "save" /\ Head(queue).patch \in Plain /\ m = Save(Head(queue).patch)
          /\ job.kind = "import" => job.at = "import"
          /\ job.kind = "hotkey" =>
                job.at = "apply" /\ m.arg = job.name /\ job.previous = copy["hotkey"]
    BY BeginsWith DEF IInv
<1>3. Base /\ SettingsTypeOK /\ Plumbing /\ answers \in Seq(Replied) /\ posted \in Seq(Messages)
      /\ DOMAIN jobs = Threads
    BY DEF IInv, Base, SettingsTypeOK, JobsType
<1>4. QueueJob' = job /\ StartJob' = StartJob
    BY <1>2, <1>3 DEF QueueJob, StartJob, Threads
<1>5. /\ job.kind \in {"save", "import", "hotkey"} /\ job.at \in {"save", "import", "apply"}
      /\ job.at = "save" <=> job.kind = "save"
      /\ job.at = "import" <=> job.kind = "import"
      /\ job.at = "apply" <=> job.kind = "hotkey"
  <2>1. job.kind \in {"save", "import", "hotkey"}
    BY <1>2 DEF QueueJobs
  <2> QED
    BY <1>2, <2>1
<1>6. ASSUME known
      PROVE  KnownInv /\ copy = stored /\ Windowed
    BY <1>1, <1>6 DEF IInv, KnownInv, Agrees, NoJob
<1>7. /\ Posted("queue")' = {m} /\ Told("queue")' = {} /\ Posted("queue") = {}
      /\ Posted("start")' = Posted("start") /\ Told("start")' = Told("start")
      /\ StartAhead'
    BY <1>1, <1>2, <1>3, FirstCall
<1>8. /\ m.call = "save" => job.kind = "save"
      /\ m.call # "hides"
      /\ m.call = "hotkey" => job.kind = "hotkey"
    BY <1>2, <1>5 DEF Expected
<1>9. job.kind = "save" =>
          /\ m.known = known /\ m.patch \in Plain
          /\ \A f \in Fields : f \notin DOMAIN m.patch => m.arg[f] = copy[f]
  <2>1. ASSUME job.kind = "save"
        PROVE  Head(queue).patch \in Patches /\ m = Save(Head(queue).patch)
    BY <1>2, <2>1 DEF Patches
  <2> QED
    BY <1>2, <1>3, <2>1, SaveMessage
<1>10. Side'
  <2>1. Sound(m)
    <3> SUFFICES ASSUME m.call = "save", m.known
                 PROVE  /\ \A i \in DOMAIN posted : posted[i].call \notin {"save", "import"}
                        /\ \A f \in Fields : f \notin DOMAIN m.patch => m.arg[f] = stored[f]
      BY DEF Sound
    <3>1. known
      BY <1>8, <1>9
    <3>2. \A i \in DOMAIN posted : posted[i].call \notin {"save", "import"}
      BY <1>3, <1>6, <1>7, <3>1, OnlyStartCalls DEF KnownInv
    <3> QED
      BY <1>6, <1>8, <1>9, <3>1, <3>2
  <2>2. SavesAsAsked'
    BY <1>1, <1>2, <1>3, <2>1, CallingSaves DEF IInv, Side, go
  <2>3. ReadIsFresh'
    BY <1>1, <1>4 DEF IInv, Side, ReadIsFresh, StartJob, go
  <2>4. \A j \in DOMAIN answers : answers[j].by # "queue"
    BY <1>1, <1>3 DEF Plumbing, CallsFit
  <2>5. StoredAfterImport'
    BY <1>1, <1>4, <1>5, <2>4 DEF StoredAfterImport, QueueJob
  <2> QED
    BY <2>2, <2>3, <2>5 DEF Side
<1>11. ASSUME known PROVE KnownInv'
  <2>1. KnownInv /\ copy' = stored' /\ copy' = copy /\ Windowed'
    BY <1>1, <1>4, <1>6, <1>7, <1>11 DEF Windowed, WindowDoes, go
  <2>2. UNCHANGED <<stored, live, KeyIsStored>>
    BY <1>1 DEF go, keys, KeyIsStored
  <2>3. Alive'
    <3>1. \A i \in DOMAIN posted' : posted'[i] = m \/ (i \in DOMAIN posted /\ posted'[i] = posted[i])
      BY <1>2, <1>3, AppendOf
    <3>2. m.by # Nobody
      BY <1>2 DEF Nobody
    <3> QED
      BY <1>4, <2>1, <3>1, <3>2 DEF KnownInv, Alive
  <2>4. Order'
    BY <1>4, <1>5, <1>7 DEF Order, Second, Third
  <2>5. Agrees'
    BY <1>2, <1>4, <1>5, <2>1 DEF Agrees
  <2>6. QueueAsks'
    <3>1. \A p \in Plain : "hotkey" \notin DOMAIN p
      BY DEF Plain
    <3>2. m.call = "save" => m.known /\ QueueJob'.kind = "save" /\ "hotkey" \notin DOMAIN m.patch
      BY <1>4, <1>8, <1>9, <1>11, <3>1
    <3>3. m.call = "hotkey" => QueueJob'.at = "apply" /\ m.arg = QueueJob'.name
      BY <1>2, <1>4, <1>5, <1>8
    <3> QED
      BY <1>7, <1>8, <3>2, <3>3 DEF QueueAsks
  <2>7. QueueIsTold'
    BY <1>7 DEF QueueIsTold
  <2>8. Kept
    BY <1>1 DEF Kept
  <2>9. job.kind # "hotkey" => overtaken' = overtaken /\ keyError' = keyError
    <3>1. overtaken \in BOOLEAN /\ keyError \in BOOLEAN
      BY <1>3 DEF SettingsTypeOK
    <3> QED
      BY <1>1, <1>2, <3>1
  <2>10. Kept' => job.kind # "hotkey"
    BY <1>4, <1>5 DEF Kept, NoJob, Unwritten
  <2>11. StartAsks'
    <3>1. Kept' => overtaken' = overtaken
      BY <2>9, <2>10
    <3>2. \A c \in Posted("start") :
              /\ c.call = "hides" => c.arg = ~stored["stays"]
              /\ c.call = "hotkey" => overtaken \/ c.arg = stored["hotkey"]
      BY <2>1, <2>8 DEF KnownInv, StartAsks
    <3>3. stored' = stored /\ Posted("start")' = Posted("start")
      BY <1>7, <2>2
    <3> QED
      BY <3>1, <3>2, <3>3 DEF StartAsks
  <2>12. KeyClaims'
    BY <1>4, <1>5, <1>7, <2>1, <2>2, <2>8, <2>9, <2>10 DEF KnownInv, KeyClaims, KeyFine
  <2> QED
    BY <2>1, <2>3, <2>4, <2>5, <2>6, <2>7, <2>11, <2>12 DEF KnownInv
<1> QED
    BY <1>1, <1>10, <1>11

-----------------------------------------------------------------------------
\* The theorems

LEMMA InvInit == Init => IInv
<1> SUFFICES ASSUME Init PROVE IInv
    OBVIOUS
<1>1. /\ posted = <<GetCall("start")>> /\ answers = <<>> /\ known = FALSE
      /\ jobs["queue"] = NoJob /\ DOMAIN answers = {}
    BY DEF Init, Threads
<1>2. DOMAIN posted = {1} /\ posted[1].call = "get"
    BY <1>1 DEF GetCall
<1>3. Side
    BY <1>1, <1>2 DEF Side, ReadIsFresh, SavesAsAsked, StoredAfterImport, NoJob
<1> QED
    BY <1>1, <1>3, BaseInit DEF IInv

LEMMA InvStep == IInv /\ [Next]_vars => IInv'
<1> SUFFICES ASSUME IInv, [Next]_vars PROVE IInv'
    OBVIOUS
<1>1. Base' /\ TrayServes'
    BY BaseStep DEF IInv
<1> SUFFICES Side' /\ (known' => KnownInv')
    BY <1>1 DEF IInv
<1>2. CASE User
    BY <1>2, EnqueueStep DEF User, SavePreference, OpenSettings, PickHotkey, Import
<1>3. CASE Page
    BY <1>3, BeginStep, KeyAppliedStep, SavedStep, KeyRestoredStep, ImportedStep, LoadedStep,
       EffectStep, ReappliedStep DEF Page
<1>4. CASE UIThread \/ ImportData
    BY <1>4, GetStep, SaveStep, HidesStep, ImportStep DEF UIThread
<1>5. CASE TrayThread
    BY <1>5, TrayStep DEF TrayThread
<1>6. CASE World
    BY <1>6, WorldStep
<1>7. CASE UNCHANGED vars
  <2>1. UNCHANGED <<stored, legacy, hides, live, page, posted, answers>>
    BY <1>7 DEF vars, go, keys
  <2>2. Side'
    BY <2>1 DEF IInv, Side, ReadIsFresh, SavesAsAsked, StoredAfterImport, page
  <2>3. known => KnownInv'
    BY <2>1, Untouched DEF IInv, page
  <2> QED
    BY <2>1, <2>2, <2>3 DEF page
<1> QED
    BY <1>2, <1>3, <1>4, <1>5, <1>6, <1>7 DEF Next

LEMMA InvHolds == Spec => []IInv
    BY InvInit, InvStep, PTL DEF Spec

\* The values of settings, jobs, calls and answers, of any page and after any
\* number of reloads.
THEOREM SettingsTypes == Spec => []SettingsTypeOK
<1>1. IInv => SettingsTypeOK
    BY DEF IInv, Base
<1> QED
    BY <1>1, InvHolds, PTL

\* Once nothing is under way, a page that has read the settings shows what is
\* stored and the window does it (persistSettings, loadSettings).
THEOREM PageAgreesHolds == Spec => []PageAgrees
<1>1. IInv => PageAgrees
    <2> SUFFICES ASSUME IInv, Quiet, known PROVE copy = stored /\ hides = ~stored["stays"]
      BY DEF PageAgrees
    <2>1. Agrees /\ QueueJob.at = "idle" /\ StartJob.at = "idle"
      BY DEF IInv, KnownInv, Quiet, Threads, QueueJob, StartJob, NoJob
    <2> QED
      BY <2>1 DEF Agrees, Windowed, WindowDoes
<1> QED
    BY <1>1, InvHolds, PTL

\* The shortcut stored is then the one registered, or the page shows an error,
\* whatever changes, imports and the start were under way together (applyHotkey
\* of the page, loadSettings); unless a start applied a shortcut again while one
\* was being changed, which KeyInStep finds.
THEOREM KeyAgreesHolds == Spec => []KeyAgrees
<1>1. IInv => KeyAgrees
    <2> SUFFICES ASSUME IInv, Quiet, known, ~keyError, ~overtaken
                 PROVE  live = Resolve(stored["hotkey"])
      BY DEF KeyAgrees
    <2>1. KeyClaims /\ QueueJob = NoJob /\ StartJob = NoJob
      BY DEF IInv, KnownInv, Quiet, Threads, QueueJob, StartJob
    <2> QED
      BY <2>1 DEF KeyClaims, Kept, KeyFine, KeyIsStored
<1> QED
    BY <1>1, InvHolds, PTL

\* A save changes only what was asked for, even one that a page has left behind
\* when it was loaded again.
THEOREM OnlyWhatWasAskedHolds == Spec => OnlyWhatWasAsked
<1>1. IInv /\ [Next]_vars =>
          [SaveSettings /\ Call.known =>
              \A f \in Fields : f \notin DOMAIN Call.patch => stored'[f] = stored[f]]_vars
  <2> SUFFICES ASSUME IInv, SaveSettings, Call.known, NEW f \in Fields, f \notin DOMAIN Call.patch
               PROVE  stored'[f] = stored[f]
    OBVIOUS
  <2>1. posted # <<>> /\ Call.call = "save" /\ (stored' = Call.arg \/ stored' = stored)
    BY DEF SaveSettings, Receives, Fails
  <2>2. Call = posted[1] /\ 1 \in DOMAIN posted
    BY <2>1, CallTypes DEF IInv, Base
  <2>3. Call.arg[f] = stored[f]
    BY <2>1, <2>2 DEF IInv, Side, SavesAsAsked
  <2> QED
    BY <2>1, <2>3
<1> QED
    BY <1>1, InvHolds, PTL DEF Spec, OnlyWhatWasAsked

\* Trying a combination leaves none registered only when another program has
\* taken the one there was, or there was none (the tray's applyHotkey).
THEOREM TryingCostsNothingHolds == Spec => TryingCostsNothing
<1>1. IInv /\ [Next]_vars =>
          [tray # Resting /\ tray' = Resting /\ live' = Off =>
              Resolve(Call.arg) = Off \/ tray.prev \in others \cup {Off}]_vars
  <2> SUFFICES ASSUME IInv, Next, tray # Resting, tray' = Resting, live' = Off
               PROVE  Resolve(Call.arg) = Off \/ tray.prev \in others \cup {Off}
    OBVIOUS
  <2>1. tray' # tray
    OBVIOUS
  <2>2. Register \/ Restore
    BY <2>1 DEF Next, User, SavePreference, OpenSettings, PickHotkey, Import, Enqueue, Page, Begin,
                KeyApplied, Saved, KeyRestored, Imported, Loaded, EffectDone, KeyReapplied, Awaits,
                UIThread, GetSettings, SaveSettings, SetAutoHide, ImportData, TrayThread,
                Unregister, World, OthersRegister, OthersUnregister, FileChanges, Reload, keys
  <2>3. CASE Register
    <3>1. Resting.at = "rests"
      BY DEF Resting
    <3>2. tray \in [at : {"registers", "restores"}, prev : Combos \cup {Off}]
      BY DEF IInv, Base, SettingsTypeOK
    <3>3. [tray EXCEPT !.at = "restores"].at = "restores"
      BY <3>2
    <3>4. live' = IF Resolve(Call.arg) \in others THEN Off ELSE Resolve(Call.arg)
      BY <2>3, <3>1, <3>3 DEF Register
    <3>5. Resolve(Call.arg) \in others => tray.prev = Off
      BY <2>3, <3>1, <3>3 DEF Register
    <3> QED
      BY <3>4, <3>5
  <2>4. CASE Restore
    BY <2>4 DEF Restore
  <2> QED
    BY <2>2, <2>3, <2>4
<1> QED
    BY <1>1, InvHolds, PTL DEF Spec, TryingCostsNothing

=============================================================================
