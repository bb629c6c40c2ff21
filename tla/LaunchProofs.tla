-------------------------- MODULE LaunchProofs --------------------------
(***************************************************************************)
(* Theorems about Launch, for any number of processes and events.  One     *)
(* inductive invariant, IInv, ties the handle of the mutex and the tray     *)
(* thread to the stage main has reached, and requests to SetReady.         *)
(***************************************************************************)
EXTENDS Launch, TLAPS

-----------------------------------------------------------------------------
\* The inductive invariant

\* Past the check, a process keeps the mutex until it ends, unless it frees it
\* for a restart: nobody can pass the check in the meantime.
KeepsMutex == \A p \in Procs : at[p] \in UsingProfile => p \in handles \/ HandedOver(p)
TrayOfOwner ==
    \A p \in Procs : tray[p].at \in {"starts", "adds", "loop"} => at[p] \in {"runs", "joins"}

\* Whatever has seen that the page is ready comes after SetReady.
SawReady == \A p \in Procs : tray[p].saw = "ready" => ready[p]
ToldReady == \A p \in Procs : \A i \in DOMAIN box[p] : box[p][i] = "ready" => ready[p]

IInv ==
    /\ LaunchTypeOK
    /\ KeepsMutex
    /\ ProfileIsHandedOver
    /\ TrayOfOwner
    /\ SawReady
    /\ ToldReady
    /\ NoBlankWindow

-----------------------------------------------------------------------------
\* Sequences

LEMMA AppendTo ==
    ASSUME NEW S, NEW s \in Seq(S), NEW x \in S
    PROVE  /\ Append(s, x) \in Seq(S)
           /\ \A i \in DOMAIN Append(s, x) :
                  (i \in DOMAIN s /\ Append(s, x)[i] = s[i]) \/ Append(s, x)[i] = x
    OBVIOUS

LEMMA TailOf ==
    ASSUME NEW S, NEW s \in Seq(S), s # <<>>
    PROVE  /\ Tail(s) \in Seq(S)
           /\ Head(s) = s[1] /\ 1 \in DOMAIN s
           /\ \A i \in DOMAIN Tail(s) : i + 1 \in DOMAIN s /\ Tail(s)[i] = s[i + 1]
    OBVIOUS

LEMMA EmptyOf ==
    ASSUME NEW S
    PROVE  <<>> \in Seq(S) /\ \A i \in DOMAIN <<>> : FALSE
    OBVIOUS

-----------------------------------------------------------------------------
LEMMA InitIInv == Init => IInv
    BY EmptyOf, LaunchAssumption
    DEF Init, IInv, LaunchTypeOK, KeepsMutex, ProfileIsHandedOver, TrayOfOwner, UsingProfile,
        SawReady, ToldReady, NoBlankWindow, NoTray, Stages, Seen, Owning

-----------------------------------------------------------------------------
\* Types

Calls == {"show", "terminate"}
Messages == {"show", "ready", "stop", "quit"}

LEMMA DispatchType ==
    ASSUME NEW p \in Procs, NEW f \in Calls, ui \in [Procs -> Seq(Calls)], Dispatch(p, f)
    PROVE  ui' \in [Procs -> Seq(Calls)]
<1>1. Append(ui[p], f) \in Seq(Calls)
    BY AppendTo
<1> QED
    BY <1>1 DEF Dispatch

LEMMA PostType ==
    ASSUME NEW p \in Procs, NEW m \in Messages, box \in [Procs -> Seq(Messages)], Post(p, m)
    PROVE  box' \in [Procs -> Seq(Messages)]
<1>1. Append(box[p], m) \in Seq(Messages)
    BY AppendTo
<1> QED
    BY <1>1 DEF Post

LEMMA ReceivesType ==
    ASSUME NEW p \in Procs, NEW m, box \in [Procs -> Seq(Messages)], Receives(p, m)
    PROVE  box' \in [Procs -> Seq(Messages)]
<1>1. Tail(box[p]) \in Seq(Messages)
    BY TailOf DEF Receives
<1> QED
    BY <1>1 DEF Receives

TrayType ==
    [at : {"none", "starts", "adds", "loop", "done"}, window : BOOLEAN, quits : BOOLEAN,
     pending : BOOLEAN, saw : Seen]

LEMMA StepType == LaunchTypeOK /\ [Next]_vars => LaunchTypeOK'
<1> SUFFICES ASSUME LaunchTypeOK, [Next]_vars
             PROVE  LaunchTypeOK'
    OBVIOUS
<1> USE LaunchAssumption
    DEF LaunchTypeOK, Stages, Calls, Messages, main, threads, Goes, Happens
<1>1. CASE UNCHANGED vars
    BY <1>1 DEF vars
<1>2. ASSUME NEW p \in Procs, Launch(p)
      PROVE  LaunchTypeOK'
    BY <1>2 DEF Launch, Acquire
<1>3. ASSUME NEW p \in Procs, WaitForParent(p)
      PROVE  LaunchTypeOK'
    BY <1>3 DEF WaitForParent, Acquire
<1>4. ASSUME NEW p \in Procs, StartupFails(p)
      PROVE  LaunchTypeOK'
    BY <1>4, EmptyOf DEF StartupFails, Ends, NoTray, Seen
<1>5. ASSUME NEW p \in Procs, AskRunning(p)
      PROVE  LaunchTypeOK'
    BY <1>5, PostType DEF AskRunning
<1>6. ASSUME NEW p \in Procs, GiveUp(p)
      PROVE  LaunchTypeOK'
    BY <1>6 DEF GiveUp
<1>7. ASSUME NEW p \in Procs, Load(p)
      PROVE  LaunchTypeOK'
    BY ZenonT(30), <1>7 DEF Load
<1>8. ASSUME NEW p \in Procs, TrayFails(p)
      PROVE  LaunchTypeOK'
  <2> DEFINE t == [tray[p] EXCEPT !.at = "done"]
  <2>1. t \in TrayType
      BY ZenonT(30) DEF TrayType, Seen
  <2>2. tray' = [tray EXCEPT ![p] = t]
      BY <1>8 DEF TrayFails
  <2>3. tray' \in [Procs -> TrayType]
      BY <2>1, <2>2 DEF TrayType, Seen
  <2> QED
      BY <1>8, <2>3, DispatchType DEF TrayFails, TrayType
<1>9. ASSUME NEW p \in Procs, CreateTrayWindow(p)
      PROVE  LaunchTypeOK'
  <2> DEFINE t == [tray[p] EXCEPT !.at = "adds", !.window = TRUE]
  <2>1. t \in TrayType
      BY ZenonT(30) DEF TrayType, Seen
  <2>2. tray' = [tray EXCEPT ![p] = t]
      BY <1>9 DEF CreateTrayWindow
  <2>3. tray' \in [Procs -> TrayType]
      BY <2>1, <2>2 DEF TrayType, Seen
  <2> QED
      BY <1>9, <2>3 DEF CreateTrayWindow, TrayType
<1>10. ASSUME NEW p \in Procs, AddIcon(p)
      PROVE  LaunchTypeOK'
  <2>1. PICK hand \in BOOLEAN :
            /\ tray' = [tray EXCEPT ![p] = [@ EXCEPT !.at = "loop", !.pending = hand]]
            /\ owed' = [owed EXCEPT ![p] = @ \/ hand]
      BY <1>10 DEF AddIcon
  <2>2. tray' \in [Procs -> TrayType]
    <3>1. [tray[p] EXCEPT !.at = "loop", !.pending = hand] \in TrayType
        BY ZenonT(30) DEF TrayType, Seen
    <3> QED
        BY <2>1, <3>1 DEF TrayType, Seen
  <2>3. owed' \in [Procs -> BOOLEAN]
      BY <2>1
  <2> QED
      BY <1>10, <2>2, <2>3 DEF AddIcon, TrayType
<1>11. ASSUME NEW p \in Procs, ReadReady(p)
      PROVE  LaunchTypeOK'
  <2> DEFINE t == [tray[p] EXCEPT !.saw = IF ready[p] THEN "ready" ELSE "loading"]
  <2>1. t \in TrayType
      BY ZenonT(30) DEF TrayType, Seen
  <2>2. tray' = [tray EXCEPT ![p] = t]
      BY <1>11 DEF ReadReady
  <2>3. tray' \in [Procs -> TrayType]
      BY <2>1, <2>2 DEF TrayType, Seen
  <2> QED
      BY <1>11, <2>3, ReceivesType DEF ReadReady, TrayType
<1>12. ASSUME NEW p \in Procs, Honour(p)
      PROVE  LaunchTypeOK'
  <2> DEFINE t == [tray[p] EXCEPT !.saw = "nothing", !.pending = tray[p].pending \/ tray[p].saw = "loading"]
  <2>1. t \in TrayType
      BY DEF TrayType, Seen
  <2>2. tray' = [tray EXCEPT ![p] = t]
      BY <1>12 DEF Honour
  <2>3. tray' \in [Procs -> TrayType]
      BY <2>1, <2>2 DEF TrayType, Seen
  <2> QED
      BY <1>12, <2>3, DispatchType DEF Honour, TrayType
<1>13. ASSUME NEW p \in Procs, HonourPending(p)
      PROVE  LaunchTypeOK'
    BY ZenonT(30), <1>13, DispatchType, ReceivesType DEF HonourPending
<1>14. ASSUME NEW p \in Procs, TrayStops(p)
      PROVE  LaunchTypeOK'
    BY <1>14, ReceivesType DEF TrayStops
<1>15. ASSUME NEW p \in Procs, TrayQuits(p)
      PROVE  LaunchTypeOK'
    BY ZenonT(30), <1>15, DispatchType, ReceivesType DEF TrayQuits
<1>16. ASSUME NEW p \in Procs, TrayEnds(p)
      PROVE  LaunchTypeOK'
  <2> DEFINE t == [tray[p] EXCEPT !.at = "done", !.window = FALSE]
  <2>1. t \in TrayType
      BY ZenonT(30) DEF TrayType, Seen
  <2>2. tray' = [tray EXCEPT ![p] = t]
      BY <1>16 DEF TrayEnds
  <2>3. tray' \in [Procs -> TrayType]
      BY <2>1, <2>2 DEF TrayType, Seen
  <2> QED
      BY <1>16, <2>3, DispatchType DEF TrayEnds, TrayType
<1>17. ASSUME NEW p \in Procs, SetReady(p)
      PROVE  LaunchTypeOK'
  <2>1. box' \in [Procs -> Seq(Messages)]
      BY <1>17, PostType DEF SetReady
  <2>2. missed' \in [Procs -> BOOLEAN]
      BY <1>17 DEF SetReady
  <2>3. ready' \in [Procs -> BOOLEAN]
      BY <1>17 DEF SetReady
  <2>4. events' \in Nat
      BY <1>17 DEF SetReady
  <2> QED
      BY <1>17, <2>1, <2>2, <2>3, <2>4 DEF SetReady
<1>18. ASSUME NEW p \in Procs, RestartApp(p)
      PROVE  LaunchTypeOK'
    BY <1>18, DispatchType DEF RestartApp
<1>19. ASSUME NEW p \in Procs, TakeRequest(p)
      PROVE  LaunchTypeOK'
  <2>1. Tail(ui[p]) \in Seq(Calls)
      BY <1>19, TailOf DEF TakeRequest
  <2> QED
      BY <1>19, <2>1 DEF TakeRequest
<1>20. ASSUME NEW p \in Procs, Terminate(p)
      PROVE  LaunchTypeOK'
    BY <1>20, PostType, EmptyOf DEF Terminate, Stop
<1>21. ASSUME NEW p \in Procs, HandOver(p)
      PROVE  LaunchTypeOK'
    BY <1>21 DEF HandOver
<1>22. ASSUME NEW p \in Procs, Relaunch(p)
      PROVE  LaunchTypeOK'
  <2>1. CASE \E c \in Procs : /\ NextUp(c)
                            /\ at' = [at EXCEPT ![p] = "leaves", ![c] = "waits"]
                            /\ parent' = [parent EXCEPT ![c] = p]
    <3>1. at' \in [Procs -> Stages]
        BY <2>1
    <3>2. parent' \in [Procs -> Procs \cup {NoProc}]
        BY <2>1
    <3> QED
        BY <1>22, <3>1, <3>2 DEF Relaunch
  <2>2. CASE at' = [at EXCEPT ![p] = "leaves"] /\ UNCHANGED parent
      BY <1>22, <2>2 DEF Relaunch
  <2> QED
      BY <1>22, <2>1, <2>2 DEF Relaunch
<1>23. ASSUME NEW p \in Procs, Leave(p)
      PROVE  LaunchTypeOK'
    BY <1>23, EmptyOf DEF Leave, Ends, NoTray, Seen
<1>24. ASSUME NEW p \in Procs, GetStuck(p)
      PROVE  LaunchTypeOK'
    BY <1>24 DEF GetStuck
<1>25. ASSUME NEW p \in Procs, Kill(p)
      PROVE  LaunchTypeOK'
    BY <1>25, EmptyOf DEF Kill, Ends, NoTray, Seen
<1>26. ASSUME NEW p \in Procs, UserAsks(p)
      PROVE  LaunchTypeOK'
  <2>1. box' \in [Procs -> Seq(Messages)]
      BY <1>26, PostType DEF UserAsks
  <2>2. owed' \in [Procs -> BOOLEAN]
      BY <1>26 DEF UserAsks
  <2>3. events' \in Nat
      BY <1>26 DEF UserAsks
  <2> QED
      BY <1>26, <2>1, <2>2, <2>3 DEF UserAsks
<1>27. ASSUME NEW p \in Procs, WaitFails(p)
      PROVE  LaunchTypeOK'
    BY <1>27 DEF WaitFails, Acquire
<1> QED
    BY <1>1, <1>2, <1>3, <1>4, <1>5, <1>6, <1>7, <1>8, <1>9, <1>10, <1>11, <1>12, <1>13, <1>14, <1>15, <1>16, <1>17, <1>18, <1>19, <1>20, <1>21, <1>22, <1>23, <1>24, <1>25, <1>26, <1>27 DEF Next, MainThread, TrayThread, Failure

-----------------------------------------------------------------------------
\* The owner of the mutex

\* A step of one process does not make an owner of it while there is another,
\* and one that has the profile open keeps the mutex or has handed it over.
LEMMA StepOwner ==
    LaunchTypeOK /\ KeepsMutex /\ ProfileIsHandedOver /\ TrayOfOwner /\ [Next]_vars =>
        (KeepsMutex /\ ProfileIsHandedOver /\ TrayOfOwner)'
<1> DEFINE Goal == KeepsMutex /\ ProfileIsHandedOver /\ TrayOfOwner
<1> SUFFICES ASSUME LaunchTypeOK, KeepsMutex, ProfileIsHandedOver, TrayOfOwner, [Next]_vars
             PROVE  Goal'
    OBVIOUS
<1> USE DEF LaunchTypeOK, KeepsMutex, ProfileIsHandedOver, HandedOver, TrayOfOwner, UsingProfile,
            Owning, main, threads, Goes
<1>1. CASE UNCHANGED vars
    BY <1>1 DEF vars
<1>2. ASSUME NEW p \in Procs, Launch(p)
      PROVE  Goal'
    BY <1>2 DEF Launch, Acquire, NextUp
<1>3. ASSUME NEW p \in Procs, WaitForParent(p)
      PROVE  Goal'
    BY <1>3 DEF WaitForParent, Acquire
<1>4. ASSUME NEW p \in Procs, StartupFails(p)
      PROVE  Goal'
    BY <1>4 DEF StartupFails, Ends, NoTray
<1>5. ASSUME NEW p \in Procs, AskRunning(p)
      PROVE  Goal'
    BY <1>5 DEF AskRunning
<1>6. ASSUME NEW p \in Procs, GiveUp(p)
      PROVE  Goal'
    BY <1>6 DEF GiveUp
<1>7. ASSUME NEW p \in Procs, Load(p)
      PROVE  Goal'
    BY <1>7 DEF Load
<1>8. ASSUME NEW p \in Procs, TrayFails(p)
      PROVE  Goal'
    BY <1>8 DEF TrayFails
<1>9. ASSUME NEW p \in Procs, CreateTrayWindow(p)
      PROVE  Goal'
    BY <1>9 DEF CreateTrayWindow
<1>10. ASSUME NEW p \in Procs, AddIcon(p)
      PROVE  Goal'
    BY <1>10 DEF AddIcon
<1>11. ASSUME NEW p \in Procs, ReadReady(p)
      PROVE  Goal'
    BY <1>11 DEF ReadReady
<1>12. ASSUME NEW p \in Procs, Honour(p)
      PROVE  Goal'
    BY <1>12 DEF Honour
<1>13. ASSUME NEW p \in Procs, HonourPending(p)
      PROVE  Goal'
    BY <1>13 DEF HonourPending
<1>14. ASSUME NEW p \in Procs, TrayStops(p)
      PROVE  Goal'
    BY <1>14 DEF TrayStops
<1>15. ASSUME NEW p \in Procs, TrayQuits(p)
      PROVE  Goal'
    BY <1>15 DEF TrayQuits
<1>16. ASSUME NEW p \in Procs, TrayEnds(p)
      PROVE  Goal'
    BY <1>16 DEF TrayEnds
<1>17. ASSUME NEW p \in Procs, SetReady(p)
      PROVE  Goal'
    BY <1>17 DEF SetReady
<1>18. ASSUME NEW p \in Procs, RestartApp(p)
      PROVE  Goal'
    BY <1>18 DEF RestartApp
<1>19. ASSUME NEW p \in Procs, TakeRequest(p)
      PROVE  Goal'
    BY <1>19 DEF TakeRequest
<1>20. ASSUME NEW p \in Procs, Terminate(p)
      PROVE  Goal'
    BY <1>20 DEF Terminate
<1>21. ASSUME NEW p \in Procs, HandOver(p)
      PROVE  Goal'
    BY <1>21 DEF HandOver
<1>22. ASSUME NEW p \in Procs, Relaunch(p)
      PROVE  Goal'
  <2>1. CASE at' = [at EXCEPT ![p] = "leaves"] /\ UNCHANGED parent
      BY <1>22, <2>1 DEF Relaunch
  <2>2. ASSUME NEW c \in Procs, NextUp(c),
               at' = [at EXCEPT ![p] = "leaves", ![c] = "waits"],
               parent' = [parent EXCEPT ![c] = p]
        PROVE  Goal'
    <3>1. c # p
        BY <1>22, <2>2 DEF Relaunch, NextUp
    <3>2. \A q \in Procs :
              /\ at'[q] = IF q = p THEN "leaves" ELSE IF q = c THEN "waits" ELSE at[q]
              /\ parent'[q] = IF q = c THEN p ELSE parent[q]
        BY <2>2, <3>1
    <3>3. at[p] = "spawns" /\ at[c] = "off"
        BY <1>22, <2>2 DEF Relaunch, NextUp
    <3>4. UNCHANGED <<handles, restart, tray>>
        BY <1>22 DEF Relaunch
    <3>5. \A q \in Procs :
              /\ at'[q] \in UsingProfile => at[q] \in UsingProfile
              /\ HandedOver(q) => HandedOver(q)'
        BY <3>2, <3>3, <3>4
    <3>6. TrayOfOwner'
        BY <3>2, <3>3, <3>4
    <3>7. KeepsMutex'
        BY <3>4, <3>5
    <3>8. ProfileIsHandedOver'
        BY <3>5
    <3> QED
        BY <3>6, <3>7, <3>8
  <2> QED
      BY <1>22, <2>1, <2>2 DEF Relaunch
<1>23. ASSUME NEW p \in Procs, Leave(p)
      PROVE  Goal'
    BY <1>23 DEF Leave, Ends, NoTray
<1>24. ASSUME NEW p \in Procs, GetStuck(p)
      PROVE  Goal'
    BY <1>24 DEF GetStuck
<1>25. ASSUME NEW p \in Procs, Kill(p)
      PROVE  Goal'
    BY <1>25 DEF Kill, Ends, NoTray
<1>26. ASSUME NEW p \in Procs, UserAsks(p)
      PROVE  Goal'
    BY <1>26 DEF UserAsks
<1>27. ASSUME NEW p \in Procs, WaitFails(p)
      PROVE  Goal'
    BY <1>27 DEF WaitFails, Acquire
<1> QED
    BY <1>1, <1>2, <1>3, <1>4, <1>5, <1>6, <1>7, <1>8, <1>9, <1>10, <1>11, <1>12, <1>13, <1>14, <1>15, <1>16, <1>17, <1>18, <1>19, <1>20, <1>21, <1>22, <1>23, <1>24, <1>25, <1>26, <1>27 DEF Next, MainThread, TrayThread, Failure

-----------------------------------------------------------------------------
\* What follows SetReady

Grows == \A q \in Procs : ready[q] => ready'[q]

LEMMA DispatchReady ==
    ASSUME NEW p \in Procs, NEW f \in Calls, ui \in [Procs -> Seq(Calls)], Dispatch(p, f),
           NoBlankWindow, Grows, f = "show" => ready[p]
    PROVE  NoBlankWindow'
<1>1. CASE ui' = ui
    BY <1>1 DEF NoBlankWindow, Grows
<1>2. CASE ui' = [ui EXCEPT ![p] = Append(@, f)]
  <2>1. \A q \in Procs : q # p => ui'[q] = ui[q]
      BY <1>2
  <2>2. ui'[p] = Append(ui[p], f)
      BY <1>2
  <2>3. \A i \in DOMAIN ui'[p] :
            (i \in DOMAIN ui[p] /\ ui'[p][i] = ui[p][i]) \/ ui'[p][i] = f
      BY <2>2, AppendTo
  <2> QED
      BY <2>1, <2>3 DEF NoBlankWindow, Grows
<1> QED
    BY <1>1, <1>2 DEF Dispatch

LEMMA PostReady ==
    ASSUME NEW p \in Procs, NEW msg \in Messages, box \in [Procs -> Seq(Messages)],
           Post(p, msg), ToldReady, Grows, msg = "ready" => ready'[p]
    PROVE  ToldReady'
<1>1. \A q \in Procs : q # p => box'[q] = box[q]
    BY DEF Post
<1>2. box'[p] = Append(box[p], msg)
    BY DEF Post
<1>3. \A i \in DOMAIN box'[p] :
          (i \in DOMAIN box[p] /\ box'[p][i] = box[p][i]) \/ box'[p][i] = msg
    BY <1>2, AppendTo
<1> QED
    BY <1>1, <1>3 DEF ToldReady, Grows

LEMMA ReceivesReady ==
    ASSUME NEW p \in Procs, NEW msg, box \in [Procs -> Seq(Messages)],
           Receives(p, msg), ToldReady, Grows
    PROVE  ToldReady' /\ (msg = "ready" => ready[p])
<1>1. box[p] # <<>> /\ Head(box[p]) = msg /\ box' = [box EXCEPT ![p] = Tail(@)]
    BY DEF Receives
<1>2. \A q \in Procs : q # p => box'[q] = box[q]
    BY <1>1
<1>3. box'[p] = Tail(box[p])
    BY <1>1
<1>4. /\ Head(box[p]) = box[p][1] /\ 1 \in DOMAIN box[p]
      /\ \A i \in DOMAIN box'[p] : i + 1 \in DOMAIN box[p] /\ box'[p][i] = box[p][i + 1]
    BY <1>1, <1>3, TailOf
<1> QED
    BY <1>1, <1>2, <1>4 DEF ToldReady, Grows

\* A request is passed on by what has seen the flag, or follows the message.
LEMMA StepReady ==
    LaunchTypeOK /\ SawReady /\ ToldReady /\ NoBlankWindow /\ [Next]_vars =>
        (SawReady /\ ToldReady /\ NoBlankWindow)'
<1> DEFINE Goal == SawReady /\ ToldReady /\ NoBlankWindow
<1> SUFFICES ASSUME LaunchTypeOK, SawReady, ToldReady, NoBlankWindow, [Next]_vars
             PROVE  Goal'
    OBVIOUS
<1>0. ui \in [Procs -> Seq(Calls)] /\ box \in [Procs -> Seq(Messages)]
    BY DEF LaunchTypeOK, Calls, Messages
<1> USE DEF LaunchTypeOK, Calls, Messages, main, threads
<1>1. CASE UNCHANGED vars
    BY <1>1 DEF vars, SawReady, ToldReady, NoBlankWindow
<1>2. ASSUME NEW p \in Procs, Launch(p)
      PROVE  Goal'
    BY <1>2 DEF Launch, SawReady, ToldReady, NoBlankWindow
<1>3. ASSUME NEW p \in Procs, WaitForParent(p)
      PROVE  Goal'
    BY <1>3 DEF WaitForParent, SawReady, ToldReady, NoBlankWindow
<1>4. ASSUME NEW p \in Procs, StartupFails(p)
      PROVE  Goal'
  <2>1. \A q \in Procs : q # p =>
            ready'[q] = ready[q] /\ ui'[q] = ui[q] /\ tray'[q] = tray[q] /\ box'[q] = box[q]
      BY <1>4 DEF StartupFails, Ends
  <2>2. ui'[p] = <<>> /\ box'[p] = <<>> /\ tray'[p].saw = "nothing"
      BY <1>4 DEF StartupFails, Ends, NoTray
  <2>3. SawReady'
      BY <2>1, <2>2 DEF SawReady
  <2>4. \A i : i \notin DOMAIN ui'[p] /\ i \notin DOMAIN box'[p]
      BY <2>2, EmptyOf
  <2>5. ToldReady'
      BY <2>1, <2>4 DEF ToldReady
  <2>6. NoBlankWindow'
      BY <2>1, <2>4 DEF NoBlankWindow
  <2> QED
      BY <2>3, <2>5, <2>6
<1>5. ASSUME NEW p \in Procs, AskRunning(p)
      PROVE  Goal'
  <2>0. Grows
      BY <1>5 DEF AskRunning, Grows
  <2>1. SawReady'
      BY <1>5, <2>0 DEF AskRunning, SawReady, Grows
  <2>2. ToldReady'
    <3>1. PICK q \in Procs : Post(q, "show")
        BY <1>5 DEF AskRunning
    <3> QED
        BY <1>0, <2>0, <3>1, PostReady
  <2>3. NoBlankWindow'
      BY <1>5, <2>0 DEF AskRunning, NoBlankWindow, Grows
  <2> QED
      BY <2>1, <2>2, <2>3
<1>6. ASSUME NEW p \in Procs, GiveUp(p)
      PROVE  Goal'
    BY <1>6 DEF GiveUp, SawReady, ToldReady, NoBlankWindow
<1>7. ASSUME NEW p \in Procs, Load(p)
      PROVE  Goal'
    BY <1>7 DEF Load, SawReady, ToldReady, NoBlankWindow
<1>8. ASSUME NEW p \in Procs, TrayFails(p)
      PROVE  Goal'
  <2>0. Grows
      BY <1>8 DEF TrayFails, Grows
  <2>1. SawReady'
      BY <1>8, <2>0 DEF TrayFails, SawReady, Grows
  <2>2. ToldReady'
      BY <1>8, <2>0 DEF TrayFails, ToldReady, Grows
  <2>3. NoBlankWindow'
      BY <1>0, <1>8, <2>0, DispatchReady DEF TrayFails
  <2> QED
      BY <2>1, <2>2, <2>3
<1>9. ASSUME NEW p \in Procs, CreateTrayWindow(p)
      PROVE  Goal'
  <2>0. Grows
      BY <1>9 DEF CreateTrayWindow, Grows
  <2>1. SawReady'
      BY <1>9, <2>0 DEF CreateTrayWindow, SawReady, Grows
  <2>2. ToldReady'
      BY <1>9, <2>0 DEF CreateTrayWindow, ToldReady, Grows
  <2>3. NoBlankWindow'
      BY <1>9, <2>0 DEF CreateTrayWindow, NoBlankWindow, Grows
  <2> QED
      BY <2>1, <2>2, <2>3
<1>10. ASSUME NEW p \in Procs, AddIcon(p)
      PROVE  Goal'
  <2>0. Grows
      BY <1>10 DEF AddIcon, Grows
  <2>1. SawReady'
      BY <1>10, <2>0 DEF AddIcon, SawReady, Grows
  <2>2. ToldReady'
      BY <1>10, <2>0 DEF AddIcon, ToldReady, Grows
  <2>3. NoBlankWindow'
      BY <1>10, <2>0 DEF AddIcon, NoBlankWindow, Grows
  <2> QED
      BY <2>1, <2>2, <2>3
<1>11. ASSUME NEW p \in Procs, ReadReady(p)
      PROVE  Goal'
  <2>0. Grows
      BY <1>11 DEF ReadReady, Grows
  <2>1. SawReady'
      BY <1>11, <2>0 DEF ReadReady, SawReady, Grows
  <2>2. ToldReady'
      BY <1>0, <1>11, <2>0, ReceivesReady DEF ReadReady
  <2>3. NoBlankWindow'
      BY <1>11, <2>0 DEF ReadReady, NoBlankWindow, Grows
  <2> QED
      BY <2>1, <2>2, <2>3
<1>12. ASSUME NEW p \in Procs, Honour(p)
      PROVE  Goal'
  <2>0. Grows
      BY <1>12 DEF Honour, Grows
  <2>1. SawReady'
      BY <1>12, <2>0 DEF Honour, SawReady, Grows
  <2>2. ToldReady'
      BY <1>12, <2>0 DEF Honour, ToldReady, Grows
  <2>3. NoBlankWindow'
      BY <1>0, <1>12, <2>0, DispatchReady DEF Honour, NoBlankWindow, Grows, SawReady
  <2> QED
      BY <2>1, <2>2, <2>3
<1>13. ASSUME NEW p \in Procs, HonourPending(p)
      PROVE  Goal'
  <2>0. Grows
      BY <1>13 DEF HonourPending, Grows
  <2>1. SawReady'
      BY <1>13, <2>0 DEF HonourPending, SawReady, Grows
  <2>2. ToldReady'
      BY <1>0, <1>13, <2>0, ReceivesReady DEF HonourPending
  <2>3. NoBlankWindow'
    <3>1. ready[p]
        BY <1>0, <1>13, <2>0, ReceivesReady DEF HonourPending
    <3> QED
        BY <1>0, <1>13, <2>0, <3>1, DispatchReady DEF HonourPending, NoBlankWindow, Grows
  <2> QED
      BY <2>1, <2>2, <2>3
<1>14. ASSUME NEW p \in Procs, TrayStops(p)
      PROVE  Goal'
  <2>0. Grows
      BY <1>14 DEF TrayStops, Grows
  <2>1. SawReady'
      BY <1>14, <2>0 DEF TrayStops, SawReady, Grows
  <2>2. ToldReady'
      BY <1>0, <1>14, <2>0, ReceivesReady DEF TrayStops
  <2>3. NoBlankWindow'
      BY <1>14, <2>0 DEF TrayStops, NoBlankWindow, Grows
  <2> QED
      BY <2>1, <2>2, <2>3
<1>15. ASSUME NEW p \in Procs, TrayQuits(p)
      PROVE  Goal'
  <2>0. Grows
      BY <1>15 DEF TrayQuits, Grows
  <2>1. SawReady'
      BY <1>15, <2>0 DEF TrayQuits, SawReady, Grows
  <2>2. ToldReady'
      BY <1>0, <1>15, <2>0, ReceivesReady DEF TrayQuits
  <2>3. NoBlankWindow'
      BY <1>0, <1>15, <2>0, DispatchReady DEF TrayQuits
  <2> QED
      BY <2>1, <2>2, <2>3
<1>16. ASSUME NEW p \in Procs, TrayEnds(p)
      PROVE  Goal'
  <2>0. Grows
      BY <1>16 DEF TrayEnds, Grows
  <2>1. SawReady'
      BY <1>16, <2>0 DEF TrayEnds, SawReady, Grows
  <2>2. ToldReady'
      BY <1>16, <2>0 DEF TrayEnds, ToldReady, Grows
  <2>3. NoBlankWindow'
      BY <1>0, <1>16, <2>0, DispatchReady DEF TrayEnds
  <2> QED
      BY <2>1, <2>2, <2>3
<1>17. ASSUME NEW p \in Procs, SetReady(p)
      PROVE  Goal'
  <2>0. Grows
      BY <1>17 DEF SetReady, Grows
  <2>1. SawReady'
      BY <1>17, <2>0 DEF SetReady, SawReady, Grows
  <2>2. ToldReady'
      BY <1>0, <1>17, <2>0, PostReady DEF SetReady, ToldReady, Grows
  <2>3. NoBlankWindow'
      BY <1>17, <2>0 DEF SetReady, NoBlankWindow, Grows
  <2> QED
      BY <2>1, <2>2, <2>3
<1>18. ASSUME NEW p \in Procs, RestartApp(p)
      PROVE  Goal'
  <2>0. Grows
      BY <1>18 DEF RestartApp, Grows
  <2>1. SawReady'
      BY <1>18, <2>0 DEF RestartApp, SawReady, Grows
  <2>2. ToldReady'
      BY <1>18, <2>0 DEF RestartApp, ToldReady, Grows
  <2>3. NoBlankWindow'
      BY <1>0, <1>18, <2>0, DispatchReady DEF RestartApp
  <2> QED
      BY <2>1, <2>2, <2>3
<1>19. ASSUME NEW p \in Procs, TakeRequest(p)
      PROVE  Goal'
  <2>0. Grows
      BY <1>19 DEF TakeRequest, Grows
  <2>1. SawReady'
      BY <1>19, <2>0 DEF TakeRequest, SawReady, Grows
  <2>2. ToldReady'
      BY <1>19, <2>0 DEF TakeRequest, ToldReady, Grows
  <2>3. NoBlankWindow'
    <3>1. ui[p] # <<>> /\ ui' = [ui EXCEPT ![p] = Tail(@)]
        BY <1>19 DEF TakeRequest
    <3>2. \A i \in DOMAIN ui'[p] : i + 1 \in DOMAIN ui[p] /\ ui'[p][i] = ui[p][i + 1]
        BY <1>0, <3>1, TailOf
    <3>3. \A q \in Procs : q # p => ui'[q] = ui[q]
        BY <3>1
    <3> QED
        BY <1>19, <2>0, <3>2, <3>3 DEF TakeRequest, NoBlankWindow, Grows
  <2> QED
      BY <2>1, <2>2, <2>3
<1>20. ASSUME NEW p \in Procs, Terminate(p)
      PROVE  Goal'
  <2>0. Grows
      BY <1>20 DEF Terminate, Grows
  <2>1. SawReady'
      BY <1>20, <2>0 DEF Terminate, SawReady, Grows, Stop
  <2>2. ToldReady'
      BY <1>0, <1>20, <2>0, PostReady DEF Terminate, ToldReady, Grows, Stop
  <2>3. NoBlankWindow'
    <3>1. ui'[p] = <<>> /\ \A q \in Procs : q # p => ui'[q] = ui[q]
        BY <1>20 DEF Terminate
    <3> QED
        BY <2>0, <3>1, EmptyOf DEF NoBlankWindow, Grows
  <2> QED
      BY <2>1, <2>2, <2>3
<1>21. ASSUME NEW p \in Procs, HandOver(p)
      PROVE  Goal'
    BY <1>21 DEF HandOver, SawReady, ToldReady, NoBlankWindow
<1>22. ASSUME NEW p \in Procs, Relaunch(p)
      PROVE  Goal'
    BY <1>22 DEF Relaunch, SawReady, ToldReady, NoBlankWindow
<1>23. ASSUME NEW p \in Procs, Leave(p)
      PROVE  Goal'
  <2>1. \A q \in Procs : q # p =>
            ready'[q] = ready[q] /\ ui'[q] = ui[q] /\ tray'[q] = tray[q] /\ box'[q] = box[q]
      BY <1>23 DEF Leave, Ends
  <2>2. ui'[p] = <<>> /\ box'[p] = <<>> /\ tray'[p].saw = "nothing"
      BY <1>23 DEF Leave, Ends, NoTray
  <2>3. SawReady'
      BY <2>1, <2>2 DEF SawReady
  <2>4. \A i : i \notin DOMAIN ui'[p] /\ i \notin DOMAIN box'[p]
      BY <2>2, EmptyOf
  <2>5. ToldReady'
      BY <2>1, <2>4 DEF ToldReady
  <2>6. NoBlankWindow'
      BY <2>1, <2>4 DEF NoBlankWindow
  <2> QED
      BY <2>3, <2>5, <2>6
<1>24. ASSUME NEW p \in Procs, GetStuck(p)
      PROVE  Goal'
    BY <1>24 DEF GetStuck, SawReady, ToldReady, NoBlankWindow
<1>25. ASSUME NEW p \in Procs, Kill(p)
      PROVE  Goal'
  <2>1. \A q \in Procs : q # p =>
            ready'[q] = ready[q] /\ ui'[q] = ui[q] /\ tray'[q] = tray[q] /\ box'[q] = box[q]
      BY <1>25 DEF Kill, Ends
  <2>2. ui'[p] = <<>> /\ box'[p] = <<>> /\ tray'[p].saw = "nothing"
      BY <1>25 DEF Kill, Ends, NoTray
  <2>3. SawReady'
      BY <2>1, <2>2 DEF SawReady
  <2>4. \A i : i \notin DOMAIN ui'[p] /\ i \notin DOMAIN box'[p]
      BY <2>2, EmptyOf
  <2>5. ToldReady'
      BY <2>1, <2>4 DEF ToldReady
  <2>6. NoBlankWindow'
      BY <2>1, <2>4 DEF NoBlankWindow
  <2> QED
      BY <2>3, <2>5, <2>6
<1>26. ASSUME NEW p \in Procs, UserAsks(p)
      PROVE  Goal'
  <2>0. Grows
      BY <1>26 DEF UserAsks, Grows
  <2>1. SawReady'
      BY <1>26, <2>0 DEF UserAsks, SawReady, Grows
  <2>2. ToldReady'
      BY <1>0, <1>26, <2>0, PostReady DEF UserAsks, ToldReady, Grows
  <2>3. NoBlankWindow'
      BY <1>26, <2>0 DEF UserAsks, NoBlankWindow, Grows
  <2> QED
      BY <2>1, <2>2, <2>3
<1>27. ASSUME NEW p \in Procs, WaitFails(p)
      PROVE  Goal'
    BY <1>27 DEF WaitFails, SawReady, ToldReady, NoBlankWindow
<1> QED
    BY <1>1, <1>2, <1>3, <1>4, <1>5, <1>6, <1>7, <1>8, <1>9, <1>10, <1>11, <1>12, <1>13, <1>14, <1>15, <1>16, <1>17, <1>18, <1>19, <1>20, <1>21, <1>22, <1>23, <1>24, <1>25, <1>26, <1>27 DEF Next, MainThread, TrayThread, Failure

-----------------------------------------------------------------------------
LEMMA StepIInv == IInv /\ [Next]_vars => IInv'
    BY StepType, StepOwner, StepReady DEF IInv

THEOREM Invariant == Spec => []IInv
<1> QED
    BY InitIInv, StepIInv, PTL DEF Spec

\* Every variable keeps its type, in every process.
THEOREM LaunchTypes == Spec => []LaunchTypeOK
<1>1. IInv => LaunchTypeOK
    BY DEF IInv
<1> QED
    BY <1>1, Invariant, PTL

\* However many processes are started, by hand or by a restart, one is past
\* the single-instance check and one tray runs: the mutex is held until the
\* tray is down (main, Acquire and the hand-over).
THEOREM OneInstanceHolds == Spec => []OneInstance
<1>1. IInv => OneInstance
    BY DEF IInv, OneInstance, ProfileIsHandedOver, HandedOver, TrayOfOwner, UsingProfile, Owning
<1> QED
    BY <1>1, Invariant, PTL

\* Whatever is launched, killed or stuck, two processes have the WebView2
\* folder open only when one of them has freed the mutex for a restart: main
\* keeps it until w.Destroy has returned (the order of what it defers).
THEOREM ProfileIsHandedOverHolds == Spec => []ProfileIsHandedOver
<1>1. IInv => ProfileIsHandedOver
    BY DEF IInv
<1> QED
    BY <1>1, Invariant, PTL

\* No request for the window reaches the UI thread before the page is ready,
\* however the threads interleave around the flag and its message.
THEOREM NoBlankWindowHolds == Spec => []NoBlankWindow
<1>1. IInv => NoBlankWindow
    BY DEF IInv
<1> QED
    BY <1>1, Invariant, PTL

=============================================================================
