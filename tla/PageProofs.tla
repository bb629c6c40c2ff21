--------------------------- MODULE PageProofs ---------------------------
(***************************************************************************)
(* Proofs about PageCycle, for either window and any heights, steps of a   *)
(* slide, shows, hides and reloads: the page is shown with the view it was *)
(* prepared with, only the answer to the last request shows it, it takes   *)
(* keys exactly while the window is up, and keeps the pointer away while   *)
(* the slide of the last show or hide is under way.                        *)
(*                                                                         *)
(* The page is behind: calls are on their way to it.  What matters is what *)
(* it will be once it has taken them, so the invariants speak of the last  *)
(* call of a kind, or of the page itself when there is none.  A page that  *)
(* was loaded again is nobody's until it is told of a hide (informed).     *)
(*                                                                         *)
(* Which of the two windows it is, is no matter: the steps of both are of  *)
(* the same few kinds (Phases) in how the phase changes and what is said,  *)
(* and that is all the page depends on.                                    *)
(***************************************************************************)
EXTENDS PageCycle, TLAPS

-----------------------------------------------------------------------------
\* Types

Calls ==
    [call : {"shown"}, view : Views \cup {"null"}]
    \cup [call : {"prepare"}, id : Nat, settings : BOOLEAN]
    \cup [call : {"transition"}, active : BOOLEAN, generation : Nat]
    \cup [call : {"openSettings"}]

AnyPost == Posts \cup {Ready}

\* A slide, with any number of steps: how far it has gone is no matter here.
Gliding ==
    [generation : Nat, hiding : BOOLEAN, to : Sizes \cup {Away}, step : Nat,
     at : {"wait", "check", "move", "end"}]

WindowTypes ==
    /\ phase \in {"parked", "visible", "hiding", "preparing"}
    /\ pending \in Requests
    /\ prepId \in Nat /\ timer \in Nat /\ generation \in Nat
    /\ size \in Sizes
    /\ slides \subseteq Gliding
    /\ inbox \in Seq(AnyPost)

PageTypes ==
    /\ calls \in Seq(Calls)
    /\ loaded \in BOOLEAN /\ visible \in BOOLEAN /\ view \in Views /\ modal \in BOOLEAN
    /\ prep \in Nat /\ answering \in BOOLEAN
    /\ shield \in BOOLEAN /\ shieldGen \in Nat
    /\ informed \in BOOLEAN
    /\ startupRequest \in Requests

PageTypeOK == WindowTypes /\ PageTypes

-----------------------------------------------------------------------------
\* The calls on their way
LEMMA Taken ==
    ASSUME NEW S, NEW s \in Seq(S), s # <<>>
    PROVE  /\ Tail(s) \in Seq(S) /\ Head(s) \in S /\ Head(s) = s[1] /\ 1 \in DOMAIN s
           /\ Len(Tail(s)) = Len(s) - 1 /\ Len(s) \in Nat /\ Len(s) >= 1
           /\ DOMAIN s = 1..Len(s)
           /\ \A i \in DOMAIN Tail(s) : i \in Nat /\ i + 1 \in DOMAIN s /\ Tail(s)[i] = s[i + 1]
           /\ \A i \in DOMAIN s : i # 1 => i - 1 \in DOMAIN Tail(s) /\ s[i] = Tail(s)[i - 1]
    OBVIOUS

LEMMA Added ==
    ASSUME NEW S, NEW s \in Seq(S), NEW q \in Seq(S)
    PROVE  /\ s \o q \in Seq(S) /\ Len(s) \in Nat /\ Len(q) \in Nat
           /\ Len(s \o q) = Len(s) + Len(q)
           /\ DOMAIN s = 1..Len(s) /\ DOMAIN (s \o q) = 1..(Len(s) + Len(q))
           /\ \A i \in DOMAIN s : i \in DOMAIN (s \o q) /\ (s \o q)[i] = s[i]
           /\ \A i \in DOMAIN q : Len(s) + i \in DOMAIN (s \o q) /\ (s \o q)[Len(s) + i] = q[i]
           /\ \A i \in DOMAIN (s \o q) :
                 i \in DOMAIN s \/ (i - Len(s) \in DOMAIN q /\ (s \o q)[i] = q[i - Len(s)])
<1>1. /\ Len(s) \in Nat /\ Len(q) \in Nat /\ DOMAIN s = 1..Len(s) /\ DOMAIN q = 1..Len(q)
    OBVIOUS
<1>2. s \o q \in Seq(S) /\ Len(s \o q) = Len(s) + Len(q)
    OBVIOUS
<1>3. DOMAIN (s \o q) = 1..(Len(s) + Len(q))
    BY <1>2
<1>4. \A i \in 1..(Len(s) + Len(q)) : (s \o q)[i] = IF i <= Len(s) THEN s[i] ELSE q[i - Len(s)]
    OBVIOUS
<1> QED
    BY <1>1, <1>2, <1>3, <1>4

LEMMA CallTypes ==
    /\ \A v \in Views \cup {"null"} : Shown(v) \in Calls /\ Shown(v).call = "shown" /\ Shown(v).view = v
    /\ \A id \in Nat, b \in BOOLEAN :
          Prepare(id, b) \in Calls /\ Prepare(id, b).call = "prepare" /\ Prepare(id, b).settings = b
    /\ \A b \in BOOLEAN, g \in Nat :
          /\ Transition(b, g) \in Calls /\ Transition(b, g).call = "transition"
          /\ Transition(b, g).active = b /\ Transition(b, g).generation = g
    /\ OpenSettings \in Calls /\ OpenSettings.call = "openSettings"
    /\ \A c \in Calls :
          /\ c.call \in {"shown", "prepare", "transition", "openSettings"}
          /\ c.call = "shown" => c.view \in Views \cup {"null"}
          /\ c.call = "prepare" => c.id \in Nat /\ c.settings \in BOOLEAN
          /\ c.call = "transition" => c.active \in BOOLEAN /\ c.generation \in Nat
    BY DEF Calls, Shown, Prepare, Transition, OpenSettings

LEMMA PostTypes ==
    /\ \A id \in Nat, h \in Sizes :
          Prepared(id, h) \in AnyPost /\ Prepared(id, h).post = "prepared" /\ Prepared(id, h).id = id
    /\ Ready \in AnyPost /\ Ready.post = "ready"
    /\ \A id \in Nat : Expired(id) \in AnyPost /\ Expired(id).post = "expired"
    /\ \A s \in Gliding :
          /\ Ended(s) \in AnyPost /\ Ended(s).post = "ended" /\ Ended(s).generation = s.generation
    /\ \A m \in AnyPost :
          /\ m.post \in {"resize", "prepared"} => m.height \in Sizes
          /\ m.post = "prepared" => m.id \in Nat
          /\ m.post = "ended" => m.generation \in Nat /\ m.hiding \in BOOLEAN
    BY DEF AnyPost, Posts, Gliding, Ready, Prepared, Expired, Ended

-----------------------------------------------------------------------------
\* What the window says

\* Nothing, or that a slide has begun or ended.
Brief == said' = <<>> \/ \E b \in BOOLEAN, g \in Nat : said' = <<Transition(b, g)>>

\* A call, with the transition it comes with.
Speaks(c) == said' = <<c>> \/ \E b \in BOOLEAN, g \in Nat : said' = <<Transition(b, g), c>>

ViewFor(request) == IF request = "settings" THEN "settings" ELSE "main"

\* How the phases and what is said go together.
Rests == Brief /\ phase' = phase /\ (phase = "preparing" => ViewFor(pending') = ViewFor(pending))
Parks == Brief /\ phase = "preparing" /\ pending = "none" /\ phase' = "parked"
Leaves == Brief /\ phase' = "hiding"
Opens == Speaks(OpenSettings) /\ phase = "visible" /\ phase' = "visible"
PreparesIt ==
    /\ phase' = "preparing"
    /\ \E id \in Nat :
          id = prepId + 1 /\ prepId' = id /\ Speaks(Prepare(id, pending' = "settings"))
Shows ==
    /\ phase' = "visible"
    /\ \/ phase = "visible" /\ Speaks(Shown("null"))
       \/ phase = "parked" /\ Speaks(Shown("main"))
       \/ phase = "preparing" /\ Speaks(Shown(ViewFor(pending)))

Phases ==
    \/ UNCHANGED prepId /\ (Rests \/ Parks \/ Leaves \/ Opens \/ Shows)
    \/ PreparesIt

LEMMA SilentIsBrief == Silent => Brief
    BY DEF Silent, Says, Brief

LEMMA SlideInSpeaks ==
    ASSUME WindowTypes, NEW v, NEW h, SlideIn(v, h)
    PROVE  phase' = "visible" /\ Speaks(Shown(v)) /\ UNCHANGED prepId
<1>1. generation + 1 \in Nat
    BY DEF WindowTypes
<1> QED
    BY <1>1 DEF SlideIn, Says, Speaks

LEMMA GoPhases == WindowTypes /\ GoStep => Phases
<1> SUFFICES ASSUME WindowTypes, GoStep PROVE Phases
    OBVIOUS
<1>t. /\ phase \in {"parked", "visible", "hiding", "preparing"} /\ pending \in Requests
      /\ prepId + 1 \in Nat /\ generation \in Nat /\ generation + 1 \in Nat
    BY DEF WindowTypes
<1>1. CASE Show
  <2>1. phase = "visible" \/ phase = "parked"
    BY <1>1 DEF Show
  <2> QED
    BY <1>1, <2>1, SlideInSpeaks DEF Show, Phases, Shows
<1>2. CASE ShowSettingsOfVisible
    BY <1>2 DEF ShowSettingsOfVisible, Says, Speaks, Phases, Opens, cycle
<1>3. CASE ShowSettings
    BY <1>t, <1>3 DEF ShowSettings, BeginPreparation, PrepareCall, Says, Speaks, Phases, PreparesIt
<1>4. CASE Hide
  <2>1. CASE phase' = "hiding" /\ Says(<<Transition(TRUE, generation + 1)>>) /\ UNCHANGED prepId
    BY <1>t, <2>1 DEF Says, Brief, Phases, Leaves
  <2>2. CASE BeginPreparation("none") /\ Says(<<Transition(FALSE, generation + 1), PrepareCall("none")>>)
    BY <1>t, <2>2 DEF BeginPreparation, PrepareCall, Says, Speaks, Phases, PreparesIt
  <2> QED
    BY <1>4, <2>1, <2>2 DEF Hide
<1>5. ASSUME NEW want \in {"show", "settings"}, ShowLater(want) PROVE Phases
    BY <1>t, <1>5, SilentIsBrief DEF ShowLater, Stronger, ViewFor, Phases, Rests, Requests
<1>6. CASE SlideEnded
  <2>1. CASE Silent /\ UNCHANGED cycle
    BY <2>1, SilentIsBrief DEF cycle, Phases, Rests
  <2>2. CASE BeginPreparation(pending) /\ Says(<<Transition(FALSE, generation), PrepareCall(pending)>>)
    BY <1>t, <2>2 DEF BeginPreparation, PrepareCall, Says, Speaks, Phases, PreparesIt
  <2>3. CASE Says(<<Transition(FALSE, generation)>>) /\ UNCHANGED cycle
    BY <1>t, <2>3 DEF Says, Brief, cycle, Phases, Rests
  <2> QED
    BY <1>6, <2>1, <2>2, <2>3 DEF SlideEnded
<1>7. CASE ResizeToContent
    BY <1>7, SilentIsBrief DEF ResizeToContent, cycle, Phases, Rests
<1>8. ASSUME NEW h, phase = "preparing", FinishPreparation(h) PROVE Phases
  <2>1. CASE pending = "none" /\ phase' = "parked" /\ Silent /\ UNCHANGED prepId
    BY <1>8, <2>1, SilentIsBrief DEF Phases, Parks
  <2>2. CASE SlideIn(IF pending = "settings" THEN "settings" ELSE "main", h)
    BY <1>8, <2>2, SlideInSpeaks DEF Phases, Shows, ViewFor
  <2> QED
    BY <1>8, <2>1, <2>2 DEF FinishPreparation
<1>9. CASE CompletePreparation
  <2>1. CASE phase = "preparing" /\ FinishPreparation(Head(inbox).height)
    BY <1>8, <2>1
  <2>2. CASE Silent /\ UNCHANGED cycle
    BY <2>2, SilentIsBrief DEF cycle, Phases, Rests
  <2> QED
    BY <1>9, <2>1, <2>2 DEF CompletePreparation
<1>10. CASE ExpirePreparation
  <2>1. CASE phase = "preparing" /\ FinishPreparation(size)
    BY <1>8, <2>1
  <2>2. CASE Silent /\ UNCHANGED cycle
    BY <2>2, SilentIsBrief DEF cycle, Phases, Rests
  <2> QED
    BY <1>10, <2>1, <2>2 DEF ExpirePreparation
<1>11. CASE Animate \/ TimerFires
    BY <1>11, SilentIsBrief DEF Animate, StartSlide, CheckSlide, MoveWindow, EndSlide, TimerFires,
                                cycle, Phases, Rests
<1> QED
    BY <1>1, <1>2, <1>3, <1>4, <1>5, <1>6, <1>7, <1>9, <1>10, <1>11
    DEF GoStep, UserAsks, UIThread

LEMMA MacPhases == WindowTypes /\ MacStep => Phases
<1> SUFFICES ASSUME WindowTypes, MacStep PROVE Phases
    OBVIOUS
<1>t. /\ phase \in {"parked", "visible", "hiding", "preparing"} /\ pending \in Requests
      /\ prepId + 1 \in Nat
    BY DEF WindowTypes
<1>1. ASSUME NEW request, Prepares(request) PROVE Phases
    BY <1>t, <1>1 DEF Prepares, BeginPreparation, PrepareCall, Says, Speaks, Phases, PreparesIt
<1>2. ASSUME NEW want, RequestWindow(want) PROVE Phases
  <2>1. CASE phase = "visible" /\ Says(<<Shown("null")>>) /\ UNCHANGED <<phase, prepId>>
    BY <2>1 DEF Says, Speaks, Phases, Shows
  <2>2. CASE phase = "visible" /\ Says(<<OpenSettings>>) /\ UNCHANGED cycle
    BY <2>2 DEF Says, Speaks, cycle, Phases, Opens
  <2>3. CASE phase = "parked" /\ want = "show" /\ BringUp(want)
    BY <2>3 DEF BringUp, Says, Speaks, Phases, Shows
  <2>4. CASE Prepares(want)
    BY <1>1, <2>4
  <2>5. CASE /\ phase = "preparing" /\ (want = "show" \/ pending = "settings")
             /\ pending' = Stronger(want, pending) /\ Silent /\ UNCHANGED <<phase, prepId>>
    BY <1>t, <2>5, SilentIsBrief DEF Stronger, ViewFor, Phases, Rests, Requests
  <2> QED
    BY <1>2, <2>1, <2>2, <2>3, <2>4, <2>5 DEF RequestWindow
<1>3. CASE HideWindow
    BY <1>1, <1>3 DEF HideWindow
<1>4. ASSUME NEW want, UserRequest(want) PROVE Phases
  <2>1. CASE Silent /\ WindowRests
    BY <2>1, SilentIsBrief DEF WindowRests, cycle, Phases, Rests
  <2> QED
    BY <1>2, <1>4, <2>1 DEF UserRequest
<1>5. ASSUME phase = "preparing", FinishMac PROVE Phases
  <2>1. CASE pending = "none" /\ phase' = "parked" /\ Silent /\ UNCHANGED prepId
    BY <1>5, <2>1, SilentIsBrief DEF Phases, Parks
  <2>2. CASE BringUp(pending)
    BY <1>5, <2>2 DEF BringUp, Says, Speaks, Phases, Shows, ViewFor
  <2> QED
    BY <1>5, <2>1, <2>2 DEF FinishMac
<1>6. CASE MacPrepared \/ MacExpires \/ MacResize
  <2>1. CASE Silent /\ UNCHANGED cycle
    BY <2>1, SilentIsBrief DEF cycle, Phases, Rests
  <2> QED
    BY <1>5, <1>6, <2>1 DEF MacPrepared, MacExpires, MacResize
<1>7. CASE NotifyReady
  <2>1. CASE Silent /\ WindowRests
    BY <2>1, SilentIsBrief DEF WindowRests, cycle, Phases, Rests
  <2> QED
    BY <1>2, <1>7, <2>1 DEF NotifyReady
<1>8. CASE TimerFires
    BY <1>8, SilentIsBrief DEF TimerFires, Phases, Rests
<1> QED
    BY <1>3, <1>4, <1>6, <1>7, <1>8 DEF MacStep, UserToggle, ResignActive

-----------------------------------------------------------------------------
\* What the page will be

\* With the calls before the n-th, it is parked at a view: the last of them
\* prepares that, or the page is there already.
PreparedAt(n, settings) ==
    \/ \E j \in DOMAIN calls :
          /\ j < n /\ calls[j].call = "prepare" /\ calls[j].settings = settings
          /\ \A k \in DOMAIN calls : j < k /\ k < n => calls[k].call = "transition"
    \/ /\ \A k \in DOMAIN calls : k < n => calls[k].call = "transition"
       /\ informed => ~visible /\ view = IF settings THEN "settings" ELSE "main"

\* With all of them, it is up.
ShownUp ==
    \/ \E j \in DOMAIN calls :
          /\ calls[j].call = "shown"
          /\ \A k \in DOMAIN calls : j < k => calls[k].call # "prepare"
    \/ /\ \A k \in DOMAIN calls : calls[k].call # "prepare"
       /\ informed => visible

\* The window stays, or is to stay, parked at Settings, or at the list.
ParkedAt(settings) ==
    \/ phase = "parked" /\ settings = FALSE
    \/ phase = "preparing" /\ settings = (pending = "settings")

WindowAgrees ==
    /\ phase = "visible" => ShownUp
    /\ \A n \in Nat, b \in BOOLEAN : n = Len(calls) + 1 /\ ParkedAt(b) => PreparedAt(n, b)

ShowsAgree ==
    \A i \in DOMAIN calls, b \in BOOLEAN :
        calls[i].call = "shown" /\ calls[i].view # "null" /\ b = (calls[i].view = "settings") =>
            PreparedAt(i, b)

\* Only a loaded page was told anything, and only one that was told of a hide
\* takes no keys; a modal covers the list.
PageIsSound ==
    /\ informed => loaded
    /\ modal => view = "main"
    /\ ~visible => informed

PageInv ==
    /\ PageTypeOK
    /\ PageIsSound
    /\ WindowAgrees
    /\ ShowsAgree

-----------------------------------------------------------------------------
\* The window speaks
LEMMA SaysBriefly ==
    ASSUME calls \in Seq(Calls), Brief, calls' = calls \o said'
    PROVE  /\ calls' \in Seq(Calls) /\ Len(calls) \in Nat /\ Len(calls') \in Nat
           /\ Len(calls') >= Len(calls)
           /\ \A i \in DOMAIN calls : i \in DOMAIN calls' /\ calls'[i] = calls[i] /\ i <= Len(calls)
           /\ \A i \in DOMAIN calls' :
                 /\ i \in Nat /\ i <= Len(calls')
                 /\ i \in DOMAIN calls \/ (i > Len(calls) /\ calls'[i].call = "transition")
<1>1. said' \in Seq(Calls) /\ \A i \in DOMAIN said' : i \in Nat /\ i >= 1 /\ said'[i].call = "transition"
  <2>1. CASE said' = <<>>
    BY <2>1
  <2>2. CASE \E b \in BOOLEAN, g \in Nat : said' = <<Transition(b, g)>>
    <3>1. PICK b \in BOOLEAN, g \in Nat : said' = <<Transition(b, g)>>
      BY <2>2
    <3>2. Transition(b, g) \in Calls /\ Transition(b, g).call = "transition"
      BY CallTypes
    <3> QED
      BY <3>1, <3>2
  <2> QED
    BY <2>1, <2>2 DEF Brief
<1>2. /\ calls' \in Seq(Calls) /\ Len(calls) \in Nat /\ Len(said') \in Nat
      /\ Len(calls') = Len(calls) + Len(said')
      /\ DOMAIN calls = 1..Len(calls) /\ DOMAIN calls' = 1..Len(calls')
      /\ \A i \in DOMAIN calls : i \in DOMAIN calls' /\ calls'[i] = calls[i]
      /\ \A i \in DOMAIN calls' :
            i \in DOMAIN calls \/ (i - Len(calls) \in DOMAIN said' /\ calls'[i] = said'[i - Len(calls)])
    BY <1>1, Added
<1>3. \A i \in DOMAIN calls' :
         i \in DOMAIN calls \/ (i > Len(calls) /\ calls'[i].call = "transition")
    BY <1>1, <1>2
<1> QED
    BY <1>2, <1>3

LEMMA SaysAloud ==
    ASSUME calls \in Seq(Calls), NEW c \in Calls, Speaks(c), calls' = calls \o said'
    PROVE  /\ calls' \in Seq(Calls) /\ Len(calls) \in Nat /\ Len(calls') \in Nat
           /\ Len(calls') > Len(calls) /\ Len(calls') \in DOMAIN calls' /\ calls'[Len(calls')] = c
           /\ \A i \in DOMAIN calls : i \in DOMAIN calls' /\ calls'[i] = calls[i] /\ i <= Len(calls)
           /\ \A i \in DOMAIN calls' :
                 /\ i \in Nat /\ i <= Len(calls')
                 /\ \/ i \in DOMAIN calls
                    \/ i > Len(calls) /\ i < Len(calls') /\ calls'[i].call = "transition"
                    \/ i = Len(calls')
<1>1. /\ said' \in Seq(Calls) /\ Len(said') \in {1, 2} /\ DOMAIN said' = 1..Len(said')
      /\ said'[Len(said')] = c
      /\ \A i \in DOMAIN said' : i = Len(said') \/ said'[i].call = "transition"
  <2>1. CASE said' = <<c>>
    BY <2>1
  <2>2. CASE \E b \in BOOLEAN, g \in Nat : said' = <<Transition(b, g), c>>
    <3>1. PICK b \in BOOLEAN, g \in Nat : said' = <<Transition(b, g), c>>
      BY <2>2
    <3>2. Transition(b, g) \in Calls /\ Transition(b, g).call = "transition"
      BY CallTypes
    <3> QED
      BY <3>1, <3>2
  <2> QED
    BY <2>1, <2>2 DEF Speaks
<1>2. /\ calls' \in Seq(Calls) /\ Len(calls) \in Nat /\ Len(calls') = Len(calls) + Len(said')
      /\ DOMAIN calls = 1..Len(calls) /\ DOMAIN calls' = 1..Len(calls')
      /\ \A i \in DOMAIN calls : calls'[i] = calls[i]
      /\ \A i \in DOMAIN said' : calls'[Len(calls) + i] = said'[i]
    BY <1>1, Added
<1>3. calls'[Len(calls')] = c
    BY <1>1, <1>2
<1>4. \A i \in DOMAIN calls' :
          i > Len(calls) /\ i < Len(calls') => calls'[i].call = "transition"
  <2> SUFFICES ASSUME NEW i \in DOMAIN calls', i > Len(calls), i < Len(calls')
               PROVE  calls'[i].call = "transition"
    OBVIOUS
  <2>1. i - Len(calls) \in DOMAIN said' /\ i - Len(calls) # Len(said')
    BY <1>1, <1>2
  <2>2. calls'[Len(calls) + (i - Len(calls))] = said'[i - Len(calls)]
    BY <1>2, <2>1
  <2>3. Len(calls) + (i - Len(calls)) = i
    BY <1>2
  <2> QED
    BY <1>1, <2>1, <2>2, <2>3
<1>5. Len(calls') > Len(calls) /\ Len(calls') \in Nat /\ Len(calls') \in DOMAIN calls'
    BY <1>1, <1>2
<1>6. \A i \in DOMAIN calls : i \in DOMAIN calls' /\ calls'[i] = calls[i] /\ i <= Len(calls)
    BY <1>2, <1>5
<1>7. \A i \in DOMAIN calls' :
         /\ i \in Nat /\ i <= Len(calls')
         /\ \/ i \in DOMAIN calls
            \/ i > Len(calls) /\ i < Len(calls') /\ calls'[i].call = "transition"
            \/ i = Len(calls')
  <2> SUFFICES ASSUME NEW i \in DOMAIN calls'
               PROVE  /\ i \in Nat /\ i <= Len(calls')
                      /\ i \in DOMAIN calls \/ (i > Len(calls) /\ i < Len(calls')) \/ i = Len(calls')
    BY <1>4
  <2> QED
    BY <1>2, <1>5
<1> QED
    BY <1>2, <1>3, <1>5, <1>6, <1>7

PageRests == UNCHANGED <<visible, view, informed>>

\* What was prepared before a call still is.
LEMMA PreparedStays ==
    ASSUME PageRests, NEW n \in Nat, NEW b \in BOOLEAN,
           Len(calls) \in Nat, n <= Len(calls) + 1,
           \A i \in DOMAIN calls : i \in DOMAIN calls' /\ calls'[i] = calls[i] /\ i <= Len(calls),
           \A i \in DOMAIN calls' : i \in Nat /\ (i \in DOMAIN calls \/ i > Len(calls)),
           PreparedAt(n, b)
    PROVE  PreparedAt(n, b)'
<1>1. \A k \in DOMAIN calls' : k < n => k \in DOMAIN calls
    OBVIOUS
<1>2. CASE \E j \in DOMAIN calls :
              /\ j < n /\ calls[j].call = "prepare" /\ calls[j].settings = b
              /\ \A k \in DOMAIN calls : j < k /\ k < n => calls[k].call = "transition"
    BY <1>1, <1>2 DEF PreparedAt
<1>3. CASE /\ \A k \in DOMAIN calls : k < n => calls[k].call = "transition"
           /\ informed => ~visible /\ view = IF b THEN "settings" ELSE "main"
    BY <1>1, <1>3 DEF PreparedAt, PageRests
<1> QED
    BY <1>2, <1>3 DEF PreparedAt

\* And it is at the end of what is said, when that is brief.
LEMMA PreparedTo ==
    ASSUME PageRests, NEW n \in Nat, NEW m \in Nat, NEW b \in BOOLEAN,
           Len(calls) \in Nat, n > Len(calls), m = Len(calls) + 1,
           \A i \in DOMAIN calls : i \in DOMAIN calls' /\ calls'[i] = calls[i] /\ i <= Len(calls),
           \A i \in DOMAIN calls' :
              i < n => i \in DOMAIN calls \/ calls'[i].call = "transition",
           \A i \in DOMAIN calls' : i \in Nat,
           PreparedAt(m, b)
    PROVE  PreparedAt(n, b)'
<1>1. CASE \E j \in DOMAIN calls :
              /\ j < m /\ calls[j].call = "prepare" /\ calls[j].settings = b
              /\ \A k \in DOMAIN calls :
                    j < k /\ k < m => calls[k].call = "transition"
  <2>1. PICK j \in DOMAIN calls :
            /\ j < m /\ calls[j].call = "prepare" /\ calls[j].settings = b
            /\ \A k \in DOMAIN calls : j < k /\ k < m => calls[k].call = "transition"
    BY <1>1
  <2>2. /\ j \in DOMAIN calls' /\ j < n /\ calls'[j].call = "prepare" /\ calls'[j].settings = b
        /\ \A k \in DOMAIN calls' : j < k /\ k < n => calls'[k].call = "transition"
    BY <2>1
  <2> QED
    BY <2>2 DEF PreparedAt
<1>2. CASE /\ \A k \in DOMAIN calls : k < m => calls[k].call = "transition"
           /\ informed => ~visible /\ view = IF b THEN "settings" ELSE "main"
  <2>1. \A k \in DOMAIN calls' : k < n => calls'[k].call = "transition"
    BY <1>2
  <2> QED
    BY <1>2, <2>1 DEF PreparedAt, PageRests
<1> QED
    BY <1>1, <1>2 DEF PreparedAt

LEMMA UpStays ==
    ASSUME PageRests, ShownUp, Len(calls) \in Nat,
           \A i \in DOMAIN calls : i \in DOMAIN calls' /\ calls'[i] = calls[i] /\ i <= Len(calls),
           \A i \in DOMAIN calls' :
              i \in DOMAIN calls \/ (i > Len(calls) /\ calls'[i].call # "prepare")
    PROVE  ShownUp'
    BY DEF ShownUp, PageRests

\* A step of the window, whatever it says, in what it adds.
LEMMA WindowKeepsAgreement ==
    ASSUME PageInv, Phases, calls' = calls \o said', PageRests
    PROVE  calls' \in Seq(Calls) /\ WindowAgrees' /\ ShowsAgree'
<1>t. /\ calls \in Seq(Calls) /\ Len(calls) \in Nat /\ DOMAIN calls = 1..Len(calls)
      /\ pending \in Requests
      /\ WindowAgrees /\ ShowsAgree
    BY DEF PageInv, PageTypeOK, PageTypes, WindowTypes
<1> DEFINE Extends ==
        /\ \A i \in DOMAIN calls : i \in DOMAIN calls' /\ calls'[i] = calls[i] /\ i <= Len(calls)
        /\ \A i \in DOMAIN calls' : i \in Nat /\ (i \in DOMAIN calls \/ i > Len(calls))
\* The shows that were on their way still agree; what is said is no other.
<1>a. ASSUME Extends,
             \A i \in DOMAIN calls', b \in BOOLEAN :
                i \notin DOMAIN calls /\ calls'[i].call = "shown" /\ calls'[i].view # "null"
                /\ b = (calls'[i].view = "settings") => PreparedAt(i, b)'
      PROVE  ShowsAgree'
  <2> SUFFICES ASSUME NEW i \in DOMAIN calls', NEW b \in BOOLEAN,
                      calls'[i].call = "shown", calls'[i].view # "null",
                      b = (calls'[i].view = "settings")
               PROVE  PreparedAt(i, b)'
    BY DEF ShowsAgree
  <2>1. CASE i \in DOMAIN calls
    <3>0. calls'[i] = calls[i] /\ i \in Nat /\ i <= Len(calls)
      BY <1>a, <2>1
    <3>2. PreparedAt(i, b)
      BY <1>t, <2>1, <3>0 DEF ShowsAgree
    <3>1. PreparedAt(i, b) /\ i \in Nat /\ i <= Len(calls) + 1
      BY <1>t, <3>0, <3>2
    <3> QED
      BY <1>t, <1>a, <3>1, PreparedStays
  <2> QED
    BY <1>a, <2>1
<1>1. CASE Rests \/ Parks \/ Leaves
  <2>1. /\ calls' \in Seq(Calls) /\ Len(calls') \in Nat /\ Len(calls') >= Len(calls)
        /\ \A i \in DOMAIN calls : i \in DOMAIN calls' /\ calls'[i] = calls[i] /\ i <= Len(calls)
        /\ \A i \in DOMAIN calls' :
              /\ i \in Nat /\ i <= Len(calls')
              /\ i \in DOMAIN calls \/ (i > Len(calls) /\ calls'[i].call = "transition")
    BY <1>t, <1>1, SaysBriefly DEF Rests, Parks, Leaves
  <2>2. ShowsAgree'
    BY <1>a, <2>1
  <2>3. phase' = "visible" => ShownUp'
    <3>1. phase' = "visible" => phase = "visible"
      BY <1>1 DEF Rests, Parks, Leaves
    <3> QED
      BY <1>t, <2>1, <3>1, UpStays DEF WindowAgrees
  <2>4. ASSUME NEW n \in Nat, NEW b \in BOOLEAN, n = Len(calls') + 1, ParkedAt(b)'
        PROVE  PreparedAt(n, b)'
    <3>1. ParkedAt(b)
      BY <1>1, <2>4 DEF Rests, Parks, Leaves, ParkedAt, ViewFor
    <3>2. PICK m \in Nat : m = Len(calls) + 1
      BY <1>t
    <3>3. PreparedAt(m, b)
      BY <1>t, <3>1, <3>2 DEF WindowAgrees
    <3> QED
      BY <1>t, <2>1, <2>4, <3>2, <3>3, PreparedTo
  <2> QED
    BY <2>1, <2>2, <2>3, <2>4 DEF WindowAgrees
<1>2. ASSUME NEW c \in Calls, Speaks(c)
      PROVE  /\ calls' \in Seq(Calls) /\ Len(calls') \in Nat /\ Len(calls') > Len(calls)
             /\ Len(calls') \in DOMAIN calls' /\ calls'[Len(calls')] = c
             /\ Extends
             /\ \A i \in DOMAIN calls' :
                   /\ i <= Len(calls')
                   /\ \/ i \in DOMAIN calls
                      \/ i > Len(calls) /\ i < Len(calls') /\ calls'[i].call = "transition"
                      \/ i = Len(calls')
    BY <1>t, <1>2, SaysAloud
<1>3. CASE Opens
  <2>1. OpenSettings \in Calls /\ OpenSettings.call = "openSettings" /\ Speaks(OpenSettings)
    BY <1>3, CallTypes DEF Opens
  <2>2. ShowsAgree'
    BY <1>2, <1>a, <2>1
  <2>3. ShownUp'
    <3>1. ShownUp
      BY <1>t, <1>3 DEF Opens, WindowAgrees
    <3>2. \A i \in DOMAIN calls' :
             i \in DOMAIN calls \/ (i > Len(calls) /\ calls'[i].call # "prepare")
      BY <1>2, <2>1
    <3> QED
      BY <1>t, <1>2, <2>1, <3>1, <3>2, UpStays
  <2>4. \A b \in BOOLEAN : ~ParkedAt(b)'
    BY <1>3 DEF Opens, ParkedAt
  <2> QED
    BY <1>2, <2>1, <2>2, <2>3, <2>4 DEF WindowAgrees
<1>4. CASE PreparesIt
  <2>1. PICK id \in Nat, s \in BOOLEAN : Speaks(Prepare(id, s)) /\ s = (pending' = "settings")
    BY <1>4 DEF PreparesIt
  <2>2. Prepare(id, s) \in Calls /\ Prepare(id, s).call = "prepare" /\ Prepare(id, s).settings = s
    BY SMTT(60), CallTypes
  <2>3. ShowsAgree'
    BY <1>2, <1>a, <2>1, <2>2
  <2>4. ASSUME NEW n \in Nat, NEW b \in BOOLEAN, n = Len(calls') + 1, ParkedAt(b)'
        PROVE  PreparedAt(n, b)'
    <3>1. b = s
      BY <1>4, <2>1, <2>4 DEF PreparesIt, ParkedAt
    <3>2. /\ Len(calls') \in DOMAIN calls' /\ Len(calls') < n
          /\ calls'[Len(calls')].call = "prepare" /\ calls'[Len(calls')].settings = b
          /\ \A k \in DOMAIN calls' : k <= Len(calls') /\ k \in Nat
      BY <1>2, <2>1, <2>2, <2>4, <3>1
    <3>3. \A k \in DOMAIN calls' : ~(Len(calls') < k)
      BY <1>2, <2>1, <2>2, <3>2
    <3> QED
      BY <3>2, <3>3 DEF PreparedAt
  <2>5. phase' # "visible"
    BY <1>4 DEF PreparesIt
  <2> QED
    BY <1>2, <2>1, <2>2, <2>3, <2>4, <2>5 DEF WindowAgrees
<1>5. CASE Shows
  <2>1. PICK v \in Views \cup {"null"} :
            /\ Speaks(Shown(v))
            /\ v # "null" => ParkedAt(v = "settings")
    BY <1>5 DEF Shows, ViewFor, Views, ParkedAt
  <2>2. Shown(v) \in Calls /\ Shown(v).call = "shown" /\ Shown(v).view = v
    BY CallTypes
  <2>3. ShowsAgree'
    <3> SUFFICES ASSUME NEW i \in DOMAIN calls', NEW b \in BOOLEAN,
                        i \notin DOMAIN calls, calls'[i].call = "shown", calls'[i].view # "null",
                        b = (calls'[i].view = "settings")
                 PROVE  PreparedAt(i, b)'
      BY <1>2, <1>a, <2>1, <2>2
    <3>1. i = Len(calls') /\ b = (v = "settings") /\ v # "null" /\ i \in Nat /\ i > Len(calls)
      BY <1>2, <2>1, <2>2
    <3>2. PICK m \in Nat : m = Len(calls) + 1
      BY <1>t
    <3>3. PreparedAt(m, b)
      <4>1. ParkedAt(b)
        BY <2>1, <3>1 DEF ParkedAt
      <4> QED
        BY <1>t, <3>2, <4>1 DEF WindowAgrees
    <3>4. \A k \in DOMAIN calls' :
             k \in Nat /\ (k < i => k \in DOMAIN calls \/ calls'[k].call = "transition")
      BY <1>2, <2>1, <2>2, <3>1
    <3> QED
      BY <1>t, <1>2, <2>1, <2>2, <3>1, <3>2, <3>3, <3>4, PreparedTo
  <2>4. ShownUp'
    <3>1. \A k \in DOMAIN calls' : ~(Len(calls') < k)
      BY <1>2, <2>1, <2>2
    <3> QED
      BY <1>2, <2>1, <2>2, <3>1 DEF ShownUp
  <2>5. \A b \in BOOLEAN : ~ParkedAt(b)'
    BY <1>5 DEF Shows, ParkedAt
  <2> QED
    BY <1>2, <2>1, <2>2, <2>3, <2>4, <2>5 DEF WindowAgrees
<1> QED
    BY <1>1, <1>3, <1>4, <1>5 DEF Phases

-----------------------------------------------------------------------------
\* The page takes a call

TakesACall ==
    LET c == Head(calls)
    IN  /\ calls # <<>> /\ calls' = Tail(calls)
        /\ informed' =>
              \/ /\ c.call = "prepare" /\ ~visible'
                 /\ view' = IF c.settings THEN "settings" ELSE "main"
              \/ c.call = "shown" /\ visible'
              \/ c.call = "transition" /\ PageRests
              \/ c.call = "openSettings" /\ UNCHANGED <<visible, informed>>

LEMMA TakenPrepared ==
    ASSUME calls \in Seq(Calls), TakesACall,
           NEW n \in Nat, NEW m \in Nat, NEW b \in BOOLEAN, n = m + 1, m # 0, PreparedAt(n, b)
    PROVE  PreparedAt(m, b)'
<1>1. /\ calls' = Tail(calls) /\ Head(calls) = calls[1] /\ 1 \in DOMAIN calls
      /\ DOMAIN calls = 1..Len(calls) /\ Len(calls) \in Nat
      /\ \A i \in DOMAIN calls' : i \in Nat /\ i + 1 \in DOMAIN calls /\ calls'[i] = calls[i + 1]
      /\ \A i \in DOMAIN calls : i # 1 => i - 1 \in DOMAIN calls' /\ calls[i] = calls'[i - 1]
    BY Taken DEF TakesACall
<1>2. CASE \E j \in DOMAIN calls :
              /\ j < n /\ calls[j].call = "prepare" /\ calls[j].settings = b
              /\ \A k \in DOMAIN calls : j < k /\ k < n => calls[k].call = "transition"
  <2>1. PICK j \in DOMAIN calls :
            /\ j < n /\ calls[j].call = "prepare" /\ calls[j].settings = b
            /\ \A k \in DOMAIN calls : j < k /\ k < n => calls[k].call = "transition"
    BY <1>2
  <2>2. \A k \in DOMAIN calls' : j < k + 1 /\ k < m => calls'[k].call = "transition"
    BY <1>1, <2>1
  <2>3. CASE j = 1
    <3>1. \A k \in DOMAIN calls' : k < m => calls'[k].call = "transition"
      BY <1>1, <2>2, <2>3
    <3>2. informed' => ~visible' /\ view' = IF b THEN "settings" ELSE "main"
      BY <1>1, <2>1, <2>3 DEF TakesACall
    <3> QED
      BY <3>1, <3>2 DEF PreparedAt
  <2>4. CASE j # 1
    <3>1. PICK i \in Nat : i = j - 1
      BY <1>1, <2>4
    <3>2. /\ i \in DOMAIN calls' /\ i < m /\ calls'[i].call = "prepare" /\ calls'[i].settings = b
          /\ \A k \in DOMAIN calls' : i < k /\ k < m => calls'[k].call = "transition"
      BY <1>1, <2>1, <2>2, <2>4, <3>1
    <3> QED
      BY <3>2 DEF PreparedAt
  <2> QED
    BY <2>3, <2>4
<1>3. CASE /\ \A k \in DOMAIN calls : k < n => calls[k].call = "transition"
           /\ informed => ~visible /\ view = IF b THEN "settings" ELSE "main"
  <2>1. Head(calls).call = "transition"
    BY <1>1, <1>3
  <2>2. \A k \in DOMAIN calls' : k < m => calls'[k].call = "transition"
    BY <1>1, <1>3
  <2>3. informed' => ~visible' /\ view' = IF b THEN "settings" ELSE "main"
    BY <1>3, <2>1 DEF TakesACall, PageRests
  <2> QED
    BY <2>2, <2>3 DEF PreparedAt
<1> QED
    BY <1>2, <1>3 DEF PreparedAt

LEMMA TakenShown ==
    ASSUME calls \in Seq(Calls), TakesACall, ShownUp
    PROVE  ShownUp'
<1>1. /\ calls' = Tail(calls) /\ Head(calls) = calls[1] /\ 1 \in DOMAIN calls
      /\ DOMAIN calls = 1..Len(calls) /\ Len(calls) \in Nat
      /\ \A i \in DOMAIN calls' : i \in Nat /\ i + 1 \in DOMAIN calls /\ calls'[i] = calls[i + 1]
      /\ \A i \in DOMAIN calls : i # 1 => i - 1 \in DOMAIN calls' /\ calls[i] = calls'[i - 1]
    BY Taken DEF TakesACall
<1>2. CASE \E j \in DOMAIN calls :
              /\ calls[j].call = "shown"
              /\ \A k \in DOMAIN calls : j < k => calls[k].call # "prepare"
  <2>1. PICK j \in DOMAIN calls :
            /\ calls[j].call = "shown"
            /\ \A k \in DOMAIN calls : j < k => calls[k].call # "prepare"
    BY <1>2
  <2>2. \A k \in DOMAIN calls' : j < k + 1 => calls'[k].call # "prepare"
    BY <1>1, <2>1
  <2>3. CASE j = 1
    <3>1. \A k \in DOMAIN calls' : calls'[k].call # "prepare"
      <4>1. \A k \in DOMAIN calls' : j < k + 1
        BY <1>1, <2>3
      <4> QED
        BY <2>2, <4>1
    <3>2. informed' => visible'
      BY <1>1, <2>1, <2>3 DEF TakesACall
    <3> QED
      BY <3>1, <3>2 DEF ShownUp
  <2>4. CASE j # 1
    <3>1. PICK i \in Nat : i = j - 1
      BY <1>1, <2>4
    <3>2. /\ i \in DOMAIN calls' /\ calls'[i].call = "shown"
          /\ \A k \in DOMAIN calls' : i < k => calls'[k].call # "prepare"
      BY <1>1, <2>1, <2>2, <2>4, <3>1
    <3> QED
      BY <3>2 DEF ShownUp
  <2> QED
    BY <2>3, <2>4
<1>3. CASE /\ \A k \in DOMAIN calls : calls[k].call # "prepare"
           /\ informed => visible
  <2>1. \A k \in DOMAIN calls' : calls'[k].call # "prepare"
    BY <1>1, <1>3
  <2>2. Head(calls).call # "prepare"
    BY <1>1, <1>3
  <2>3. informed' => visible'
    BY <1>3, <2>2 DEF TakesACall, PageRests
  <2> QED
    BY <2>1, <2>3 DEF ShownUp
<1> QED
    BY <1>2, <1>3 DEF ShownUp

LEMMA TakingKeepsAgreement ==
    ASSUME PageInv, TakesACall, UNCHANGED <<phase, pending>>
    PROVE  calls' \in Seq(Calls) /\ WindowAgrees' /\ ShowsAgree'
<1>t. calls \in Seq(Calls) /\ WindowAgrees /\ ShowsAgree
    BY DEF PageInv, PageTypeOK, PageTypes
<1>1. /\ calls' \in Seq(Calls) /\ Len(calls') \in Nat /\ Len(calls) = Len(calls') + 1
      /\ \A i \in DOMAIN calls' : i \in Nat /\ i # 0 /\ i + 1 \in DOMAIN calls /\ calls'[i] = calls[i + 1]
    BY <1>t, Taken DEF TakesACall
<1>2. ASSUME NEW i \in DOMAIN calls', NEW b \in BOOLEAN,
             calls'[i].call = "shown", calls'[i].view # "null", b = (calls'[i].view = "settings")
      PROVE  PreparedAt(i, b)'
  <2>1. PICK n \in Nat : n = i + 1
    BY <1>1
  <2>2. n \in DOMAIN calls /\ calls[n] = calls'[i]
    BY <1>1, <2>1
  <2>3. PreparedAt(n, b)
    BY <1>t, <1>2, <2>2 DEF ShowsAgree
  <2> QED
    BY <1>t, <1>1, <2>1, <2>3, TakenPrepared
<1>3. ASSUME NEW m \in Nat, NEW b \in BOOLEAN, m = Len(calls') + 1, ParkedAt(b)'
      PROVE  PreparedAt(m, b)'
  <2>1. ParkedAt(b)
    BY <1>3 DEF ParkedAt
  <2>2. PICK n \in Nat : n = m + 1
    OBVIOUS
  <2>3. PreparedAt(n, b)
    BY <1>t, <1>1, <1>3, <2>1, <2>2 DEF WindowAgrees
  <2> QED
    BY <1>t, <1>1, <1>3, <2>2, <2>3, TakenPrepared
<1>4. phase' = "visible" => ShownUp'
    BY <1>t, TakenShown DEF WindowAgrees
<1> QED
    BY <1>1, <1>2, <1>3, <1>4 DEF WindowAgrees, ShowsAgree

\* A step of the page that takes no call.
LEMMA StayingKeepsAgreement ==
    ASSUME PageInv, UNCHANGED <<phase, pending, calls>>,
           informed' => informed /\ visible' = visible /\ (~visible => view' = view)
    PROVE  WindowAgrees' /\ ShowsAgree'
<1>1. ASSUME NEW n, NEW b \in BOOLEAN, PreparedAt(n, b) PROVE PreparedAt(n, b)'
    BY <1>1 DEF PreparedAt
<1>2. ShownUp => ShownUp'
    BY DEF ShownUp
<1>3. \A b \in BOOLEAN : ParkedAt(b)' => ParkedAt(b)
    BY DEF ParkedAt
<1>4. WindowAgrees /\ ShowsAgree
    BY DEF PageInv
<1>5. ShowsAgree'
    BY <1>1, <1>4 DEF ShowsAgree
<1>6. WindowAgrees'
    BY <1>1, <1>2, <1>3, <1>4 DEF WindowAgrees
<1> QED
    BY <1>5, <1>6

-----------------------------------------------------------------------------
\* Types of the window

LEMMA InboxTaken ==
    ASSUME WindowTypes, NEW post, Takes(post)
    PROVE  inbox' \in Seq(AnyPost) /\ Head(inbox) \in AnyPost /\ Head(inbox).post = post
    BY Taken DEF WindowTypes, Takes

LEMMA InboxAdded ==
    ASSUME WindowTypes, NEW m \in AnyPost, inbox' = Append(inbox, m)
    PROVE  inbox' \in Seq(AnyPost)
    BY DEF WindowTypes

LEMMA NewSlide ==
    ASSUME NEW g \in Nat, NEW b \in BOOLEAN, NEW to \in Sizes \cup {Away}
    PROVE  Slide(g, b, to) \in Gliding /\ Slide(g, b, to).generation = g
    BY DEF Slide, Gliding

\* A slide that goes on.
GoesOn(s, s2) == s2 \in Gliding /\ s2.generation = s.generation

LEMMA SlideGoes ==
    ASSUME NEW s \in Gliding
    PROVE  /\ s.generation \in Nat
           /\ \A at \in {"check", "move", "end"} : GoesOn(s, [s EXCEPT !.at = at])
           /\ GoesOn(s, [s EXCEPT !.at = "check", !.step = @ + 1])
<1>1. s.generation \in Nat
    BY DEF Gliding
<1>2. \A at \in {"check", "move", "end"} : GoesOn(s, [s EXCEPT !.at = at])
    BY DEF Gliding, GoesOn
<1>3. GoesOn(s, [s EXCEPT !.at = "check", !.step = @ + 1])
  <2> DEFINE t == [s EXCEPT !.at = "check", !.step = @ + 1]
  <2>1. s.step + 1 \in Nat
    BY DEF Gliding
  <2>2. t \in Gliding /\ t.generation = s.generation
    BY <2>1 DEF Gliding
  <2> QED
    BY <2>2 DEF GoesOn
<1> QED
    BY <1>1, <1>2, <1>3

LEMMA SlideInTypes ==
    ASSUME WindowTypes, NEW v, NEW h \in Sizes, SlideIn(v, h),
           timer' \in Nat, inbox' \in Seq(AnyPost)
    PROVE  WindowTypes'
<1>1. generation + 1 \in Nat
    BY DEF WindowTypes
<1>2. Slide(generation + 1, FALSE, h) \in Gliding
    BY <1>1, NewSlide
<1>3. slides' \subseteq Gliding
    BY <1>2 DEF SlideIn, WindowTypes
<1> QED
    BY <1>1, <1>3 DEF SlideIn, WindowTypes, Requests

LEMMA BeginTypes ==
    ASSUME WindowTypes, NEW r \in Requests, BeginPreparation(r)
    PROVE  phase' = "preparing" /\ pending' \in Requests /\ prepId' \in Nat /\ timer' \in Nat
    BY DEF WindowTypes, BeginPreparation

LEMMA FinishTypes ==
    ASSUME WindowTypes, NEW h \in Sizes, FinishPreparation(h), inbox' \in Seq(AnyPost)
    PROVE  WindowTypes'
<1>1. CASE SlideIn(IF pending = "settings" THEN "settings" ELSE "main", h)
    BY <1>1, SlideInTypes DEF FinishPreparation
<1>2. CASE /\ phase' = "parked" /\ size' = h
           /\ UNCHANGED <<pending, prepId, generation, cancelled, place, slides, blind>>
    BY <1>2 DEF FinishPreparation, WindowTypes
<1> QED
    BY <1>1, <1>2 DEF FinishPreparation

LEMMA UserTypes == WindowTypes /\ UserAsks => WindowTypes'
<1> SUFFICES ASSUME WindowTypes, UserAsks PROVE WindowTypes'
    OBVIOUS
<1>1. CASE Show
    BY <1>1, SlideInTypes DEF Show, WindowTypes
<1>2. CASE ShowSettingsOfVisible
    BY <1>2 DEF ShowSettingsOfVisible, cycle, window, WindowTypes
<1>3. CASE ShowSettings
    BY <1>3, BeginTypes DEF ShowSettings, window, WindowTypes, Requests
<1>4. CASE Hide
  <2>1. generation + 1 \in Nat
    BY DEF WindowTypes
  <2>2. CASE /\ phase' = "hiding" /\ pending' = "none"
             /\ slides' = slides \cup {Slide(generation + 1, TRUE, Away)}
             /\ UNCHANGED <<prepId, timer, place, blind>>
    <3>1. Slide(generation + 1, TRUE, Away) \in Gliding
      BY <2>1, NewSlide
    <3>2. slides' \subseteq Gliding
      BY <2>2, <3>1 DEF WindowTypes
    <3> QED
      BY <1>4, <2>1, <2>2, <3>2 DEF Hide, WindowTypes, Requests
  <2>3. CASE BeginPreparation("none") /\ UNCHANGED slides
    BY <1>4, <2>1, <2>3, BeginTypes DEF Hide, WindowTypes, Requests
  <2> QED
    BY <1>4, <2>2, <2>3 DEF Hide
<1>5. ASSUME NEW want \in {"show", "settings"}, ShowLater(want) PROVE WindowTypes'
    BY <1>5 DEF ShowLater, Stronger, window, WindowTypes, Requests
<1> QED
    BY <1>1, <1>2, <1>3, <1>4, <1>5 DEF UserAsks

LEMMA ThreadTypes == WindowTypes /\ UIThread => WindowTypes'
<1> SUFFICES ASSUME WindowTypes, UIThread PROVE WindowTypes'
    OBVIOUS
<1>1. CASE SlideEnded
  <2>1. inbox' \in Seq(AnyPost)
    BY <1>1, InboxTaken DEF SlideEnded
  <2>2. CASE UNCHANGED cycle
    BY <1>1, <2>1, <2>2 DEF SlideEnded, cycle, window, WindowTypes
  <2>3. CASE BeginPreparation(pending) /\ UNCHANGED generation
    BY <1>1, <2>1, <2>3, BeginTypes DEF SlideEnded, window, WindowTypes
  <2> QED
    BY <1>1, <2>2, <2>3 DEF SlideEnded
<1>2. CASE ResizeToContent
  <2>1. inbox' \in Seq(AnyPost) /\ Head(inbox).height \in Sizes
    BY <1>2, InboxTaken, PostTypes DEF ResizeToContent
  <2> QED
    BY <1>2, <2>1 DEF ResizeToContent, cycle, WindowTypes
<1>3. CASE CompletePreparation
  <2>1. inbox' \in Seq(AnyPost) /\ Head(inbox).height \in Sizes
    BY <1>3, InboxTaken, PostTypes DEF CompletePreparation
  <2>2. CASE FinishPreparation(Head(inbox).height)
    BY <2>1, <2>2, FinishTypes
  <2>3. CASE UNCHANGED cycle /\ UNCHANGED slides /\ size' \in {size, Head(inbox).height}
    BY <2>1, <2>3 DEF cycle, WindowTypes
  <2> QED
    BY <1>3, <2>2, <2>3 DEF CompletePreparation, window
<1>4. CASE ExpirePreparation
  <2>1. inbox' \in Seq(AnyPost) /\ size \in Sizes
    BY <1>4, InboxTaken DEF ExpirePreparation, WindowTypes
  <2>2. CASE FinishPreparation(size)
    BY <2>1, <2>2, FinishTypes
  <2>3. CASE UNCHANGED cycle /\ UNCHANGED window
    BY <2>1, <2>3 DEF cycle, window, WindowTypes
  <2> QED
    BY <1>4, <2>2, <2>3 DEF ExpirePreparation
<1> QED
    BY <1>1, <1>2, <1>3, <1>4 DEF UIThread

LEMMA TimerTypes == WindowTypes /\ TimerFires => WindowTypes'
<1> SUFFICES ASSUME WindowTypes, TimerFires PROVE WindowTypes'
    OBVIOUS
<1>1. Expired(timer) \in AnyPost
    BY PostTypes DEF WindowTypes
<1>2. inbox' \in Seq(AnyPost)
    BY <1>1, InboxAdded DEF TimerFires
<1> QED
    BY <1>2 DEF TimerFires, window, WindowTypes

\* A slide goes on, or is gone.
LEMMA SlideSteps ==
    ASSUME NEW s \in slides, slides \subseteq Gliding,
           StartSlide(s) \/ CheckSlide(s) \/ MoveWindow(s) \/ EndSlide(s)
    PROVE  \/ inbox' = inbox /\ slides' = slides \ {s}
           \/ inbox' = inbox /\ \E s2 : GoesOn(s, s2) /\ slides' = (slides \ {s}) \cup {s2}
           \/ inbox' = Append(inbox, Ended(s)) /\ slides' = slides \ {s}
<1>1. CASE StartSlide(s)
    BY <1>1, SlideGoes DEF StartSlide, Goes
<1>2. CASE CheckSlide(s)
  <2>1. CASE Goes(s, [s EXCEPT !.at = IF Over(s) THEN "end" ELSE "move"])
    <3>1. CASE Over(s)
      BY <1>2, <2>1, <3>1, SlideGoes DEF CheckSlide, Goes
    <3>2. CASE ~Over(s)
      BY <1>2, <2>1, <3>2, SlideGoes DEF CheckSlide, Goes
    <3> QED
      BY <3>1, <3>2
  <2> QED
    BY <1>2, <2>1 DEF CheckSlide
<1>3. CASE MoveWindow(s)
    BY <1>3, SlideGoes DEF MoveWindow, Goes
<1>4. CASE EndSlide(s)
    BY <1>4 DEF EndSlide
<1> QED
    BY <1>1, <1>2, <1>3, <1>4

LEMMA AnimateTypes == WindowTypes /\ Animate => WindowTypes'
<1> SUFFICES ASSUME WindowTypes, NEW s \in slides,
                    StartSlide(s) \/ CheckSlide(s) \/ MoveWindow(s) \/ EndSlide(s)
             PROVE  WindowTypes'
    BY DEF Animate
<1>1. s \in Gliding /\ slides \subseteq Gliding
    BY DEF WindowTypes
<1>2. slides' \subseteq Gliding /\ inbox' \in Seq(AnyPost)
  <2>1. CASE inbox' = inbox /\ slides' = slides \ {s}
    BY <2>1 DEF WindowTypes
  <2>2. CASE inbox' = inbox /\ \E s2 : GoesOn(s, s2) /\ slides' = (slides \ {s}) \cup {s2}
    BY <2>2 DEF WindowTypes, GoesOn
  <2>3. CASE inbox' = Append(inbox, Ended(s)) /\ slides' = slides \ {s}
    <3>1. Ended(s) \in AnyPost
      BY <1>1, PostTypes
    <3> QED
      BY <2>3, <3>1, InboxAdded DEF WindowTypes
  <2> QED
    BY <1>1, <2>1, <2>2, <2>3, SlideSteps
<1>3. UNCHANGED <<cycle, size>>
    BY DEF StartSlide, CheckSlide, MoveWindow, EndSlide
<1> QED
    BY <1>2, <1>3 DEF cycle, WindowTypes

LEMMA MacTypes == WindowTypes /\ startupRequest \in Requests /\ MacStep => WindowTypes'
<1> SUFFICES ASSUME WindowTypes, startupRequest \in Requests, MacStep PROVE WindowTypes'
    OBVIOUS
<1>g. generation + 1 \in Nat /\ inbox \in Seq(AnyPost)
    BY DEF WindowTypes
<1>1. ASSUME NEW want \in Requests, RequestWindow(want), inbox' \in Seq(AnyPost) PROVE WindowTypes'
  <2>1. CASE Prepares(want) /\ UNCHANGED generation
    BY <1>1, <2>1, BeginTypes DEF RequestWindow, Prepares, NoSlides, WindowTypes
  <2>2. CASE BringUp(want) /\ UNCHANGED timer
    BY <1>1, <1>g, <2>2 DEF RequestWindow, BringUp, NoSlides, WindowTypes, Requests
  <2>3. CASE UNCHANGED <<phase, pending, prepId, timer>> /\ generation' \in {generation, generation + 1}
    BY <1>1, <1>g, <2>3 DEF RequestWindow, NoSlides, WindowTypes
  <2>4. CASE pending' = Stronger(want, pending) /\ UNCHANGED <<phase, prepId, timer, generation>>
    BY <1>1, <2>4 DEF RequestWindow, Stronger, NoSlides, WindowTypes, Requests
  <2> QED
    BY <1>1, <2>1, <2>2, <2>3, <2>4 DEF RequestWindow, cycle
<1>2. ASSUME HideWindow, UNCHANGED inbox PROVE WindowTypes'
    BY <1>2, <1>g, BeginTypes DEF HideWindow, Prepares, NoSlides, WindowTypes, Requests
<1>3. ASSUME NEW want \in {"show", "settings"}, UserRequest(want) PROVE WindowTypes'
  <2>1. CASE RequestWindow(want)
    BY <1>1, <1>3, <1>g, <2>1 DEF UserRequest, Requests
  <2>2. CASE WindowRests
    BY <1>3, <2>2 DEF UserRequest, WindowRests, NoSlides, cycle, WindowTypes
  <2> QED
    BY <1>3, <2>1, <2>2 DEF UserRequest
<1>4. ASSUME FinishMac \/ UNCHANGED cycle, size' \in Sizes, NoSlides, inbox' \in Seq(AnyPost)
      PROVE  WindowTypes'
    BY <1>4, <1>g DEF FinishMac, BringUp, NoSlides, cycle, WindowTypes, Requests
<1>5. CASE MacPrepared
  <2>1. inbox' \in Seq(AnyPost) /\ Head(inbox).height \in Sizes
    BY <1>5, InboxTaken, PostTypes DEF MacPrepared
  <2> QED
    BY <1>4, <1>5, <2>1 DEF MacPrepared, WindowTypes
<1>6. CASE MacExpires
  <2>1. inbox' \in Seq(AnyPost)
    BY <1>6, InboxTaken DEF MacExpires
  <2> QED
    BY <1>4, <1>6, <2>1 DEF MacExpires, WindowTypes
<1>7. CASE MacResize
  <2>1. inbox' \in Seq(AnyPost) /\ Head(inbox).height \in Sizes
    BY <1>7, InboxTaken, PostTypes DEF MacResize
  <2> QED
    BY <1>4, <1>7, <2>1 DEF MacResize, WindowTypes
<1>8. ASSUME NotifyReady PROVE WindowTypes'
  <2>1. inbox' \in Seq(AnyPost)
    BY <1>8, InboxTaken DEF NotifyReady
  <2> QED
    BY <1>1, <1>8, <2>1 DEF NotifyReady, WindowRests, NoSlides, cycle, WindowTypes
<1> QED
    BY <1>2, <1>3, <1>5, <1>6, <1>7, <1>8, TimerTypes DEF MacStep, UserToggle, ResignActive

-----------------------------------------------------------------------------
\* Every step keeps the invariant
LEMMA StartupTypes == startupRequest \in Requests /\ MacStep => startupRequest' \in Requests
    BY DEF MacStep, UserRequest, UserToggle, ResignActive, MacPrepared, MacExpires, MacResize,
           NotifyReady, startup, Stronger, Requests

LEMMA WindowKeepsInv == PageInv /\ WindowStep => PageInv'
<1> SUFFICES ASSUME PageInv, WindowStep PROVE PageInv'
    OBVIOUS
<1>1. WindowTypes /\ startupRequest \in Requests
    BY DEF PageInv, PageTypeOK, PageTypes
<1>2. (GoStep /\ UNCHANGED startup) \/ MacStep
    BY DEF WindowStep
<1>3. Phases
    BY <1>1, <1>2, GoPhases, MacPhases
<1>4. WindowTypes'
    BY <1>1, <1>2, UserTypes, ThreadTypes, AnimateTypes, TimerTypes, MacTypes DEF GoStep
<1>5. startupRequest' \in Requests
    BY <1>1, <1>2, StartupTypes DEF startup
<1>6. /\ calls' = calls \o said'
      /\ UNCHANGED <<loaded, visible, view, modal, prep, answering, shield, shieldGen, informed>>
    BY DEF WindowStep, loading, shown, preparing, shielding
<1>7. PageRests
    BY <1>6 DEF PageRests
<1>8. calls' \in Seq(Calls) /\ WindowAgrees' /\ ShowsAgree'
    BY <1>3, <1>6, <1>7, WindowKeepsAgreement
<1>9. PageTypes' /\ PageIsSound'
    BY <1>5, <1>6, <1>8 DEF PageInv, PageTypeOK, PageTypes, PageIsSound
<1> QED
    BY <1>4, <1>8, <1>9 DEF PageInv, PageTypeOK

\* A step of the page leaves the window's types, and the phase, alone.
LEMMA PageStepTypes ==
    ASSUME PageInv, NEW posts \in Seq(AnyPost), PageStep(posts)
    PROVE  WindowTypes' /\ startupRequest' \in Requests /\ UNCHANGED <<phase, pending>>
<1>1. WindowTypes /\ startupRequest \in Requests
    BY DEF PageInv, PageTypeOK, PageTypes
<1>2. inbox' \in Seq(AnyPost)
    BY <1>1 DEF PageStep, WindowTypes
<1> QED
    BY <1>1, <1>2 DEF PageStep, cycle, window, startup, WindowTypes

LEMMA TakesKeepInv ==
    ASSUME PageInv, PageStep(<<>>), TakesACall,
           loaded' = loaded /\ visible' \in BOOLEAN /\ view' \in Views /\ modal' \in BOOLEAN,
           prep' \in Nat /\ answering' \in BOOLEAN /\ shield' \in BOOLEAN /\ shieldGen' \in Nat,
           informed' \in BOOLEAN, PageIsSound'
    PROVE  PageInv'
<1>1. WindowTypes' /\ startupRequest' \in Requests /\ UNCHANGED <<phase, pending>>
  <2>1. <<>> \in Seq(AnyPost)
    OBVIOUS
  <2> QED
    BY <2>1, PageStepTypes
<1>2. calls' \in Seq(Calls) /\ WindowAgrees' /\ ShowsAgree'
    BY <1>1, TakingKeepsAgreement
<1>3. loaded' \in BOOLEAN
    BY DEF PageInv, PageTypeOK, PageTypes
<1> QED
    BY <1>1, <1>2, <1>3 DEF PageInv, PageTypeOK, PageTypes

LEMMA TakingKeepsInv == PageInv /\ PageTakes => PageInv'
<1> SUFFICES ASSUME PageInv, PageTakes PROVE PageInv'
    OBVIOUS
<1>t. /\ calls \in Seq(Calls) /\ loaded \in BOOLEAN /\ visible \in BOOLEAN /\ view \in Views
      /\ modal \in BOOLEAN /\ prep \in Nat /\ answering \in BOOLEAN /\ shield \in BOOLEAN
      /\ shieldGen \in Nat /\ informed \in BOOLEAN /\ PageIsSound
    BY DEF PageInv, PageTypeOK, PageTypes
<1>h. calls # <<>> => Head(calls) \in Calls
    BY <1>t, Taken
<1>1. CASE CallIsLost
  <2>1. /\ UNCHANGED <<loaded, visible, view, modal, prep, answering, shield, shieldGen, informed>>
        /\ calls # <<>> /\ calls' = Tail(calls) /\ PageStep(<<>>) /\ ~loaded
    BY <1>1 DEF CallIsLost, loading, shown, preparing, shielding
  <2>2. ~informed' /\ PageIsSound'
    BY <1>t, <2>1 DEF PageIsSound
  <2>3. TakesACall
    BY <2>1, <2>2 DEF TakesACall
  <2> QED
    BY <1>t, <2>1, <2>2, <2>3, TakesKeepInv
<1>2. ASSUME NEW c, Called(c)
      PROVE  /\ calls # <<>> /\ calls' = Tail(calls) /\ Head(calls).call = c
             /\ PageStep(<<>>) /\ loaded /\ loaded' = loaded
    BY <1>2 DEF Called, loading
<1>3. CASE OnWindowShown
  <2>1. /\ Called("shown") /\ visible' = TRUE
        /\ UNCHANGED <<modal, prep, answering, shield, shieldGen, informed>>
        /\ view' = IF modal \/ Head(calls).view = "null" THEN view ELSE Head(calls).view
    BY <1>3 DEF OnWindowShown, preparing, shielding
  <2>2. Head(calls).view \in Views \cup {"null"}
    BY <1>2, <1>h, <2>1, CallTypes
  <2>3. view' \in Views /\ PageIsSound'
    BY <1>t, <1>2, <2>1, <2>2 DEF PageIsSound
  <2>4. TakesACall
    BY <1>2, <2>1 DEF TakesACall
  <2> QED
    BY <1>t, <1>2, <2>1, <2>3, <2>4, TakesKeepInv
<1>4. CASE OnWindowHidden
  <2>1. /\ Called("prepare") /\ prep' = Head(calls).id /\ visible' = FALSE
        /\ view' = IF Head(calls).settings THEN "settings" ELSE IF modal THEN view ELSE "main"
        /\ modal' = (modal /\ ~Head(calls).settings)
        /\ answering' = TRUE /\ informed' = TRUE
        /\ UNCHANGED <<shield, shieldGen>>
    BY <1>4 DEF OnWindowHidden, shielding
  <2>2. Head(calls).id \in Nat /\ Head(calls).settings \in BOOLEAN
    <3>1. Head(calls) \in Calls /\ Head(calls).call = "prepare"
      BY <1>2, <1>h, <2>1
    <3> QED
      BY <3>1, CallTypes
  <2>3. /\ view' = IF Head(calls).settings THEN "settings" ELSE "main"
        /\ view' \in Views /\ modal' \in BOOLEAN /\ PageIsSound'
    BY <1>t, <1>2, <2>1, <2>2 DEF PageIsSound, Views
  <2>4. TakesACall
    BY <1>2, <2>1, <2>3 DEF TakesACall
  <2> QED
    BY <1>t, <1>2, <2>1, <2>2, <2>3, <2>4, TakesKeepInv
<1>5. CASE OnOpenSettings
  <2>1. /\ Called("openSettings") /\ view' = "settings" /\ modal' = FALSE
        /\ UNCHANGED <<visible, prep, answering, shield, shieldGen, informed>>
    BY <1>5 DEF OnOpenSettings, preparing, shielding
  <2>2. view' \in Views /\ PageIsSound'
    BY <1>t, <1>2, <2>1 DEF PageIsSound, Views
  <2>3. TakesACall
    BY <1>2, <2>1 DEF TakesACall
  <2> QED
    BY <1>t, <1>2, <2>1, <2>2, <2>3, TakesKeepInv
<1>6. CASE OnWindowTransition
  <2>1. /\ Called("transition")
        /\ shieldGen' \in {shieldGen, Head(calls).generation}
        /\ shield' \in {shield, Head(calls).active}
        /\ UNCHANGED <<visible, view, modal, prep, answering, informed>>
    BY <1>6 DEF OnWindowTransition, shown, preparing
  <2>2. Head(calls).active \in BOOLEAN /\ Head(calls).generation \in Nat
    <3>1. Head(calls) \in Calls /\ Head(calls).call = "transition"
      BY <1>2, <1>h, <2>1
    <3> QED
      BY <3>1, CallTypes
  <2>3. PageIsSound'
    BY <1>t, <1>2, <2>1 DEF PageIsSound
  <2>4. TakesACall
    BY <1>2, <2>1 DEF TakesACall, PageRests
  <2>5. shield' \in BOOLEAN /\ shieldGen' \in Nat
    BY <1>t, <2>1, <2>2
  <2> QED
    BY <1>t, <1>2, <2>1, <2>3, <2>4, <2>5, TakesKeepInv
<1> QED
    BY <1>1, <1>3, <1>4, <1>5, <1>6 DEF PageTakes

LEMMA StaysKeepInv ==
    ASSUME PageInv, NEW posts \in Seq(AnyPost), PageStep(posts), UNCHANGED calls,
           informed' => informed /\ visible' = visible /\ (~visible => view' = view),
           loaded' \in BOOLEAN /\ visible' \in BOOLEAN /\ view' \in Views /\ modal' \in BOOLEAN,
           prep' \in Nat /\ answering' \in BOOLEAN /\ shield' \in BOOLEAN /\ shieldGen' \in Nat,
           informed' \in BOOLEAN, PageIsSound'
    PROVE  PageInv'
<1>1. WindowTypes' /\ startupRequest' \in Requests /\ UNCHANGED <<phase, pending>>
    BY PageStepTypes
<1>2. WindowAgrees' /\ ShowsAgree'
    BY <1>1, StayingKeepsAgreement
<1>3. calls' \in Seq(Calls)
    BY DEF PageInv, PageTypeOK, PageTypes
<1> QED
    BY <1>1, <1>2, <1>3 DEF PageInv, PageTypeOK, PageTypes

LEMMA StayingKeepsInv ==
    PageInv /\ (Loads \/ Reports \/ Unloads \/ Watchdog \/ Answers \/ Turns) => PageInv'
<1> SUFFICES ASSUME PageInv, Loads \/ Reports \/ Unloads \/ Watchdog \/ Answers \/ Turns
             PROVE  PageInv'
    OBVIOUS
<1>t. /\ calls \in Seq(Calls) /\ loaded \in BOOLEAN /\ visible \in BOOLEAN /\ view \in Views
      /\ modal \in BOOLEAN /\ prep \in Nat /\ answering \in BOOLEAN /\ shield \in BOOLEAN
      /\ shieldGen \in Nat /\ informed \in BOOLEAN /\ PageIsSound
    BY DEF PageInv, PageTypeOK, PageTypes
<1>p. <<>> \in Seq(AnyPost) /\ <<Ready>> \in Seq(AnyPost)
      /\ \A h \in Sizes : <<Prepared(prep, h)>> \in Seq(AnyPost)
  <2>1. Ready \in AnyPost /\ \A h \in Sizes : Prepared(prep, h) \in AnyPost
    BY <1>t, PostTypes
  <2> QED
    BY <2>1
<1>1. CASE Loads
  <2>1. /\ PageStep(<<>>) /\ loaded' = TRUE
        /\ UNCHANGED <<calls, visible, view, modal, prep, answering, shield, shieldGen, informed>>
    BY <1>1 DEF Loads, shown, preparing, shielding
  <2>2. PageIsSound'
    BY <1>t, <2>1 DEF PageIsSound
  <2> QED
    BY <1>t, <1>p, <2>1, <2>2, StaysKeepInv
<1>2. CASE Reports
  <2>1. /\ PageStep(<<Ready>>)
        /\ UNCHANGED <<loaded, calls, visible, view, modal, prep, answering, shield, shieldGen, informed>>
    BY <1>2 DEF Reports, shown, preparing, shielding
  <2>2. PageIsSound'
    BY <1>t, <2>1 DEF PageIsSound
  <2> QED
    BY <1>t, <1>p, <2>1, <2>2, StaysKeepInv
<1>3. CASE Unloads
  <2>1. /\ PageStep(<<>>) /\ loaded' = FALSE /\ visible' = TRUE /\ view' = "main" /\ modal' = FALSE
        /\ prep' = 0 /\ answering' = FALSE /\ shield' = FALSE /\ shieldGen' = 0 /\ informed' = FALSE
        /\ UNCHANGED calls
    BY <1>3 DEF Unloads
  <2>2. PageIsSound' /\ view' \in Views
    BY <2>1 DEF PageIsSound, Views
  <2> QED
    BY <1>p, <2>1, <2>2, StaysKeepInv
<1>4. CASE Watchdog
  <2>1. /\ PageStep(<<>>) /\ shield' = FALSE
        /\ UNCHANGED <<loaded, calls, visible, view, modal, prep, answering, shieldGen, informed>>
    BY <1>4 DEF Watchdog, loading, shown, preparing
  <2>2. PageIsSound'
    BY <1>t, <2>1 DEF PageIsSound
  <2> QED
    BY <1>t, <1>p, <2>1, <2>2, StaysKeepInv
<1>5. CASE Answers
  <2>1. PICK h \in Sizes : PageStep(<<Prepared(prep, h)>>)
    BY <1>5 DEF Answers
  <2>2. /\ answering' = FALSE
        /\ UNCHANGED <<loaded, calls, visible, view, modal, prep, shield, shieldGen, informed>>
    BY <1>5 DEF Answers, loading, shown, shielding
  <2>3. PageIsSound'
    BY <1>t, <2>2 DEF PageIsSound
  <2> QED
    BY <1>t, <1>p, <2>1, <2>2, <2>3, StaysKeepInv
<1>6. CASE Turns
  <2>1. /\ PageStep(<<>>)
        /\ UNCHANGED <<loaded, calls, visible, prep, answering, shield, shieldGen, informed>>
        /\ view' \in Views /\ modal' \in BOOLEAN /\ (~visible => view' = view)
        /\ modal' => view' = "main"
    <3>1. CASE visible /\ ~modal /\ view' \in Views /\ UNCHANGED modal
      BY <1>t, <1>6, <3>1 DEF Turns, loading, preparing, shielding
    <3>2. CASE visible /\ view = "main" /\ modal' = TRUE /\ UNCHANGED view
      BY <1>t, <1>6, <3>2 DEF Turns, loading, preparing, shielding
    <3>3. CASE modal' = FALSE /\ UNCHANGED view
      BY <1>t, <1>6, <3>3 DEF Turns, loading, preparing, shielding
    <3> QED
      BY <1>6, <3>1, <3>2, <3>3 DEF Turns
  <2>2. PageIsSound'
    BY <1>t, <2>1 DEF PageIsSound
  <2> QED
    BY <1>t, <1>p, <2>1, <2>2, StaysKeepInv
<1> QED
    BY <1>1, <1>2, <1>3, <1>4, <1>5, <1>6

\* The types, and that the page will be what the window thinks it is: always.
THEOREM PageInvariant == PageSpec => []PageInv
<1>1. PageInit => PageInv
  <2> SUFFICES ASSUME PageInit PROVE PageInv
    OBVIOUS
  <2>1. WindowTypes
    BY WindowAssumption DEF PageInit, Init, WindowTypes, Requests
  <2>2. PageTypes
    <3>1. <<>> \in Seq(Calls)
      OBVIOUS
    <3>2. calls \in Seq(Calls)
      BY <3>1 DEF PageInit
    <3> QED
      BY <3>2 DEF PageInit, MacInit, PageTypes, Views, Requests
  <2>3. WindowAgrees /\ ShowsAgree /\ PageIsSound
    BY DEF PageInit, Init, WindowAgrees, ShowsAgree, ParkedAt, PreparedAt, PageIsSound
  <2> QED
    BY <2>1, <2>2, <2>3 DEF PageInv, PageTypeOK
<1>2. PageInv /\ [PageNext]_vars => PageInv'
  <2> SUFFICES ASSUME PageInv, [PageNext]_vars PROVE PageInv'
    OBVIOUS
  <2>1. CASE PageNext
    BY <2>1, WindowKeepsInv, TakingKeepsInv, StayingKeepsInv DEF PageNext
  <2>2. CASE UNCHANGED vars
    <3>1. WindowTypes' /\ PageTypes' /\ PageIsSound'
      BY <2>2 DEF vars, goVars, cycle, window, startup, pageVars, loading, shown, preparing, shielding,
                  PageInv, PageTypeOK, WindowTypes, PageTypes, PageIsSound
    <3>2. UNCHANGED <<phase, pending, calls, informed, visible, view>>
      BY <2>2 DEF vars, goVars, cycle, pageVars, shown
    <3> QED
      BY <3>1, <3>2, StayingKeepsAgreement DEF PageInv, PageTypeOK
  <2> QED
    BY <2>1, <2>2
<1> QED
    BY <1>1, <1>2, PTL DEF PageSpec

\* What is shown was prepared off-screen (comment of showSettings): when the
\* page is told which view it is shown with, it is at that view already.
THEOREM ShownAsPreparedHolds == PageSpec => []ShownAsPrepared
<1>1. PageInv => ShownAsPrepared
  <2> SUFFICES ASSUME PageInv, calls # <<>>, Head(calls).call = "shown", informed,
                      Head(calls).view # "null"
               PROVE  Head(calls).view = view
    BY DEF ShownAsPrepared
  <2>1. /\ calls \in Seq(Calls) /\ Head(calls) = calls[1] /\ 1 \in DOMAIN calls
        /\ \A k \in DOMAIN calls : k >= 1
        /\ Head(calls).view \in Views \cup {"null"}
    <3>1. calls \in Seq(Calls)
      BY DEF PageInv, PageTypeOK, PageTypes
    <3>2. /\ Head(calls) \in Calls /\ Head(calls) = calls[1] /\ 1 \in DOMAIN calls
          /\ \A k \in DOMAIN calls : k >= 1
      BY <3>1, Taken
    <3> QED
      BY <3>1, <3>2, CallTypes
  <2>2. PICK b \in BOOLEAN : b = (calls[1].view = "settings")
    OBVIOUS
  <2>3. PreparedAt(1, b)
    <3>1. calls[1].call = "shown" /\ calls[1].view # "null" /\ ShowsAgree
      BY <2>1 DEF PageInv
    <3> QED
      BY <2>1, <2>2, <3>1 DEF ShowsAgree
  <2>4. view = IF b THEN "settings" ELSE "main"
    BY <2>1, <2>3 DEF PreparedAt
  <2> QED
    BY <2>1, <2>2, <2>4 DEF Views
<1> QED
    BY <1>1, PageInvariant, PTL

\* A page that has taken every call takes keys exactly while the window is up
\* (App.svelte, ignoreKeysWhileParked); one that has lost calls may take them
\* too long, but is never deaf.
THEOREM KeysFollowWindowHolds == PageSpec => []KeysFollowWindow
<1>1. PageInv => KeysFollowWindow
  <2> SUFFICES ASSUME PageInv, calls = <<>>
               PROVE  /\ phase = "visible" => visible
                      /\ informed /\ phase \in {"parked", "preparing"} => ~visible
    BY DEF KeysFollowWindow
  <2>1. DOMAIN calls = {} /\ Len(calls) = 0
    OBVIOUS
  <2>2. WindowAgrees /\ PageIsSound
    BY DEF PageInv
  <2>3. CASE phase = "visible"
    BY <2>1, <2>2, <2>3 DEF WindowAgrees, ShownUp, PageIsSound
  <2>4. CASE informed /\ phase \in {"parked", "preparing"}
    <3>1. PICK b \in BOOLEAN : ParkedAt(b)
      BY <2>4 DEF ParkedAt
    <3>2. PreparedAt(1, b)
      BY <2>1, <2>2, <3>1 DEF WindowAgrees
    <3> QED
      BY <2>1, <2>4, <3>2 DEF PreparedAt
  <2> QED
    BY <2>3, <2>4
<1> QED
    BY <1>1, PageInvariant, PTL

-----------------------------------------------------------------------------
\* The shield: a slide is of one show or hide, and its end is reported once

\* No slide of that show or hide is under way, or will be.
Gone(g) == g <= generation /\ \A s \in slides : s.generation # g

SlidesOnce ==
    /\ \A s, r \in slides : s.generation = r.generation => s = r
    /\ \A s \in slides : s.generation <= generation

EndsGone ==
    \A i \in DOMAIN inbox, g \in Nat :
        inbox[i].post = "ended" /\ inbox[i].generation = g => Gone(g)

Lowers(call) == call.call = "transition" /\ call.active = FALSE

CallsGone ==
    \A i \in DOMAIN calls, g \in Nat : Lowers(calls[i]) /\ calls[i].generation = g => Gone(g)

ShieldInv == SlidesOnce /\ EndsGone /\ CallsGone

\* What is gone stays gone.
NoReturn ==
    /\ generation' \in Nat /\ generation <= generation'
    /\ \A s \in slides' :
          s.generation > generation \/ \E r \in slides : r.generation = s.generation

LEMMA GoneStays ==
    ASSUME generation \in Nat, NoReturn, NEW g \in Nat, Gone(g)
    PROVE  Gone(g)'
    BY DEF NoReturn, Gone

\* The slides rest, one begins, goes on, or is no more.
LEMMA SlidesRest ==
    ASSUME generation \in Nat, slides \subseteq Gliding, SlidesOnce, UNCHANGED slides,
           generation' \in {generation, generation + 1}
    PROVE  NoReturn /\ SlidesOnce'
<1>1. \A s \in slides : s.generation \in Nat
    BY SlideGoes
<1> QED
    BY <1>1 DEF NoReturn, SlidesOnce

LEMMA SlideBegins ==
    ASSUME generation \in Nat, slides \subseteq Gliding, SlidesOnce,
           generation' = generation + 1, NEW s, s.generation = generation + 1,
           slides' = slides \cup {s}
    PROVE  NoReturn /\ SlidesOnce'
<1>1. \A r \in slides : r.generation \in Nat /\ r.generation <= generation
    BY SlideGoes DEF SlidesOnce
<1>2. \A r \in slides' : r \in slides \/ r = s
    OBVIOUS
<1>3. NoReturn
    BY <1>1, <1>2 DEF NoReturn
<1>4. \A r, q \in slides' : r.generation = q.generation => r = q
    BY <1>1, <1>2 DEF SlidesOnce
<1> QED
    BY <1>1, <1>2, <1>3, <1>4 DEF SlidesOnce

LEMMA SlideKept ==
    ASSUME generation \in Nat, slides \subseteq Gliding, SlidesOnce, UNCHANGED generation,
           NEW s \in slides, NEW s2, GoesOn(s, s2), slides' = (slides \ {s}) \cup {s2}
    PROVE  NoReturn /\ SlidesOnce'
<1>1. \A r \in slides' : (r \in slides /\ r # s) \/ r = s2
    OBVIOUS
<1>2. s2.generation = s.generation
    BY DEF GoesOn
<1>3. NoReturn
    BY <1>1, <1>2 DEF NoReturn
<1> QED
    BY <1>1, <1>2, <1>3 DEF SlidesOnce

LEMMA SlideLost ==
    ASSUME generation \in Nat, slides \subseteq Gliding, SlidesOnce, UNCHANGED generation,
           NEW s \in slides, slides' = slides \ {s}
    PROVE  NoReturn /\ SlidesOnce' /\ Gone(s.generation)'
    BY DEF NoReturn, SlidesOnce, Gone

-----------------------------------------------------------------------------
\* The ends that are posted
LEMMA EndsKept ==
    ASSUME generation \in Nat, EndsGone, NoReturn,
           NEW i \in DOMAIN inbox, NEW g \in Nat, inbox[i].post = "ended", inbox[i].generation = g
    PROVE  Gone(g)'
    BY GoneStays DEF EndsGone

LEMMA EndsStay ==
    ASSUME WindowTypes, EndsGone, NoReturn,
           inbox' = inbox \/ (inbox # <<>> /\ inbox' = Tail(inbox))
    PROVE  EndsGone'
<1>1. inbox \in Seq(AnyPost) /\ generation \in Nat
    BY DEF WindowTypes
<1> SUFFICES ASSUME NEW i \in DOMAIN inbox', NEW g \in Nat,
                    inbox'[i].post = "ended", inbox'[i].generation = g
             PROVE  Gone(g)'
    BY DEF EndsGone
<1>2. CASE inbox' = inbox
    BY <1>1, <1>2, EndsKept
<1>3. CASE inbox # <<>> /\ inbox' = Tail(inbox)
  <2>1. i + 1 \in DOMAIN inbox /\ inbox'[i] = inbox[i + 1]
    BY <1>1, <1>3, Taken
  <2> QED
    BY <1>1, <2>1, EndsKept
<1> QED
    BY <1>2, <1>3

LEMMA EndsAdded ==
    ASSUME WindowTypes, EndsGone, NoReturn, NEW m \in AnyPost, inbox' = Append(inbox, m),
           \A g \in Nat : m.post = "ended" /\ m.generation = g => Gone(g)'
    PROVE  EndsGone'
<1>1. inbox \in Seq(AnyPost) /\ generation \in Nat
    BY DEF WindowTypes
<1> SUFFICES ASSUME NEW i \in DOMAIN inbox', NEW g \in Nat,
                    inbox'[i].post = "ended", inbox'[i].generation = g
             PROVE  Gone(g)'
    BY DEF EndsGone
<1>2. (i \in DOMAIN inbox /\ inbox'[i] = inbox[i]) \/ inbox'[i] = m
    BY <1>1
<1> QED
    BY <1>1, <1>2, EndsKept

-----------------------------------------------------------------------------
\* What is said of a slide that is gone

Harmless(c) == \A g \in Nat : Lowers(c) /\ c.generation = g => Gone(g)'

SaidGone == \A i \in DOMAIN said' : Harmless(said'[i])

LEMMA SaidNothing == Silent => SaidGone
<1>1. DOMAIN <<>> = {}
    OBVIOUS
<1> QED
    BY <1>1 DEF Silent, Says, SaidGone

LEMMA SaidOne == ASSUME NEW c, said' = <<c>>, Harmless(c) PROVE SaidGone
    BY DEF SaidGone

LEMMA SaidTwo ==
    ASSUME NEW c, NEW d, said' = <<c, d>>, Harmless(c), Harmless(d) PROVE SaidGone
    BY DEF SaidGone

LEMMA OthersAreHarmless ==
    /\ \A v : Harmless(Shown(v))
    /\ \A id, b : Harmless(Prepare(id, b))
    /\ \A g : Harmless(Transition(TRUE, g))
    /\ Harmless(OpenSettings)
    BY DEF Harmless, Lowers, Shown, Prepare, Transition, OpenSettings

LEMMA LoweringIsHarmless ==
    ASSUME NEW g \in Nat, Gone(g)' PROVE Harmless(Transition(FALSE, g))
    BY DEF Harmless, Transition

SlideFacts == WindowTypes /\ SlidesOnce /\ EndsGone

\* A show or hide that cannot read the rectangles begins no slide.
LEMMA BlindMove ==
    ASSUME SlideFacts, UNCHANGED slides, generation' = generation + 1
    PROVE  NoReturn /\ SlidesOnce' /\ Harmless(Transition(FALSE, generation + 1))
<1>1. generation \in Nat /\ slides \subseteq Gliding /\ SlidesOnce
    BY DEF SlideFacts, WindowTypes
<1>2. NoReturn /\ SlidesOnce'
    BY <1>1, SlidesRest
<1>3. \A s \in slides : s.generation \in Nat /\ s.generation <= generation
    BY <1>1, SlideGoes DEF SlidesOnce
<1>4. PICK g \in Nat : g = generation + 1
    BY <1>1
<1>5. Gone(g)'
    BY <1>1, <1>3, <1>4 DEF Gone
<1>6. Harmless(Transition(FALSE, g))
    BY <1>5, LoweringIsHarmless
<1> QED
    BY <1>2, <1>4, <1>6

SlidesAgree == NoReturn /\ SlidesOnce' /\ SaidGone

LEMMA SlideInAgrees ==
    ASSUME SlideFacts, NEW v, NEW h, SlideIn(v, h)
    PROVE  SlidesAgree
<1>1. /\ generation \in Nat /\ generation + 1 \in Nat /\ slides \subseteq Gliding /\ SlidesOnce
      /\ generation' = generation + 1
    BY DEF SlideFacts, WindowTypes, SlideIn
<1>2. CASE /\ slides' = slides \cup {Slide(generation + 1, FALSE, h)}
           /\ Says(<<Transition(TRUE, generation + 1), Shown(v)>>)
  <2>1. Slide(generation + 1, FALSE, h).generation = generation + 1
    BY DEF Slide
  <2>2. NoReturn /\ SlidesOnce'
    BY <1>1, <1>2, <2>1, SlideBegins
  <2>3. SaidGone
    BY <1>2, SaidTwo, OthersAreHarmless DEF Says
  <2> QED
    BY <2>2, <2>3 DEF SlidesAgree
<1>3. CASE /\ UNCHANGED slides
           /\ Says(<<Transition(FALSE, generation + 1), Shown(v)>>)
  <2>1. NoReturn /\ SlidesOnce' /\ Harmless(Transition(FALSE, generation + 1))
    BY <1>1, <1>3, BlindMove
  <2>2. SaidGone
    BY <1>3, <2>1, SaidTwo, OthersAreHarmless DEF Says
  <2> QED
    BY <2>1, <2>2 DEF SlidesAgree
<1> QED
    BY <1>2, <1>3 DEF SlideIn

LEMMA RestAgrees ==
    ASSUME SlideFacts, UNCHANGED slides, generation' \in {generation, generation + 1}, SaidGone
    PROVE  SlidesAgree
    BY SlidesRest DEF SlideFacts, WindowTypes, SlidesAgree

LEMMA UserAgrees == SlideFacts /\ UserAsks => SlidesAgree /\ UNCHANGED inbox
<1> SUFFICES ASSUME SlideFacts, UserAsks PROVE SlidesAgree /\ UNCHANGED inbox
    OBVIOUS
<1>1. CASE Show
    BY <1>1, SlideInAgrees DEF Show
<1>2. CASE ShowSettingsOfVisible
  <2>1. SaidGone
    BY <1>2, SaidOne, OthersAreHarmless DEF ShowSettingsOfVisible, Says
  <2> QED
    BY <1>2, <2>1, RestAgrees DEF ShowSettingsOfVisible, cycle, window
<1>3. CASE ShowSettings
  <2>1. SaidGone
    BY <1>3, SaidOne, OthersAreHarmless DEF ShowSettings, Says, PrepareCall
  <2> QED
    BY <1>3, <2>1, RestAgrees DEF ShowSettings, window
<1>4. CASE Hide
  <2>1. /\ generation \in Nat /\ slides \subseteq Gliding /\ SlidesOnce
        /\ generation' = generation + 1 /\ UNCHANGED inbox
    BY <1>4 DEF SlideFacts, WindowTypes, Hide
  <2>2. CASE /\ slides' = slides \cup {Slide(generation + 1, TRUE, Away)}
             /\ Says(<<Transition(TRUE, generation + 1)>>)
    <3>1. Slide(generation + 1, TRUE, Away).generation = generation + 1
      BY DEF Slide
    <3>2. NoReturn /\ SlidesOnce'
      BY <2>1, <2>2, <3>1, SlideBegins
    <3>3. SaidGone
      BY <2>2, SaidOne, OthersAreHarmless DEF Says
    <3> QED
      BY <2>1, <3>2, <3>3 DEF SlidesAgree
  <2>3. CASE /\ UNCHANGED slides
             /\ Says(<<Transition(FALSE, generation + 1), PrepareCall("none")>>)
    <3>1. NoReturn /\ SlidesOnce' /\ Harmless(Transition(FALSE, generation + 1))
      BY <2>1, <2>3, BlindMove
    <3>2. SaidGone
      BY <2>3, <3>1, SaidTwo, OthersAreHarmless DEF Says, PrepareCall
    <3> QED
      BY <2>1, <3>1, <3>2 DEF SlidesAgree
  <2> QED
    BY <1>4, <2>2, <2>3 DEF Hide
<1>5. ASSUME NEW want \in {"show", "settings"}, ShowLater(want)
      PROVE  SlidesAgree /\ UNCHANGED inbox
    BY <1>5, RestAgrees, SaidNothing DEF ShowLater, window
<1> QED
    BY <1>1, <1>2, <1>3, <1>4, <1>5 DEF UserAsks

LEMMA FinishAgrees ==
    ASSUME SlideFacts, NEW h, FinishPreparation(h)
    PROVE  SlidesAgree
<1>1. CASE Silent /\ UNCHANGED <<pending, prepId, generation, cancelled, place, slides, blind>>
    BY <1>1, RestAgrees, SaidNothing
<1>2. CASE SlideIn(IF pending = "settings" THEN "settings" ELSE "main", h)
    BY <1>2, SlideInAgrees
<1> QED
    BY <1>1, <1>2 DEF FinishPreparation

LEMMA ThreadAgrees ==
    SlideFacts /\ UIThread => SlidesAgree /\ inbox # <<>> /\ inbox' = Tail(inbox)
<1> SUFFICES ASSUME SlideFacts, UIThread
             PROVE  SlidesAgree /\ inbox # <<>> /\ inbox' = Tail(inbox)
    OBVIOUS
<1>1. CASE SlideEnded
  <2>1. /\ inbox # <<>> /\ inbox' = Tail(inbox) /\ Head(inbox).post = "ended"
        /\ UNCHANGED <<slides, generation>>
    BY <1>1 DEF SlideEnded, Takes, cycle, window
  <2>2. CASE Silent
    BY <2>1, <2>2, RestAgrees, SaidNothing
  <2>3. CASE /\ Current(Head(inbox))
             /\ \/ Says(<<Transition(FALSE, generation), PrepareCall(pending)>>)
                \/ Says(<<Transition(FALSE, generation)>>)
    <3>1. inbox \in Seq(AnyPost) /\ generation \in Nat
      BY DEF SlideFacts, WindowTypes
    <3>2. Head(inbox) = inbox[1] /\ 1 \in DOMAIN inbox
      BY <2>1, <3>1, Taken
    <3>3. Gone(generation)
      BY <2>1, <2>3, <3>1, <3>2 DEF SlideFacts, EndsGone, Current
    <3>4. PICK g \in Nat : g = generation
      BY <3>1
    <3>5. Gone(g)'
      BY <2>1, <3>3, <3>4 DEF Gone
    <3>6. Harmless(Transition(FALSE, generation))
      BY <3>4, <3>5, LoweringIsHarmless
    <3>7. SaidGone
      <4>1. CASE said' = <<Transition(FALSE, generation), PrepareCall(pending)>>
        BY <3>6, <4>1, SaidTwo, OthersAreHarmless DEF PrepareCall
      <4>2. CASE said' = <<Transition(FALSE, generation)>>
        BY <3>6, <4>2, SaidOne
      <4> QED
        BY <2>3, <4>1, <4>2 DEF Says
    <3> QED
      BY <2>1, <3>7, RestAgrees
  <2> QED
    BY <1>1, <2>2, <2>3 DEF SlideEnded
<1>2. CASE ResizeToContent
    BY <1>2, RestAgrees, SaidNothing DEF ResizeToContent, Takes, cycle
<1>3. CASE CompletePreparation
  <2>1. inbox # <<>> /\ inbox' = Tail(inbox)
    BY <1>3 DEF CompletePreparation, Takes
  <2>2. CASE FinishPreparation(Head(inbox).height)
    BY <2>1, <2>2, FinishAgrees
  <2>3. CASE Silent /\ UNCHANGED <<cycle, slides>>
    BY <2>1, <2>3, RestAgrees, SaidNothing DEF cycle
  <2> QED
    BY <1>3, <2>2, <2>3 DEF CompletePreparation, window
<1>4. CASE ExpirePreparation
  <2>1. inbox # <<>> /\ inbox' = Tail(inbox)
    BY <1>4 DEF ExpirePreparation, Takes
  <2>2. CASE FinishPreparation(size)
    BY <2>1, <2>2, FinishAgrees
  <2>3. CASE Silent /\ UNCHANGED <<cycle, slides>>
    BY <2>1, <2>3, RestAgrees, SaidNothing DEF cycle
  <2> QED
    BY <1>4, <2>2, <2>3 DEF ExpirePreparation, window
<1> QED
    BY <1>1, <1>2, <1>3, <1>4 DEF UIThread

LEMMA AnimateAgrees == SlideFacts /\ Animate => SlidesAgree /\ EndsGone'
<1> SUFFICES ASSUME SlideFacts, NEW s \in slides,
                    StartSlide(s) \/ CheckSlide(s) \/ MoveWindow(s) \/ EndSlide(s)
             PROVE  SlidesAgree /\ EndsGone'
    BY DEF Animate
<1>1. /\ WindowTypes /\ generation \in Nat /\ slides \subseteq Gliding /\ SlidesOnce /\ EndsGone
      /\ s \in Gliding
    BY DEF SlideFacts, WindowTypes
<1>2. SaidGone /\ UNCHANGED generation
    BY SaidNothing DEF StartSlide, CheckSlide, MoveWindow, EndSlide, cycle
<1>3. CASE inbox' = inbox /\ slides' = slides \ {s}
  <2>1. NoReturn /\ SlidesOnce'
    BY <1>1, <1>2, <1>3, SlideLost
  <2> QED
    BY <1>1, <1>2, <1>3, <2>1, EndsStay DEF SlidesAgree
<1>4. CASE inbox' = inbox /\ \E s2 : GoesOn(s, s2) /\ slides' = (slides \ {s}) \cup {s2}
  <2>1. NoReturn /\ SlidesOnce'
    BY <1>1, <1>2, <1>4, SlideKept
  <2> QED
    BY <1>1, <1>2, <1>4, <2>1, EndsStay DEF SlidesAgree
<1>5. CASE inbox' = Append(inbox, Ended(s)) /\ slides' = slides \ {s}
  <2>1. NoReturn /\ SlidesOnce' /\ Gone(s.generation)'
    BY <1>1, <1>2, <1>5, SlideLost
  <2>2. Ended(s) \in AnyPost /\ Ended(s).generation = s.generation
    BY <1>1, PostTypes
  <2>3. \A g \in Nat : Ended(s).generation = g => Gone(g)'
    BY <2>1, <2>2 DEF Gone
  <2>4. EndsGone'
    BY <1>1, <1>5, <2>1, <2>2, <2>3, EndsAdded
  <2> QED
    BY <1>2, <2>1, <2>4 DEF SlidesAgree
<1> QED
    BY <1>1, <1>3, <1>4, <1>5, SlideSteps

LEMMA TimerAgrees == SlideFacts /\ TimerFires => SlidesAgree /\ EndsGone'
<1> SUFFICES ASSUME SlideFacts, TimerFires PROVE SlidesAgree /\ EndsGone'
    OBVIOUS
<1>1. SlidesAgree
    BY RestAgrees, SaidNothing DEF TimerFires, window
<1>2. Expired(timer) \in AnyPost /\ Expired(timer).post = "expired"
    BY PostTypes DEF SlideFacts, WindowTypes
<1>3. EndsGone'
    BY <1>1, <1>2, EndsAdded DEF TimerFires, SlideFacts, SlidesAgree
<1> QED
    BY <1>1, <1>3

LEMMA GoAgrees == SlideFacts /\ GoStep => SlidesAgree /\ EndsGone'
<1> SUFFICES ASSUME SlideFacts, GoStep PROVE SlidesAgree /\ EndsGone'
    OBVIOUS
<1>1. CASE UserAsks \/ UIThread
  <2>1. SlidesAgree /\ (inbox' = inbox \/ (inbox # <<>> /\ inbox' = Tail(inbox)))
    BY <1>1, UserAgrees, ThreadAgrees
  <2> QED
    BY <2>1, EndsStay DEF SlideFacts, SlidesAgree
<1> QED
    BY <1>1, AnimateAgrees, TimerAgrees DEF GoStep

\* The window of macOS has no slides and reports none.
LEMMA MacAgrees == SlideFacts /\ MacStep => SlidesAgree /\ EndsGone'
<1> SUFFICES ASSUME SlideFacts, MacStep PROVE SlidesAgree /\ EndsGone'
    OBVIOUS
<1>0. ASSUME SaidGone, UNCHANGED slides, generation' \in {generation, generation + 1},
             inbox' = inbox \/ (inbox # <<>> /\ inbox' = Tail(inbox))
      PROVE  SlidesAgree /\ EndsGone'
    BY <1>0, RestAgrees, EndsStay DEF SlideFacts, SlidesAgree
<1>1. ASSUME NEW want, BringUp(want)
      PROVE  SaidGone /\ generation' = generation + 1
    BY <1>1, SaidOne, OthersAreHarmless DEF BringUp, Says
<1>2. ASSUME NEW want, Prepares(want)
      PROVE  SaidGone
    BY <1>2, SaidOne, OthersAreHarmless DEF Prepares, PrepareCall, Says
<1>3. ASSUME NEW want, RequestWindow(want)
      PROVE  SaidGone /\ UNCHANGED slides /\ generation' \in {generation, generation + 1}
  <2>1. CASE Says(<<Shown("null")>>) /\ generation' = generation + 1
    BY <1>3, <2>1, SaidOne, OthersAreHarmless DEF RequestWindow, NoSlides, Says
  <2>2. CASE Says(<<OpenSettings>>) /\ UNCHANGED <<cycle, place>>
    BY <1>3, <2>2, SaidOne, OthersAreHarmless DEF RequestWindow, NoSlides, Says, cycle
  <2>3. CASE BringUp(want)
    BY <1>1, <1>3, <2>3 DEF RequestWindow, NoSlides
  <2>4. CASE Prepares(want) /\ UNCHANGED <<generation, place>>
    BY <1>2, <1>3, <2>4 DEF RequestWindow, NoSlides
  <2>5. CASE Silent /\ UNCHANGED <<phase, prepId, timer, generation, place>>
    BY <1>3, <2>5, SaidNothing DEF RequestWindow, NoSlides
  <2> QED
    BY <1>3, <2>1, <2>2, <2>3, <2>4, <2>5 DEF RequestWindow
<1>4. CASE HideWindow /\ UNCHANGED inbox
    BY <1>0, <1>2, <1>4 DEF HideWindow, NoSlides
<1>5. ASSUME NEW want, UserRequest(want) PROVE SlidesAgree /\ EndsGone'
  <2>1. CASE RequestWindow(want)
    BY <1>0, <1>3, <1>5, <2>1 DEF UserRequest
  <2>2. CASE Silent /\ WindowRests
    BY <1>0, <1>5, <2>2, SaidNothing DEF UserRequest, WindowRests, NoSlides, cycle
  <2> QED
    BY <1>5, <2>1, <2>2 DEF UserRequest
<1>6. CASE MacPrepared \/ MacExpires \/ MacResize
  <2>1. UNCHANGED slides /\ inbox # <<>> /\ inbox' = Tail(inbox)
    BY <1>6 DEF MacPrepared, MacExpires, MacResize, NoSlides, Takes
  <2>2. CASE Silent /\ UNCHANGED <<cycle, place>>
    BY <1>0, <2>1, <2>2, SaidNothing DEF cycle
  <2>3. CASE FinishMac
    BY <1>0, <1>1, <2>1, <2>3, SaidNothing DEF FinishMac
  <2> QED
    BY <1>6, <2>2, <2>3 DEF MacPrepared, MacExpires, MacResize
<1>7. CASE NotifyReady
  <2>1. inbox # <<>> /\ inbox' = Tail(inbox)
    BY <1>7 DEF NotifyReady, Takes
  <2>2. CASE RequestWindow(startupRequest)
    BY <1>0, <1>3, <2>1, <2>2
  <2>3. CASE Silent /\ WindowRests
    BY <1>0, <2>1, <2>3, SaidNothing DEF WindowRests, NoSlides, cycle
  <2> QED
    BY <1>7, <2>2, <2>3 DEF NotifyReady
<1> QED
    BY <1>4, <1>5, <1>6, <1>7, TimerAgrees DEF MacStep, UserToggle, ResignActive

-----------------------------------------------------------------------------
\* The calls that lower the shield
LEMMA SaidTypes == Phases => said' \in Seq(Calls)
<1>1. ASSUME Brief PROVE said' \in Seq(Calls)
  <2>1. CASE said' = <<>>
    BY <2>1
  <2>2. CASE \E b \in BOOLEAN, g \in Nat : said' = <<Transition(b, g)>>
    BY <2>2, CallTypes
  <2> QED
    BY <1>1, <2>1, <2>2 DEF Brief
<1>2. ASSUME NEW c \in Calls, Speaks(c) PROVE said' \in Seq(Calls)
  <2>1. CASE said' = <<c>>
    BY <2>1
  <2>2. CASE \E b \in BOOLEAN, g \in Nat : said' = <<Transition(b, g), c>>
    <3>1. PICK b \in BOOLEAN, g \in Nat : said' = <<Transition(b, g), c>>
      BY <2>2
    <3>2. Transition(b, g) \in Calls
      BY CallTypes
    <3> QED
      BY <3>1, <3>2
  <2> QED
    BY <1>2, <2>1, <2>2 DEF Speaks
<1>3. PreparesIt => said' \in Seq(Calls)
  <2> SUFFICES ASSUME NEW id \in Nat, Speaks(Prepare(id, pending' = "settings"))
               PROVE  said' \in Seq(Calls)
    BY DEF PreparesIt
  <2>1. PICK b \in BOOLEAN : b = (pending' = "settings")
    OBVIOUS
  <2>2. Prepare(id, b) \in Calls
    BY CallTypes
  <2> QED
    BY <1>2, <2>1, <2>2
<1>4. Shows => said' \in Seq(Calls)
  <2>1. Shows => \E v \in Views \cup {"null"} : Speaks(Shown(v))
    BY DEF Shows, ViewFor, Views
  <2> QED
    BY <1>2, <2>1, CallTypes
<1>5. Opens => said' \in Seq(Calls)
    BY <1>2, CallTypes DEF Opens
<1> QED
    BY <1>1, <1>3, <1>4, <1>5 DEF Phases, Rests, Parks, Leaves

ShieldFacts == PageInv /\ ShieldInv

LEMMA WindowKeepsShield == ShieldFacts /\ WindowStep => ShieldInv'
<1> SUFFICES ASSUME ShieldFacts, WindowStep PROVE ShieldInv'
    OBVIOUS
<1>1. /\ WindowTypes /\ SlideFacts /\ CallsGone /\ generation \in Nat /\ calls \in Seq(Calls)
    BY DEF ShieldFacts, ShieldInv, SlideFacts, PageInv, PageTypeOK, PageTypes, WindowTypes
<1>2. SlidesAgree /\ EndsGone'
    BY <1>1, GoAgrees, MacAgrees DEF WindowStep
<1>3. said' \in Seq(Calls) /\ calls' = calls \o said'
    BY <1>1, GoPhases, MacPhases, SaidTypes DEF WindowStep
<1>4. ASSUME NEW i \in DOMAIN calls', NEW g \in Nat, Lowers(calls'[i]), calls'[i].generation = g
      PROVE  Gone(g)'
  <2>1. \/ i \in DOMAIN calls /\ calls'[i] = calls[i]
        \/ i - Len(calls) \in DOMAIN said' /\ calls'[i] = said'[i - Len(calls)]
    BY <1>1, <1>3, Added
  <2>2. CASE i \in DOMAIN calls /\ calls'[i] = calls[i]
    <3>1. Gone(g)
      BY <1>1, <1>4, <2>2 DEF CallsGone
    <3> QED
      BY <1>1, <1>2, <3>1, GoneStays DEF SlidesAgree
  <2>3. CASE i - Len(calls) \in DOMAIN said' /\ calls'[i] = said'[i - Len(calls)]
    BY <1>2, <1>4, <2>3 DEF SlidesAgree, SaidGone, Harmless
  <2> QED
    BY <2>1, <2>2, <2>3
<1> QED
    BY <1>2, <1>4 DEF ShieldInv, CallsGone, SlidesAgree

\* The page posts no end of a slide and takes calls from the front.
LEMMA PageKeepsShield ==
    ASSUME ShieldFacts, UNCHANGED <<slides, generation>>, NEW posts \in Seq(AnyPost),
           \A i \in DOMAIN posts : posts[i].post # "ended",
           inbox' = inbox \o posts,
           calls' = calls \/ (calls # <<>> /\ calls' = Tail(calls))
    PROVE  ShieldInv'
<1>1. /\ SlidesOnce /\ EndsGone /\ CallsGone /\ calls \in Seq(Calls) /\ inbox \in Seq(AnyPost)
    BY DEF ShieldFacts, ShieldInv, PageInv, PageTypeOK, PageTypes, WindowTypes
<1>2. \A g \in Nat : Gone(g) => Gone(g)'
    BY DEF Gone
<1>3. EndsGone'
  <2> SUFFICES ASSUME NEW i \in DOMAIN inbox', NEW g \in Nat,
                      inbox'[i].post = "ended", inbox'[i].generation = g
               PROVE  Gone(g)'
    BY DEF EndsGone
  <2>1. i \in DOMAIN inbox /\ inbox'[i] = inbox[i]
    <3>1. \/ i \in DOMAIN inbox
          \/ i - Len(inbox) \in DOMAIN posts /\ inbox'[i] = posts[i - Len(inbox)]
      BY <1>1, Added
    <3>2. \A j \in DOMAIN inbox : inbox'[j] = inbox[j]
      BY <1>1, Added
    <3> QED
      BY <3>1, <3>2
  <2> QED
    BY <1>1, <1>2, <2>1 DEF EndsGone
<1>4. CallsGone'
  <2>1. CASE calls' = calls
    BY <1>1, <1>2, <2>1 DEF CallsGone
  <2>2. CASE calls # <<>> /\ calls' = Tail(calls)
    <3>1. \A i \in DOMAIN calls' : i + 1 \in DOMAIN calls /\ calls'[i] = calls[i + 1]
      BY <1>1, <2>2, Taken
    <3> QED
      BY <1>1, <1>2, <3>1 DEF CallsGone
  <2> QED
    BY <2>1, <2>2
<1>5. SlidesOnce'
    BY <1>1 DEF SlidesOnce
<1> QED
    BY <1>3, <1>4, <1>5 DEF ShieldInv

LEMMA PageActions ==
    ASSUME PageInv, PageTakes \/ Loads \/ Reports \/ Unloads \/ Watchdog \/ Answers \/ Turns
    PROVE  /\ \E posts \in Seq(AnyPost) :
                 PageStep(posts) /\ \A i \in DOMAIN posts : posts[i].post # "ended"
           /\ calls' = calls \/ (calls # <<>> /\ calls' = Tail(calls))
<1>0. <<>> \in Seq(AnyPost) /\ DOMAIN <<>> = {}
    OBVIOUS
<1>1. CASE PageStep(<<>>) /\ (calls' = calls \/ (calls # <<>> /\ calls' = Tail(calls)))
    BY <1>0, <1>1
<1>2. CASE Reports
  <2>1. <<Ready>> \in Seq(AnyPost) /\ \A i \in DOMAIN <<Ready>> : <<Ready>>[i].post # "ended"
    BY PostTypes
  <2> QED
    BY <1>2, <2>1 DEF Reports
<1>3. CASE Answers
  <2>1. PICK h \in Sizes : PageStep(<<Prepared(prep, h)>>)
    BY <1>3 DEF Answers
  <2>2. Prepared(prep, h) \in AnyPost /\ Prepared(prep, h).post = "prepared"
    BY PostTypes DEF PageInv, PageTypeOK, PageTypes
  <2>3. /\ <<Prepared(prep, h)>> \in Seq(AnyPost)
        /\ \A i \in DOMAIN <<Prepared(prep, h)>> : <<Prepared(prep, h)>>[i].post # "ended"
    BY <2>2
  <2>4. UNCHANGED calls
    BY <1>3 DEF Answers
  <2> QED
    BY <2>1, <2>3, <2>4
<1>4. CASE PageTakes
  <2>1. PageStep(<<>>) /\ calls # <<>> /\ calls' = Tail(calls)
    BY <1>4 DEF PageTakes, CallIsLost, OnWindowShown, OnWindowHidden, OnOpenSettings,
                OnWindowTransition, Called
  <2> QED
    BY <1>1, <2>1
<1>5. CASE Loads \/ Unloads \/ Watchdog \/ Turns
  <2>1. PageStep(<<>>) /\ UNCHANGED calls
    BY <1>5 DEF Loads, Unloads, Watchdog, Turns
  <2> QED
    BY <1>1, <2>1
<1> QED
    BY <1>2, <1>3, <1>4, <1>5

LEMMA ShieldStep == ShieldFacts /\ [PageNext]_vars => ShieldInv'
<1> SUFFICES ASSUME ShieldFacts, [PageNext]_vars PROVE ShieldInv'
    OBVIOUS
<1>1. CASE WindowStep
    BY <1>1, WindowKeepsShield
<1>2. CASE PageTakes \/ Loads \/ Reports \/ Unloads \/ Watchdog \/ Answers \/ Turns
  <2>1. PICK posts \in Seq(AnyPost) :
            PageStep(posts) /\ \A i \in DOMAIN posts : posts[i].post # "ended"
    BY <1>2, PageActions DEF ShieldFacts
  <2>2. calls' = calls \/ (calls # <<>> /\ calls' = Tail(calls))
    BY <1>2, PageActions DEF ShieldFacts
  <2>3. inbox' = inbox \o posts /\ UNCHANGED <<slides, generation>>
    BY <2>1 DEF PageStep, cycle, window
  <2> QED
    BY <2>1, <2>2, <2>3, PageKeepsShield
<1>3. CASE UNCHANGED vars
  <2>1. UNCHANGED <<slides, generation, inbox, calls>>
    BY <1>3 DEF vars, goVars, cycle, window, pageVars
  <2> QED
    BY <2>1 DEF ShieldFacts, ShieldInv, SlidesOnce, EndsGone, CallsGone, Gone
<1> QED
    BY <1>1, <1>2, <1>3 DEF PageNext

\* A slide is of one show or hide; its end is reported, and the shield it
\* raised is lowered, only when it is no more.
THEOREM ShieldInvariant == PageSpec => []ShieldInv
<1>1. PageInit => ShieldInv
    BY DEF PageInit, Init, ShieldInv, SlidesOnce, EndsGone, CallsGone
<1>2. PageInv /\ ShieldInv /\ [PageNext]_vars => ShieldInv'
    BY ShieldStep DEF ShieldFacts
<1> QED
    BY <1>1, <1>2, PageInvariant, PTL DEF PageSpec

\* While the slide of the last show or hide has the window to move, a call
\* does not take the shield from the page (App.svelte, onWindowTransition).
THEOREM ShieldHoldsAlways == PageSpec => ShieldHolds
<1>1. PageInv /\ ShieldInv /\ [PageNext]_vars =>
        [shield /\ ~shield' /\ calls' # calls =>
            \A s \in slides : s.generation # shieldGen']_vars
  <2> SUFFICES ASSUME PageInv, ShieldInv, PageNext, shield, ~shield', calls' # calls
               PROVE  \A s \in slides : s.generation # shieldGen'
    OBVIOUS
  <2>1. OnWindowTransition
    BY DEF PageNext, WindowStep, Loads, Reports, Unloads, PageTakes, CallIsLost, OnWindowShown,
           OnWindowHidden, OnOpenSettings, Watchdog, Answers, Turns, shielding
  <2>2. /\ calls # <<>> /\ Head(calls).call = "transition"
        /\ shieldGen' = IF Head(calls).generation < shieldGen THEN shieldGen ELSE Head(calls).generation
        /\ shield' = IF Head(calls).generation < shieldGen THEN shield ELSE Head(calls).active
    BY <2>1 DEF OnWindowTransition, Called
  <2>3. calls \in Seq(Calls)
    BY DEF PageInv, PageTypeOK, PageTypes
  <2>4. Head(calls) = calls[1] /\ 1 \in DOMAIN calls /\ Head(calls) \in Calls
    BY <2>2, <2>3, Taken
  <2>5. Head(calls).active \in BOOLEAN /\ Head(calls).generation \in Nat
    BY <2>2, <2>4, CallTypes
  <2>6. shieldGen' = calls[1].generation /\ calls[1].generation \in Nat /\ Lowers(calls[1])
    BY <2>2, <2>4, <2>5 DEF Lowers
  <2>7. Gone(calls[1].generation)
    BY <2>4, <2>6 DEF ShieldInv, CallsGone
  <2> QED
    BY <2>6, <2>7 DEF Gone
<1> QED
    BY <1>1, PageInvariant, ShieldInvariant, PTL DEF PageSpec, ShieldHolds

-----------------------------------------------------------------------------
\* Requests and answers: a request on its way to the page is newer than those
\* it has taken, an answer on its way to the window is of one it has taken

IsRequest(c) == c.call = "prepare"
IsAnswer(m) == m.post = "prepared"

RequestsInOrder ==
    /\ prep <= prepId
    /\ \A i \in DOMAIN calls : IsRequest(calls[i]) =>
          /\ prep < calls[i].id /\ calls[i].id <= prepId
          /\ \A j \in DOMAIN calls : i < j /\ IsRequest(calls[j]) => calls[i].id < calls[j].id

OfTaken(m) ==
    /\ m.id <= prepId
    /\ informed => m.id <= prep
    /\ \A j \in DOMAIN calls : IsRequest(calls[j]) => m.id < calls[j].id

AnswersOfTaken == \A i \in DOMAIN inbox : IsAnswer(inbox[i]) => OfTaken(inbox[i])

OrderInv == RequestsInOrder /\ AnswersOfTaken

LEMMA OrderTypes ==
    ASSUME PageInv
    PROVE  /\ WindowTypes /\ calls \in Seq(Calls) /\ inbox \in Seq(AnyPost)
           /\ prep \in Nat /\ prepId \in Nat /\ informed \in BOOLEAN
           /\ \A i \in DOMAIN calls : i \in Nat /\ (IsRequest(calls[i]) => calls[i].id \in Nat)
           /\ \A i \in DOMAIN inbox : IsAnswer(inbox[i]) => inbox[i].id \in Nat
<1>1. /\ WindowTypes /\ calls \in Seq(Calls) /\ inbox \in Seq(AnyPost)
      /\ prep \in Nat /\ prepId \in Nat /\ informed \in BOOLEAN
    BY DEF PageInv, PageTypeOK, PageTypes, WindowTypes
<1>2. /\ \A i \in DOMAIN calls : i \in Nat /\ calls[i] \in Calls
      /\ \A i \in DOMAIN inbox : inbox[i] \in AnyPost
    BY <1>1
<1> QED
    BY <1>1, <1>2, CallTypes, PostTypes DEF IsRequest, IsAnswer

\* What the window says ends in the next request or holds none.
LEMMA Asked ==
    ASSUME calls \in Seq(Calls), prepId \in Nat, Phases, calls' = calls \o said'
    PROVE  /\ prepId' \in Nat /\ prepId <= prepId'
           /\ \A i \in DOMAIN calls' : IsRequest(calls'[i]) =>
                 \/ i \in DOMAIN calls /\ calls'[i] = calls[i]
                 \/ /\ calls'[i].id = prepId' /\ prepId' = prepId + 1
                    /\ i \notin DOMAIN calls /\ \A j \in DOMAIN calls' : j <= i
<1>1. CASE UNCHANGED prepId /\ (Rests \/ Parks \/ Leaves)
  <2>1. Brief
    BY <1>1 DEF Rests, Parks, Leaves
  <2> QED
    BY <1>1, <2>1, SaysBriefly DEF IsRequest
<1>2. ASSUME NEW c \in Calls, Speaks(c), ~IsRequest(c), UNCHANGED prepId
      PROVE  /\ prepId' \in Nat /\ prepId <= prepId'
             /\ \A i \in DOMAIN calls' : IsRequest(calls'[i]) =>
                   i \in DOMAIN calls /\ calls'[i] = calls[i]
  <2>1. prepId' \in Nat /\ prepId <= prepId'
    BY <1>2
  <2>2. /\ calls'[Len(calls')] = c
        /\ \A i \in DOMAIN calls : calls'[i] = calls[i]
        /\ \A i \in DOMAIN calls' :
              i \in DOMAIN calls \/ calls'[i].call = "transition" \/ i = Len(calls')
    BY <1>2, SaysAloud
  <2>3. \A i \in DOMAIN calls' :
            IsRequest(calls'[i]) => i \in DOMAIN calls /\ calls'[i] = calls[i]
    BY <1>2, <2>2 DEF IsRequest
  <2> QED
    BY <2>1, <2>3
<1>3. CASE UNCHANGED prepId /\ Opens
  <2>1. OpenSettings \in Calls /\ ~IsRequest(OpenSettings) /\ Speaks(OpenSettings)
    BY <1>3, CallTypes DEF Opens, IsRequest
  <2> QED
    BY <1>2, <1>3, <2>1
<1>4. CASE UNCHANGED prepId /\ Shows
  <2>1. PICK v \in Views \cup {"null"} : Speaks(Shown(v))
    BY <1>4 DEF Shows, ViewFor, Views
  <2>2. Shown(v) \in Calls /\ ~IsRequest(Shown(v))
    BY CallTypes DEF IsRequest
  <2> QED
    BY <1>2, <1>4, <2>1, <2>2
<1>5. CASE PreparesIt
  <2>1. PICK b \in BOOLEAN : b = (pending' = "settings")
    OBVIOUS
  <2>2. PICK id \in Nat : id = prepId + 1 /\ prepId' = id /\ Speaks(Prepare(id, b))
    BY <1>5, <2>1 DEF PreparesIt
  <2>3. Prepare(id, b) \in Calls /\ Prepare(id, b).id = id
    <3>1. Prepare(id, b).id = id
      BY DEF Prepare
    <3> QED
      BY <3>1, CallTypes
  <2>4. /\ Len(calls) \in Nat /\ Len(calls') \in Nat /\ Len(calls') > Len(calls)
        /\ calls'[Len(calls')] = Prepare(id, b)
        /\ \A i \in DOMAIN calls : calls'[i] = calls[i] /\ i <= Len(calls)
        /\ \A i \in DOMAIN calls' :
              /\ i \in Nat /\ i <= Len(calls')
              /\ i \in DOMAIN calls \/ calls'[i].call = "transition" \/ i = Len(calls')
    BY <2>2, <2>3, SaysAloud, SMTT(30)
  <2>5. ASSUME NEW i \in DOMAIN calls', IsRequest(calls'[i])
        PROVE  (i \in DOMAIN calls /\ calls'[i] = calls[i]) \/ i = Len(calls')
    BY <2>4, <2>5 DEF IsRequest
  <2>6. Len(calls') \notin DOMAIN calls /\ \A j \in DOMAIN calls' : j <= Len(calls')
    BY <2>4
  <2>7. calls'[Len(calls')].id = prepId'
    BY <2>2, <2>3, <2>4
  <2>8. prepId' = prepId + 1 /\ prepId' \in Nat /\ prepId <= prepId'
    BY <2>2
  <2>9. ASSUME NEW i \in DOMAIN calls', IsRequest(calls'[i])
        PROVE  \/ i \in DOMAIN calls /\ calls'[i] = calls[i]
               \/ /\ calls'[i].id = prepId' /\ prepId' = prepId + 1
                  /\ i \notin DOMAIN calls /\ \A j \in DOMAIN calls' : j <= i
    <3>1. CASE i = Len(calls')
      BY <2>6, <2>7, <2>8, <3>1
    <3> QED
      BY <2>5, <2>9, <3>1
  <2> QED
    BY <2>8, <2>9
<1> QED
    BY <1>1, <1>3, <1>4, <1>5 DEF Phases

\* The window answers nothing itself: what is in its queue was there before.
InboxWasThere ==
    \A i \in DOMAIN inbox' : IsAnswer(inbox'[i]) =>
        \E j \in DOMAIN inbox : inbox[j] = inbox'[i]

LEMMA InboxRests ==
    ASSUME WindowTypes, inbox' = inbox \/ (inbox # <<>> /\ inbox' = Tail(inbox))
    PROVE  InboxWasThere
<1>1. inbox \in Seq(AnyPost)
    BY DEF WindowTypes
<1>2. CASE inbox # <<>> /\ inbox' = Tail(inbox)
  <2>1. \A i \in DOMAIN inbox' : i + 1 \in DOMAIN inbox /\ inbox'[i] = inbox[i + 1]
    BY <1>1, <1>2, Taken
  <2> QED
    BY <2>1 DEF InboxWasThere
<1> QED
    BY <1>2 DEF InboxWasThere

LEMMA InboxGrows ==
    ASSUME WindowTypes, NEW m \in AnyPost, ~IsAnswer(m), inbox' = Append(inbox, m)
    PROVE  InboxWasThere
<1>1. inbox \in Seq(AnyPost)
    BY DEF WindowTypes
<1>2. \A i \in DOMAIN inbox' : (i \in DOMAIN inbox /\ inbox'[i] = inbox[i]) \/ inbox'[i] = m
    BY <1>1
<1> QED
    BY <1>2 DEF InboxWasThere

LEMMA WindowInbox == PageInv /\ ShieldInv /\ WindowStep => InboxWasThere
<1> SUFFICES ASSUME PageInv, ShieldInv, WindowStep PROVE InboxWasThere
    OBVIOUS
<1>1. WindowTypes /\ SlideFacts
    BY OrderTypes DEF ShieldInv, SlideFacts
<1>2. CASE UserAsks \/ UIThread
    BY <1>1, <1>2, UserAgrees, ThreadAgrees, InboxRests
<1>3. CASE Animate
  <2>1. PICK s \in slides : StartSlide(s) \/ CheckSlide(s) \/ MoveWindow(s) \/ EndSlide(s)
    BY <1>3 DEF Animate
  <2>2. slides \subseteq Gliding /\ s \in Gliding
    BY <1>1 DEF WindowTypes
  <2>3. Ended(s) \in AnyPost /\ ~IsAnswer(Ended(s))
    BY <2>2, PostTypes DEF IsAnswer
  <2> QED
    BY <1>1, <2>1, <2>2, <2>3, SlideSteps, InboxRests, InboxGrows
<1>4. CASE TimerFires
  <2>1. Expired(timer) \in AnyPost /\ ~IsAnswer(Expired(timer))
    BY <1>1, PostTypes DEF WindowTypes, IsAnswer
  <2> QED
    BY <1>1, <1>4, <2>1, InboxGrows DEF TimerFires
<1>5. CASE MacStep /\ ~TimerFires
  <2>1. inbox' = inbox \/ (inbox # <<>> /\ inbox' = Tail(inbox))
    BY <1>5 DEF MacStep, UserToggle, ResignActive, UserRequest, MacPrepared, MacExpires, MacResize,
                NotifyReady, Takes
  <2> QED
    BY <1>1, <2>1, InboxRests
<1> QED
    BY <1>2, <1>3, <1>4, <1>5 DEF WindowStep, GoStep

LEMMA WindowKeepsOrder == PageInv /\ ShieldInv /\ OrderInv /\ WindowStep => OrderInv'
<1> SUFFICES ASSUME PageInv, ShieldInv, OrderInv, WindowStep PROVE OrderInv'
    OBVIOUS
<1>1. /\ WindowTypes /\ calls \in Seq(Calls) /\ prep \in Nat /\ prepId \in Nat
      /\ \A i \in DOMAIN calls : i \in Nat /\ (IsRequest(calls[i]) => calls[i].id \in Nat)
      /\ \A i \in DOMAIN inbox : IsAnswer(inbox[i]) => inbox[i].id \in Nat
    BY OrderTypes
<1>2. calls' = calls \o said' /\ UNCHANGED <<prep, informed>>
    BY DEF WindowStep, preparing
<1>3. Phases
    BY <1>1, GoPhases, MacPhases DEF WindowStep
<1>4. /\ prepId' \in Nat /\ prepId <= prepId'
      /\ \A i \in DOMAIN calls' : IsRequest(calls'[i]) =>
            \/ i \in DOMAIN calls /\ calls'[i] = calls[i]
            \/ /\ calls'[i].id = prepId' /\ prepId' = prepId + 1
               /\ i \notin DOMAIN calls /\ \A j \in DOMAIN calls' : j <= i
    BY <1>1, <1>2, <1>3, Asked
<1>5. RequestsInOrder
    BY DEF OrderInv
<1>6. ASSUME NEW i \in DOMAIN calls', IsRequest(calls'[i])
      PROVE  /\ prep < calls'[i].id /\ calls'[i].id <= prepId'
             /\ \A j \in DOMAIN calls' : i < j /\ IsRequest(calls'[j]) => calls'[i].id < calls'[j].id
  <2>1. CASE i \in DOMAIN calls /\ calls'[i] = calls[i]
    <3>1. prep < calls[i].id /\ calls[i].id <= prepId /\ calls[i].id \in Nat
      BY <1>1, <1>5, <1>6, <2>1 DEF RequestsInOrder
    <3>2. ASSUME NEW j \in DOMAIN calls', i < j, IsRequest(calls'[j])
          PROVE  calls'[i].id < calls'[j].id
      BY <1>1, <1>4, <1>5, <1>6, <2>1, <3>1, <3>2 DEF RequestsInOrder
    <3> QED
      BY <1>1, <1>4, <2>1, <3>1, <3>2
  <2>2. CASE /\ calls'[i].id = prepId' /\ prepId' = prepId + 1
             /\ \A j \in DOMAIN calls' : j <= i
    <3>1. prep < calls'[i].id
      BY <1>1, <1>5, <2>2 DEF RequestsInOrder
    <3>2. calls' \in Seq(Calls)
      BY <1>1, <1>2, <1>3, SaidTypes
    <3> QED
      BY <1>4, <2>2, <3>1, <3>2
  <2> QED
    BY <1>4, <1>6, <2>1, <2>2
<1>7. RequestsInOrder'
    BY SMTT(60), <1>1, <1>2, <1>4, <1>5, <1>6 DEF RequestsInOrder
<1>8. ASSUME NEW i \in DOMAIN inbox', IsAnswer(inbox'[i]) PROVE OfTaken(inbox[i])'
  <2>1. PICK k \in DOMAIN inbox : inbox[k] = inbox'[i]
    BY <1>8, WindowInbox DEF InboxWasThere
  <2>2. OfTaken(inbox[k]) /\ inbox[k].id \in Nat
    BY <1>1, <1>8, <2>1 DEF OrderInv, AnswersOfTaken
  <2>3. ASSUME NEW j \in DOMAIN calls', IsRequest(calls'[j]) PROVE inbox[k].id < calls'[j].id
    BY <1>1, <1>4, <2>2, <2>3 DEF OfTaken
  <2> QED
    BY SMTT(60), <1>1, <1>2, <1>4, <2>1, <2>2, <2>3 DEF OfTaken
<1>9. AnswersOfTaken'
    BY <1>8 DEF AnswersOfTaken
<1> QED
    BY <1>7, <1>9 DEF OrderInv

\* The page takes a call, the next request among them, or answers the last one
\* it has taken, or is loaded again.
LEMMA PageKeepsOrder ==
    ASSUME PageInv, OrderInv, UNCHANGED prepId, prep' \in Nat, prep' <= prepId,
           NEW posts \in Seq(AnyPost), inbox' = inbox \o posts,
           \A i \in DOMAIN posts : IsAnswer(posts[i]) => posts[i].id = prep /\ prep' = prep,
           \/ UNCHANGED <<prep, calls, informed>>
           \/ prep' = 0 /\ calls' = calls /\ informed' = FALSE
           \/ /\ calls # <<>> /\ calls' = Tail(calls)
              /\ \/ UNCHANGED <<prep, informed>>
                 \/ IsRequest(Head(calls)) /\ prep' = Head(calls).id
    PROVE  OrderInv'
<1>1. /\ calls \in Seq(Calls) /\ inbox \in Seq(AnyPost) /\ prep \in Nat /\ prepId \in Nat
      /\ \A i \in DOMAIN calls : i \in Nat /\ (IsRequest(calls[i]) => calls[i].id \in Nat)
      /\ \A i \in DOMAIN inbox : IsAnswer(inbox[i]) => inbox[i].id \in Nat
    BY OrderTypes
<1>2. RequestsInOrder /\ AnswersOfTaken
    BY DEF OrderInv
<1>3. /\ \A i \in DOMAIN calls' : \E j \in DOMAIN calls : calls'[i] = calls[j]
      /\ \A i, k \in DOMAIN calls' : i < k =>
            \E j, l \in DOMAIN calls : j < l /\ calls'[i] = calls[j] /\ calls'[k] = calls[l]
  <2>1. CASE calls # <<>> /\ calls' = Tail(calls)
    <3>1. \A i \in DOMAIN calls' : i \in Nat /\ i + 1 \in DOMAIN calls /\ calls'[i] = calls[i + 1]
      BY <1>1, <2>1, Taken
    <3>2. \A i, k \in DOMAIN calls' : i < k => i + 1 < k + 1
      BY <3>1
    <3> QED
      BY <3>1, <3>2
  <2>2. CASE calls' = calls
    BY <2>2
  <2> QED
    BY <2>1, <2>2
<1>4. ASSUME NEW i \in DOMAIN calls', IsRequest(calls'[i])
      PROVE  /\ prep' < calls'[i].id /\ calls'[i].id <= prepId /\ calls'[i].id \in Nat
             /\ \A k \in DOMAIN calls' : i < k /\ IsRequest(calls'[k]) => calls'[i].id < calls'[k].id
  <2>1. PICK j \in DOMAIN calls : calls'[i] = calls[j]
    BY <1>3
  <2>2. calls'[i].id \in Nat /\ prep < calls'[i].id /\ calls'[i].id <= prepId
    BY <1>1, <1>2, <1>4, <2>1 DEF RequestsInOrder
  <2>3. prep' < calls'[i].id
    <3>1. CASE prep' = prep \/ prep' = 0
      BY <1>1, <2>2, <3>1
    <3>2. CASE /\ calls # <<>> /\ calls' = Tail(calls)
               /\ IsRequest(Head(calls)) /\ prep' = Head(calls).id
      <4>1. /\ Head(calls) = calls[1] /\ 1 \in DOMAIN calls /\ i \in Nat
            /\ i + 1 \in DOMAIN calls /\ calls'[i] = calls[i + 1] /\ 1 < i + 1
        <5>1. /\ Head(calls) = calls[1] /\ 1 \in DOMAIN calls /\ i \in Nat
              /\ i + 1 \in DOMAIN calls /\ calls'[i] = calls[i + 1]
          BY <1>1, <3>2, Taken
        <5>2. i # 0
          BY <1>1, <3>2
        <5> QED
          BY <5>1, <5>2
      <4> QED
        BY <1>2, <1>4, <3>2, <4>1 DEF RequestsInOrder
    <3> QED
      BY <3>1, <3>2
  <2>4. ASSUME NEW k \in DOMAIN calls', i < k, IsRequest(calls'[k])
        PROVE  calls'[i].id < calls'[k].id
    <3>1. PICK x, y \in DOMAIN calls : x < y /\ calls'[i] = calls[x] /\ calls'[k] = calls[y]
      BY <1>3, <2>4
    <3> QED
      BY <1>2, <1>4, <2>4, <3>1 DEF RequestsInOrder
  <2> QED
    BY <2>2, <2>3, <2>4
<1>5. RequestsInOrder'
    BY <1>4 DEF RequestsInOrder
<1>6. ASSUME NEW i \in DOMAIN inbox', IsAnswer(inbox'[i]) PROVE OfTaken(inbox[i])'
  <2>1. \/ i \in DOMAIN inbox /\ inbox'[i] = inbox[i]
        \/ i - Len(inbox) \in DOMAIN posts /\ inbox'[i] = posts[i - Len(inbox)]
    <3>1. /\ i \in DOMAIN inbox \/ (i - Len(inbox) \in DOMAIN posts /\ inbox'[i] = posts[i - Len(inbox)])
          /\ \A k \in DOMAIN inbox : inbox'[k] = inbox[k]
      BY <1>1, Added
    <3> QED
      BY <3>1
  <2>2. CASE i \in DOMAIN inbox /\ inbox'[i] = inbox[i]
    <3>1. OfTaken(inbox[i]) /\ inbox[i].id \in Nat
      BY <1>1, <1>2, <1>6, <2>2 DEF AnswersOfTaken
    <3>2. \A k \in DOMAIN calls' : IsRequest(calls'[k]) => inbox[i].id < calls'[k].id
      BY <1>3, <3>1 DEF OfTaken
    <3>3. informed' => inbox[i].id <= prep'
      <4>1. CASE UNCHANGED <<prep, informed>> \/ informed' = FALSE
        BY <3>1, <4>1 DEF OfTaken
      <4>2. CASE calls # <<>> /\ IsRequest(Head(calls)) /\ prep' = Head(calls).id
        <5>1. Head(calls) = calls[1] /\ 1 \in DOMAIN calls
          BY <1>1, <4>2, Taken
        <5>2. inbox[i].id < calls[1].id
          BY <3>1, <4>2, <5>1 DEF OfTaken
        <5> QED
          BY <1>1, <3>1, <4>2, <5>1, <5>2
      <4> QED
        BY <4>1, <4>2
    <3> QED
      BY <2>2, <3>1, <3>2, <3>3 DEF OfTaken
  <2>3. CASE i - Len(inbox) \in DOMAIN posts /\ inbox'[i] = posts[i - Len(inbox)]
    <3>1. inbox'[i].id = prep /\ prep' = prep
      BY <1>6, <2>3
    <3>2. \A k \in DOMAIN calls' : IsRequest(calls'[k]) => prep < calls'[k].id
      BY <1>4, <3>1
    <3>3. prep <= prepId /\ prep <= prep
      BY <1>1, <1>2 DEF RequestsInOrder
    <3> QED
      BY <3>1, <3>2, <3>3 DEF OfTaken
  <2> QED
    BY <2>1, <2>2, <2>3
<1>7. AnswersOfTaken'
    BY <1>6 DEF AnswersOfTaken
<1> QED
    BY <1>5, <1>7 DEF OrderInv

LEMMA PageActionsKeepOrder ==
    PageInv /\ OrderInv
        /\ (PageTakes \/ Loads \/ Reports \/ Unloads \/ Watchdog \/ Answers \/ Turns) => OrderInv'
<1> SUFFICES ASSUME PageInv, OrderInv,
                    PageTakes \/ Loads \/ Reports \/ Unloads \/ Watchdog \/ Answers \/ Turns
             PROVE  OrderInv'
    OBVIOUS
<1>0. /\ prep \in Nat /\ prepId \in Nat /\ prep <= prepId /\ calls \in Seq(Calls)
      /\ <<>> \in Seq(AnyPost) /\ DOMAIN <<>> = {}
    BY OrderTypes DEF OrderInv, RequestsInOrder
<1>1. ASSUME PageStep(<<>>), prep' \in Nat, prep' <= prepId,
             \/ UNCHANGED <<prep, calls, informed>>
             \/ prep' = 0 /\ calls' = calls /\ informed' = FALSE
             \/ /\ calls # <<>> /\ calls' = Tail(calls)
                /\ \/ UNCHANGED <<prep, informed>>
                   \/ IsRequest(Head(calls)) /\ prep' = Head(calls).id
      PROVE  OrderInv'
  <2>1. inbox' = inbox \o <<>> /\ UNCHANGED prepId
    BY <1>1 DEF PageStep, cycle
  <2> QED
    BY <1>0, <1>1, <2>1, PageKeepsOrder
<1>2. CASE Loads \/ Watchdog \/ Turns
  <2>1. PageStep(<<>>) /\ UNCHANGED <<prep, calls, informed>>
    BY <1>2 DEF Loads, Watchdog, Turns, preparing
  <2> QED
    BY <1>0, <1>1, <2>1
<1>3. CASE Unloads
  <2>1. PageStep(<<>>) /\ prep' = 0 /\ calls' = calls /\ informed' = FALSE
    BY <1>3 DEF Unloads
  <2>2. prep' \in Nat /\ prep' <= prepId
    BY <1>0, <2>1
  <2> QED
    BY <1>1, <2>1, <2>2
<1>4. CASE CallIsLost \/ OnWindowShown \/ OnOpenSettings \/ OnWindowTransition
  <2>1. PageStep(<<>>) /\ calls # <<>> /\ calls' = Tail(calls) /\ UNCHANGED <<prep, informed>>
    BY <1>4 DEF CallIsLost, OnWindowShown, OnOpenSettings, OnWindowTransition, Called, preparing
  <2> QED
    BY <1>0, <1>1, <2>1
<1>5. CASE OnWindowHidden
  <2>1. /\ PageStep(<<>>) /\ calls # <<>> /\ calls' = Tail(calls)
        /\ IsRequest(Head(calls)) /\ prep' = Head(calls).id
    BY <1>5 DEF OnWindowHidden, Called, IsRequest
  <2>2. Head(calls) = calls[1] /\ 1 \in DOMAIN calls
    BY <1>0, <2>1, Taken
  <2>3. prep' \in Nat /\ prep' <= prepId
    BY <2>1, <2>2, OrderTypes DEF OrderInv, RequestsInOrder
  <2> QED
    BY <1>1, <2>1, <2>3
<1>6. CASE Reports
  <2>1. PageStep(<<Ready>>) /\ UNCHANGED <<prep, calls, informed>>
    BY <1>6 DEF Reports, preparing
  <2>2. /\ <<Ready>> \in Seq(AnyPost)
        /\ \A i \in DOMAIN <<Ready>> : ~IsAnswer(<<Ready>>[i])
    BY PostTypes DEF IsAnswer
  <2>3. inbox' = inbox \o <<Ready>> /\ UNCHANGED prepId
    BY <2>1 DEF PageStep, cycle
  <2> QED
    BY <1>0, <2>1, <2>2, <2>3, PageKeepsOrder
<1>7. CASE Answers
  <2>1. PICK h \in Sizes : PageStep(<<Prepared(prep, h)>>)
    BY <1>7 DEF Answers
  <2>2. Prepared(prep, h) \in AnyPost /\ Prepared(prep, h).id = prep
    BY <1>0, PostTypes
  <2>3. /\ <<Prepared(prep, h)>> \in Seq(AnyPost)
        /\ \A i \in DOMAIN <<Prepared(prep, h)>> : <<Prepared(prep, h)>>[i].id = prep
    BY <2>2
  <2>4. UNCHANGED <<prep, calls, informed>>
    BY <1>7 DEF Answers
  <2>5. inbox' = inbox \o <<Prepared(prep, h)>> /\ UNCHANGED prepId
    BY <2>1 DEF PageStep, cycle
  <2> QED
    BY <1>0, <2>3, <2>4, <2>5, PageKeepsOrder
<1> QED
    BY <1>2, <1>3, <1>4, <1>5, <1>6, <1>7 DEF PageTakes

\* An answer is of a request the page has taken, and the requests on their way
\* to it are newer: always.
THEOREM OrderInvariant == PageSpec => []OrderInv
<1>1. PageInit => OrderInv
    BY DEF PageInit, Init, OrderInv, RequestsInOrder, AnswersOfTaken
<1>2. PageInv /\ ShieldInv /\ OrderInv /\ [PageNext]_vars => OrderInv'
  <2> SUFFICES ASSUME PageInv, ShieldInv, OrderInv, [PageNext]_vars PROVE OrderInv'
    OBVIOUS
  <2>1. CASE PageNext
    BY <2>1, WindowKeepsOrder, PageActionsKeepOrder DEF PageNext
  <2>2. CASE UNCHANGED vars
    <3>1. UNCHANGED <<prep, prepId, calls, inbox, informed>>
      BY <2>2 DEF vars, goVars, cycle, pageVars, preparing
    <3> QED
      BY <3>1 DEF OrderInv, RequestsInOrder, AnswersOfTaken, OfTaken
  <2> QED
    BY <2>1, <2>2
<1> QED
    BY <1>1, <1>2, PageInvariant, ShieldInvariant, PTL DEF PageSpec

\* An answer that brings up the window is to the last request of all.
LEMMA AnswerIsLatest ==
    ASSUME PageInv, PageNext, phase = "preparing", phase' = "visible", Takes("prepared")
    PROVE  Latest(Head(inbox))
<1>1. WindowTypes /\ inbox \in Seq(AnyPost)
    BY OrderTypes
<1>2. WindowStep
  <2>1. CASE PageTakes \/ Loads \/ Reports \/ Unloads \/ Watchdog \/ Answers \/ Turns
    BY <2>1, PageActions DEF PageStep, cycle
  <2> QED
    BY <2>1 DEF PageNext
<1>3. CASE UserAsks
    BY <1>3 DEF UserAsks, Show, ShowSettingsOfVisible, ShowSettings, BeginPreparation, ShowLater, Hide
<1>4. CASE UIThread
  <2>1. CompletePreparation
    BY <1>4 DEF UIThread, SlideEnded, ResizeToContent, ExpirePreparation, Takes
  <2> QED
    BY <2>1 DEF CompletePreparation, cycle
<1>5. CASE Animate \/ TimerFires
    BY <1>5 DEF Animate, StartSlide, CheckSlide, MoveWindow, EndSlide, TimerFires, cycle
<1>6. CASE MacStep
  <2>1. ASSUME NEW want, RequestWindow(want) PROVE FALSE
    BY <2>1 DEF RequestWindow, Prepares, BeginPreparation
  <2>2. CASE UserToggle \/ ResignActive \/ \E want : UserRequest(want)
    BY <2>1, <2>2 DEF UserToggle, ResignActive, UserRequest, HideWindow, WindowRests, cycle
  <2>3. CASE MacPrepared
    BY <2>3 DEF MacPrepared, cycle
  <2>4. CASE MacExpires \/ MacResize \/ NotifyReady
    BY <2>4 DEF MacExpires, MacResize, NotifyReady, Takes
  <2> QED
    BY <1>5, <1>6, <2>2, <2>3, <2>4 DEF MacStep
<1> QED
    BY <1>2, <1>3, <1>4, <1>5, <1>6 DEF WindowStep, GoStep

\* An answer brings up the window only on a page that has prepared itself for
\* the request that waits, not on the late answer to a replaced one
\* (completeWindowPreparation).
THEOREM ShownWhenReadyHolds == PageSpec => ShownWhenReady
<1>1. PageInv /\ OrderInv /\ [PageNext]_vars =>
        [phase = "preparing" /\ phase' = "visible" /\ Takes("prepared") /\ informed =>
            /\ prep = prepId
            /\ ~visible
            /\ view = IF pending = "settings" THEN "settings" ELSE "main"]_vars
  <2> SUFFICES ASSUME PageInv, OrderInv, PageNext,
                      phase = "preparing", phase' = "visible", Takes("prepared"), informed
               PROVE  /\ prep = prepId
                      /\ ~visible
                      /\ view = IF pending = "settings" THEN "settings" ELSE "main"
    OBVIOUS
  <2>1. /\ calls \in Seq(Calls) /\ inbox \in Seq(AnyPost) /\ prep \in Nat /\ prepId \in Nat
        /\ \A i \in DOMAIN calls : i \in Nat /\ (IsRequest(calls[i]) => calls[i].id \in Nat)
    BY OrderTypes
  <2>2. Head(inbox).id = prepId
    BY AnswerIsLatest DEF Latest
  <2>3. Head(inbox) = inbox[1] /\ 1 \in DOMAIN inbox /\ IsAnswer(inbox[1])
    BY <2>1, Taken DEF Takes, IsAnswer
  <2>4. OfTaken(inbox[1])
    BY <2>3 DEF OrderInv, AnswersOfTaken
  <2>5. prep = prepId
    BY <2>1, <2>2, <2>3, <2>4 DEF OrderInv, RequestsInOrder, OfTaken
  <2>6. \A i \in DOMAIN calls : calls[i].call # "prepare"
    BY <2>1, <2>5 DEF OrderInv, RequestsInOrder, IsRequest
  <2>7. PICK b \in BOOLEAN : b = (pending = "settings")
    OBVIOUS
  <2>8. PreparedAt(Len(calls) + 1, b)
    <3>1. Len(calls) + 1 \in Nat /\ ParkedAt(b) /\ WindowAgrees
      BY <2>1, <2>7 DEF ParkedAt, PageInv
    <3> QED
      BY <3>1 DEF WindowAgrees
  <2> QED
    BY <2>5, <2>6, <2>7, <2>8 DEF PreparedAt
<1> QED
    BY <1>1, PageInvariant, OrderInvariant, PTL DEF PageSpec, ShownWhenReady

=============================================================================
