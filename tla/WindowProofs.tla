-------------------------- MODULE WindowProofs --------------------------
(***************************************************************************)
(* Proofs about WindowCycle and WindowToggle, for any heights, bounds and  *)
(* steps of a slide: a hidden window is away, a slide-in ends in the       *)
(* corner, and a press does what it was meant to.                          *)
(*                                                                         *)
(* What a slide may still do is what the argument is about.  At most one   *)
(* is past animMu; only one of the current generation gets past its check; *)
(* and a slide-out is of the current generation from its start to the      *)
(* handling of its end, for nothing replaces it before.                    *)
(***************************************************************************)
EXTENDS WindowToggle, TLAPS

Of(g) == {s \in slides : s.generation = g}

\* animMu, and one slide for a generation.
OneMoves ==
    \A s, t \in slides :
        /\ s.generation = t.generation => s = t
        /\ s.at # "wait" /\ t.at # "wait" => s = t

\* A slide that moves has steps left.
StepsLeft == \A s \in slides : s.at = "move" => s.step # Steps

\* Nothing is of a generation to come.
FromThePast ==
    /\ cancelled <= generation
    /\ \A s \in slides : s.generation <= generation
    /\ \A i \in DOMAIN inbox :
          inbox[i].post = "ended" => inbox[i].generation <= generation

\* A slide-out is the current slide of a window that hides.
SlideOutIsCurrent ==
    \A s \in slides : s.hiding => s.generation = generation /\ phase = "hiding"

\* The window hides with a slide-out only.
HidesByItself == \A s \in Of(generation) : phase = "hiding" => s.hiding

\* No slide can bring the window back.
Gone == place = Away /\ Of(generation) = {} /\ \A s \in slides : s.at # "move"

GoneWhenEnded ==
    \A i \in DOMAIN inbox :
        /\ inbox[i].post = "ended" /\ inbox[i].generation = generation /\ inbox[i].hiding
        /\ phase = "hiding"
        => Gone

\* However the window was hidden, no slide-out is left.
GoneWhenHidden ==
    phase \in {"parked", "preparing"} =>
        /\ Of(generation) = {}
        /\ ~blind => Gone

ParkedInv ==
    /\ TypeOK
    /\ OneMoves /\ StepsLeft /\ FromThePast /\ SlideOutIsCurrent /\ HidesByItself
    /\ GoneWhenEnded /\ GoneWhenHidden

\* The current slide-in: it is for the size the window has, and it has moved
\* the window there once its steps are made.
InTheCorner ==
    phase = "visible" /\ ~blind /\ cancelled # generation =>
        /\ \A s \in Of(generation) :
              /\ s.to = size
              /\ s.at \in {"wait", "move"} => s.step # Steps
              /\ (s.at = "check" /\ s.step = Steps) \/ s.at = "end" => place = size
        /\ Of(generation) = {} =>
              place = size /\ \A s \in slides : s.at # "move"

-----------------------------------------------------------------------------
\* The queue of the UI thread

LEMMA TakenIsFirst ==
    ASSUME inbox \in Seq(Posts), NEW post, Takes(post)
    PROVE  /\ inbox' \in Seq(Posts)
           /\ Head(inbox) \in Posts /\ Head(inbox).post = post
           /\ 1 \in DOMAIN inbox /\ Head(inbox) = inbox[1]
           /\ \A i \in DOMAIN inbox' : i + 1 \in DOMAIN inbox /\ inbox'[i] = inbox[i + 1]
<1>1. inbox # <<>> /\ Head(inbox).post = post /\ inbox' = Tail(inbox)
    BY DEF Takes
<1>2. Head(inbox) \in Posts /\ Head(inbox) = inbox[1] /\ 1 \in DOMAIN inbox
    BY <1>1
<1>3. inbox' \in Seq(Posts)
    BY <1>1
<1>4. \A i \in DOMAIN inbox' : i + 1 \in DOMAIN inbox /\ inbox'[i] = inbox[i + 1]
    BY <1>1
<1> QED
    BY <1>1, <1>2, <1>3, <1>4

LEMMA PostedIsLast ==
    ASSUME inbox \in Seq(Posts), NEW e \in Posts, inbox' = Append(inbox, e)
    PROVE  /\ inbox' \in Seq(Posts)
           /\ \A i \in DOMAIN inbox' :
                 (i \in DOMAIN inbox /\ inbox'[i] = inbox[i]) \/ inbox'[i] = e
OBVIOUS

\* What is posted, and the end of a slide.
LEMMA PostTypes ==
    /\ \A h \in Sizes : Resize(h) \in Posts /\ Resize(h).post = "resize"
    /\ \A h \in Sizes, id \in Nat : Prepared(id, h) \in Posts /\ Prepared(id, h).post = "prepared"
    /\ \A id \in Nat : Expired(id) \in Posts /\ Expired(id).post = "expired"
    /\ \A s \in Slides :
          /\ Ended(s) \in Posts /\ Ended(s).post = "ended"
          /\ Ended(s).generation = s.generation /\ Ended(s).hiding = s.hiding
    /\ \A m \in Posts :
          /\ m.post \in {"resize", "prepared"} => m.height \in Sizes
          /\ m.post = "ended" => m.generation \in Nat /\ m.hiding \in BOOLEAN
BY DEF Posts, Slides, Resize, Prepared, Expired, Ended

-----------------------------------------------------------------------------
\* The steps of a slide

LEMMA NewSlide ==
    ASSUME NEW g \in Nat, NEW hiding \in BOOLEAN, NEW to \in Sizes \cup {Away}
    PROVE  /\ Slide(g, hiding, to) \in Slides
           /\ Slide(g, hiding, to).generation = g /\ Slide(g, hiding, to).hiding = hiding
           /\ Slide(g, hiding, to).to = to
           /\ Slide(g, hiding, to).at = "wait" /\ Slide(g, hiding, to).step = 0
BY WindowAssumption DEF Slides, Slide

LEMMA NewSlideOut ==
    ASSUME NEW g \in Nat
    PROVE  /\ Slide(g, TRUE, Away) \in Slides /\ Slide(g, TRUE, Away).generation = g
           /\ Slide(g, TRUE, Away).hiding = TRUE /\ Slide(g, TRUE, Away).at = "wait"
BY WindowAssumption DEF Slides, Slide

LEMMA SlideAt ==
    ASSUME NEW s \in Slides, NEW at \in {"check", "move", "end"}
    PROVE  LET t == [s EXCEPT !.at = at]
           IN  /\ t \in Slides /\ t.generation = s.generation /\ t.hiding = s.hiding
               /\ t.to = s.to /\ t.step = s.step /\ t.at = at
BY DEF Slides

LEMMA SlideMoved ==
    ASSUME NEW s \in Slides, s.step # Steps
    PROVE  LET t == [s EXCEPT !.at = "check", !.step = @ + 1]
           IN  /\ t \in Slides /\ t.generation = s.generation /\ t.hiding = s.hiding
               /\ t.to = s.to /\ t.step = s.step + 1 /\ t.at = "check"
<1>1. s.step \in 0..Steps /\ Steps \in Nat
    BY WindowAssumption DEF Slides
<1>2. s.step + 1 \in 0..Steps
    BY <1>1
<1> QED
    BY <1>2 DEF Slides

\* A slide that goes on is still the only one past animMu.
LEMMA GoesAlone ==
    ASSUME OneMoves, NEW s \in slides, NEW t, t.generation = s.generation, Goes(s, t),
           s.at # "wait" \/ Moving = {}
    PROVE  OneMoves'
BY DEF OneMoves, Goes, Moving

\* One that ends leaves the others as they are.
LEMMA EndsAlone ==
    ASSUME OneMoves, NEW s \in slides, slides' = slides \ {s}
    PROVE  OneMoves' /\ \A t \in slides' : t.generation # s.generation
BY DEF OneMoves

\* A new one waits, and is the only one of its generation.
LEMMA StartsAlone ==
    ASSUME TypeOK, OneMoves, FromThePast, NEW hiding \in BOOLEAN,
           NEW to \in Sizes \cup {Away},
           slides' = slides \cup {Slide(generation + 1, hiding, to)}
    PROVE  OneMoves'
<1> DEFINE new == Slide(generation + 1, hiding, to)
<1>1. new.generation = generation + 1 /\ new.at = "wait"
    BY NewSlide DEF TypeOK
<1>2. \A s \in slides : s.generation \in Nat /\ s.generation # generation + 1
    BY DEF TypeOK, FromThePast, Slides
<1> QED
    BY <1>1, <1>2 DEF OneMoves

-----------------------------------------------------------------------------
\* Every action keeps ParkedInv.

LEMMA SlideInKeeps ==
    ASSUME ParkedInv, NEW v, NEW h \in Sizes, SlideIn(v, h),
           phase \in {"visible", "parked", "preparing"}, timer' \in Nat,
           inbox' \in Seq(Posts),
           \A i \in DOMAIN inbox' : \E j \in DOMAIN inbox : inbox'[i] = inbox[j]
    PROVE  ParkedInv'
<1> USE DEF ParkedInv
<1> DEFINE new == Slide(generation + 1, FALSE, h)
<1>a. generation \in Nat /\ generation' = generation + 1 /\ cancelled' = cancelled
      /\ phase' = "visible"
    BY DEF SlideIn, TypeOK
<1>b. new \in Slides /\ new.generation = generation + 1 /\ new.hiding = FALSE
      /\ new.at = "wait"
  <2>1. generation + 1 \in Nat
    BY <1>a
  <2> QED
    BY <2>1, WindowAssumption DEF Slides, Slide
<1>c. slides' = slides \/ slides' = slides \cup {new}
    BY DEF SlideIn
<1> HIDE DEF new
<1>1. TypeOK'
  <2>1. slides' \subseteq Slides
    BY <1>b, <1>c DEF TypeOK
  <2>2. place' \in Sizes \cup {Away, Between} /\ blind' \in BOOLEAN
    BY DEF SlideIn, TypeOK
  <2> QED
    BY <1>a, <2>1, <2>2 DEF SlideIn, TypeOK, Requests
<1>2. OneMoves'
    BY <1>c, StartsAlone, UNCHANGED slides => OneMoves' DEF OneMoves, new
<1>3. FromThePast'
  <2>1. \A s \in slides' : s.generation <= generation'
    BY <1>a, <1>b, <1>c DEF FromThePast, TypeOK, Slides
  <2>2. cancelled' <= generation'
    BY <1>a DEF FromThePast, TypeOK
  <2>3. ASSUME NEW i \in DOMAIN inbox', inbox'[i].post = "ended"
        PROVE  inbox'[i].generation <= generation'
    <3>1. PICK j \in DOMAIN inbox : inbox'[i] = inbox[j]
        OBVIOUS
    <3>2. inbox[j] \in Posts
        BY DEF TypeOK
    <3>3. inbox[j].generation \in Nat /\ inbox[j].generation <= generation
        BY <2>3, <3>1, <3>2, PostTypes DEF FromThePast
    <3> QED
        BY <1>a, <3>1, <3>3
  <2> QED
    BY <2>1, <2>2, <2>3 DEF FromThePast
<1>4. SlideOutIsCurrent'
    BY <1>a, <1>b, <1>c DEF SlideOutIsCurrent
<1>5. HidesByItself' /\ GoneWhenEnded' /\ GoneWhenHidden'
    BY <1>a DEF HidesByItself, GoneWhenEnded, GoneWhenHidden
<1>6. StepsLeft'
    BY <1>b, <1>c DEF StepsLeft
<1> QED
    BY <1>1, <1>2, <1>3, <1>4, <1>5, <1>6

LEMMA ShowKeeps == ParkedInv /\ Show => ParkedInv'
<1> SUFFICES ASSUME ParkedInv, Show PROVE ParkedInv'
    OBVIOUS
<1>1. size \in Sizes /\ timer' \in Nat /\ inbox' = inbox /\ inbox \in Seq(Posts)
    BY DEF ParkedInv, TypeOK, Show
<1> QED
    BY <1>1, SlideInKeeps DEF Show

\* What leaves the slides and the generation alone, keeps a hidden window
\* hidden and in its place, and posts no end of a slide.
LEMMA RestKeeps ==
    ASSUME ParkedInv, TypeOK',
           generation' = generation, slides' = slides, blind' = blind,
           phase' = phase \/ {phase, phase'} \subseteq {"parked", "preparing"},
           place' = place \/ phase = "visible",
           cancelled' \in {cancelled, generation},
           \A i \in DOMAIN inbox' :
              inbox'[i].post = "ended" => \E j \in DOMAIN inbox : inbox'[i] = inbox[j]
    PROVE  ParkedInv'
<1> USE DEF ParkedInv
<1>1. OneMoves' /\ StepsLeft'
    BY DEF OneMoves, StepsLeft
<1>2. FromThePast'
  <2>1. cancelled' <= generation'
    BY DEF FromThePast, TypeOK
  <2>2. \A s \in slides' : s.generation <= generation'
    BY DEF FromThePast
  <2>3. \A i \in DOMAIN inbox' : inbox'[i].post = "ended" => inbox'[i].generation <= generation'
    BY DEF FromThePast
  <2> QED
    BY <2>1, <2>2, <2>3 DEF FromThePast
<1>3. SlideOutIsCurrent' /\ HidesByItself'
    BY DEF SlideOutIsCurrent, HidesByItself, Of
<1>4. GoneWhenHidden'
    BY DEF GoneWhenHidden, Gone, Of
<1>5. GoneWhenEnded'
  <2> SUFFICES ASSUME NEW i \in DOMAIN inbox', phase' = "hiding",
                      inbox'[i].post = "ended", inbox'[i].hiding,
                      inbox'[i].generation = generation'
               PROVE  Gone'
    BY DEF GoneWhenEnded
  <2>1. PICK j \in DOMAIN inbox : inbox'[i] = inbox[j]
    OBVIOUS
  <2>2. Gone
    BY <2>1 DEF GoneWhenEnded
  <2> QED
    BY <2>2 DEF Gone, Of
<1> QED
    BY <1>1, <1>2, <1>3, <1>4, <1>5

LEMMA ShowSettingsKeeps == ParkedInv /\ ShowSettings => ParkedInv'
<1> SUFFICES ASSUME ParkedInv, ShowSettings PROVE ParkedInv'
    OBVIOUS
<1>1. TypeOK'
    BY DEF ParkedInv, TypeOK, Requests, ShowSettings, BeginPreparation, window
<1> QED
    BY <1>1, RestKeeps DEF ShowSettings, BeginPreparation, window

LEMMA ShowLaterKeeps ==
    ASSUME NEW want \in {"show", "settings"}, ParkedInv, ShowLater(want)
    PROVE  ParkedInv'
<1>1. TypeOK'
    BY DEF ParkedInv, TypeOK, Requests, Stronger, ShowLater, window
<1> QED
    BY <1>1, RestKeeps DEF ShowLater, window

LEMMA NothingKeeps ==
    ParkedInv /\ UNCHANGED <<cycle, cancelled, window, inbox, blind>> => ParkedInv'
<1> SUFFICES ASSUME ParkedInv, UNCHANGED <<cycle, cancelled, window, inbox, blind>>
             PROVE  ParkedInv'
    OBVIOUS
<1>1. TypeOK'
    BY DEF ParkedInv, TypeOK, cycle, window
<1> QED
    BY <1>1, RestKeeps DEF cycle, window

LEMMA PagePostsKeeps == ParkedInv /\ PagePosts => ParkedInv'
<1> SUFFICES ASSUME ParkedInv, PagePosts PROVE ParkedInv'
    OBVIOUS
<1>1. PICK e \in Posts : e.post # "ended" /\ inbox' = Append(inbox, e)
  <2>1. PICK h \in Sizes : \/ inbox' = Append(inbox, Resize(h))
                          \/ \E id \in 1..prepId : inbox' = Append(inbox, Prepared(id, h))
    BY DEF PagePosts
  <2>2. CASE inbox' = Append(inbox, Resize(h))
    BY <2>2, PostTypes
  <2>3. CASE \E id \in 1..prepId : inbox' = Append(inbox, Prepared(id, h))
    BY <2>3, PostTypes DEF ParkedInv, TypeOK
  <2> QED
    BY <2>1, <2>2, <2>3
<1>2. inbox \in Seq(Posts)
    BY DEF ParkedInv, TypeOK
<1>3. /\ inbox' \in Seq(Posts)
      /\ \A i \in DOMAIN inbox' :
            inbox'[i].post = "ended" => \E j \in DOMAIN inbox : inbox'[i] = inbox[j]
    BY <1>1, <1>2, PostedIsLast
<1>4. TypeOK'
    BY <1>3 DEF ParkedInv, TypeOK, PagePosts, cycle, window
<1> QED
    BY <1>3, <1>4, RestKeeps DEF PagePosts, cycle, window

LEMMA TimerFiresKeeps == ParkedInv /\ TimerFires => ParkedInv'
<1> SUFFICES ASSUME ParkedInv, TimerFires PROVE ParkedInv'
    OBVIOUS
<1>1. /\ Expired(timer) \in Posts /\ Expired(timer).post # "ended"
      /\ inbox' = Append(inbox, Expired(timer)) /\ inbox \in Seq(Posts)
    BY PostTypes DEF ParkedInv, TypeOK, TimerFires
<1>2. /\ inbox' \in Seq(Posts)
      /\ \A i \in DOMAIN inbox' :
            inbox'[i].post = "ended" => \E j \in DOMAIN inbox : inbox'[i] = inbox[j]
    BY <1>1, PostedIsLast
<1>3. TypeOK'
    BY <1>2 DEF ParkedInv, TypeOK, TimerFires, window
<1> QED
    BY <1>2, <1>3, RestKeeps DEF TimerFires, window

\* What is taken from the queue leaves the rest of it.
LEMMA TakenKeepsPosts ==
    ASSUME ParkedInv, NEW post, Takes(post)
    PROVE  /\ inbox' \in Seq(Posts)
           /\ Head(inbox) \in Posts /\ Head(inbox).post = post
           /\ \A i \in DOMAIN inbox' : \E j \in DOMAIN inbox : inbox'[i] = inbox[j]
BY TakenIsFirst DEF ParkedInv, TypeOK

LEMMA ResizeKeeps == ParkedInv /\ ResizeToContent => ParkedInv'
<1> SUFFICES ASSUME ParkedInv, ResizeToContent PROVE ParkedInv'
    OBVIOUS
<1>1. Takes("resize")
    BY DEF ResizeToContent
<1>2. Head(inbox).height \in Sizes
    BY <1>1, TakenKeepsPosts, PostTypes
<1>3. TypeOK'
    BY <1>1, <1>2, TakenKeepsPosts DEF ParkedInv, TypeOK, ResizeToContent, cycle
<1> QED
    BY <1>1, <1>3, TakenKeepsPosts, RestKeeps DEF ResizeToContent, ResizeMoves, cycle

LEMMA FinishKeeps ==
    ASSUME ParkedInv, NEW post, Takes(post), NEW h \in Sizes,
           phase = "preparing", FinishPreparation(h)
    PROVE  ParkedInv'
<1>1. CASE pending = "none" /\ phase' = "parked"
  <2>1. TypeOK'
    BY <1>1, TakenKeepsPosts DEF ParkedInv, TypeOK, FinishPreparation, SlideIn
  <2> QED
    BY <1>1, <2>1, TakenKeepsPosts, RestKeeps DEF FinishPreparation
<1>2. CASE pending # "none"
  <2>1. /\ SlideIn(IF pending = "settings" THEN "settings" ELSE "main", h)
        /\ timer' \in Nat
    BY <1>2 DEF FinishPreparation
  <2> QED
    BY <2>1, TakenKeepsPosts, SlideInKeeps
<1> QED
    BY <1>1, <1>2 DEF FinishPreparation

LEMMA CompleteKeeps == ParkedInv /\ CompletePreparation => ParkedInv'
<1> SUFFICES ASSUME ParkedInv, CompletePreparation PROVE ParkedInv'
    OBVIOUS
<1> DEFINE m == Head(inbox)
<1>1. Takes("prepared")
    BY DEF CompletePreparation
<1>2. m.height \in Sizes
    BY <1>1, TakenKeepsPosts, PostTypes
<1>3. CASE Latest(m) /\ phase = "preparing" /\ FinishPreparation(m.height)
    BY <1>1, <1>2, <1>3, FinishKeeps
<1>4. CASE /\ phase = "parked" /\ size' = m.height
           /\ UNCHANGED <<cycle, cancelled, place, slides, blind>>
  <2>1. TypeOK'
    BY <1>1, <1>2, <1>4, TakenKeepsPosts DEF ParkedInv, TypeOK, cycle
  <2> QED
    BY <1>1, <1>4, <2>1, TakenKeepsPosts, RestKeeps DEF cycle
<1>5. CASE UNCHANGED <<cycle, cancelled, window, blind>>
  <2>1. TypeOK'
    BY <1>1, <1>5, TakenKeepsPosts DEF ParkedInv, TypeOK, cycle, window
  <2> QED
    BY <1>1, <1>5, <2>1, TakenKeepsPosts, RestKeeps DEF cycle, window
<1> QED
    BY <1>3, <1>4, <1>5 DEF CompletePreparation

LEMMA ExpireKeeps == ParkedInv /\ ExpirePreparation => ParkedInv'
<1> SUFFICES ASSUME ParkedInv, ExpirePreparation PROVE ParkedInv'
    OBVIOUS
<1>1. Takes("expired") /\ size \in Sizes
    BY DEF ExpirePreparation, ParkedInv, TypeOK
<1>2. CASE phase = "preparing" /\ FinishPreparation(size)
    BY <1>1, <1>2, FinishKeeps
<1>3. CASE UNCHANGED <<cycle, cancelled, window, blind>>
  <2>1. TypeOK'
    BY <1>1, <1>3, TakenKeepsPosts DEF ParkedInv, TypeOK, cycle, window
  <2> QED
    BY <1>1, <1>3, <2>1, TakenKeepsPosts, RestKeeps DEF cycle, window
<1> QED
    BY <1>2, <1>3 DEF ExpirePreparation

\* The end of the slide-out is handled: the window is gone by then.
LEMMA SlideEndedKeeps == ParkedInv /\ SlideEnded => ParkedInv'
<1> SUFFICES ASSUME ParkedInv, SlideEnded PROVE ParkedInv'
    OBVIOUS
<1> USE DEF ParkedInv
<1> DEFINE m == Head(inbox)
<1>1. Takes("ended") /\ UNCHANGED <<cancelled, window, blind>>
    BY DEF SlideEnded
<1>2. CASE UNCHANGED cycle
  <2>1. TypeOK'
    BY <1>1, <1>2, TakenKeepsPosts DEF TypeOK, cycle, window
  <2> QED
    BY <1>1, <1>2, <2>1, TakenKeepsPosts, RestKeeps DEF cycle, window
<1>3. CASE /\ Current(m) /\ m.hiding /\ phase = "hiding"
           /\ BeginPreparation(pending) /\ UNCHANGED generation
  <2>1. 1 \in DOMAIN inbox /\ m = inbox[1] /\ m.post = "ended"
    BY <1>1, TakenIsFirst DEF TypeOK
  <2>2. Gone
    BY <1>3, <2>1 DEF GoneWhenEnded, Current
  <2>3. TypeOK'
    BY <1>1, <1>3, TakenKeepsPosts DEF TypeOK, BeginPreparation, window
  <2>4. phase' = "preparing" /\ generation' = generation /\ slides' = slides
    BY <1>1, <1>3 DEF BeginPreparation, window
  <2>5. OneMoves' /\ StepsLeft'
    BY <2>4 DEF OneMoves, StepsLeft
  <2>6. FromThePast'
    <3>1. \A i \in DOMAIN inbox' :
             inbox'[i].post = "ended" => inbox'[i].generation <= generation'
      BY <1>1, <2>4, TakenKeepsPosts DEF FromThePast
    <3> QED
      BY <1>1, <2>4, <3>1 DEF FromThePast
  <2>7. SlideOutIsCurrent' /\ HidesByItself' /\ GoneWhenEnded'
    BY <2>2, <2>4 DEF SlideOutIsCurrent, HidesByItself, GoneWhenEnded, Gone, Of
  <2>8. GoneWhenHidden'
    BY <1>1, <2>2, <2>4 DEF GoneWhenHidden, Gone, Of, window
  <2> QED
    BY <2>3, <2>5, <2>6, <2>7, <2>8
<1> QED
    BY <1>2, <1>3 DEF SlideEnded

LEMMA HideKeeps == ParkedInv /\ Hide => ParkedInv'
<1> SUFFICES ASSUME ParkedInv, Hide PROVE ParkedInv'
    OBVIOUS
<1> USE DEF ParkedInv
<1> DEFINE new == Slide(generation + 1, TRUE, Away)
<1>a. /\ generation \in Nat /\ generation' = generation + 1
      /\ inbox' = inbox /\ cancelled' = cancelled
      /\ phase = "visible"
    BY DEF Hide, TypeOK
<1>b. new \in Slides /\ new.generation = generation + 1 /\ new.hiding = TRUE
      /\ new.at = "wait"
  <2>1. generation + 1 \in Nat
    BY <1>a
  <2> QED
    BY <2>1, NewSlideOut
<1>c. \/ phase' = "hiding" /\ slides' = slides \cup {new}
      \/ phase' = "preparing" /\ slides' = slides /\ blind' = TRUE
    BY DEF Hide, BeginPreparation
<1> HIDE DEF new
<1>p. \A s \in slides : s.generation \in Nat /\ s.generation <= generation /\ ~s.hiding
    BY <1>a DEF FromThePast, SlideOutIsCurrent, TypeOK, Slides
<1>1. TypeOK'
  <2>1. slides' \subseteq Slides
    BY <1>b, <1>c DEF TypeOK
  <2>2. place' \in Sizes \cup {Away, Between} /\ blind' \in BOOLEAN
    BY DEF Hide, TypeOK
  <2>3. prepId' \in Nat /\ timer' \in Nat
    <3>1. prepId \in Nat /\ timer \in Nat
      BY DEF TypeOK
    <3>2. prepId' \in {prepId, prepId + 1} /\ timer' \in {timer, prepId + 1}
      BY DEF Hide, BeginPreparation
    <3> QED
      BY <3>1, <3>2
  <2>4. pending' \in Requests
    BY DEF Hide, BeginPreparation, Requests
  <2> QED
    BY <1>a, <1>c, <2>1, <2>2, <2>3, <2>4 DEF Hide, TypeOK
<1>2. OneMoves'
    BY <1>c, StartsAlone, UNCHANGED slides => OneMoves' DEF OneMoves, new
<1>3. FromThePast'
  <2>1. \A s \in slides' : s.generation <= generation'
    BY <1>a, <1>b, <1>c, <1>p
  <2>2. cancelled' <= generation'
    BY <1>a DEF FromThePast, TypeOK
  <2>3. \A i \in DOMAIN inbox' : inbox'[i].post = "ended" => inbox'[i].generation <= generation'
    BY <1>a, PostTypes DEF FromThePast, TypeOK
  <2> QED
    BY <2>1, <2>2, <2>3 DEF FromThePast
<1>4. SlideOutIsCurrent'
    BY <1>a, <1>b, <1>c, <1>p DEF SlideOutIsCurrent
<1>5. HidesByItself'
    BY <1>a, <1>b, <1>c, <1>p DEF HidesByItself, Of
<1>6. GoneWhenEnded'
    BY <1>a, PostTypes DEF FromThePast, GoneWhenEnded, TypeOK
<1>7. GoneWhenHidden'
    BY <1>a, <1>c, <1>p DEF GoneWhenHidden, Of
<1>8. StepsLeft'
    BY <1>b, <1>c DEF StepsLeft
<1> QED
    BY <1>1, <1>2, <1>3, <1>4, <1>5, <1>6, <1>7, <1>8

-----------------------------------------------------------------------------
\* The steps of a slide keep ParkedInv.

\* A slide s that becomes t; a window that is gone stays so.
LEMMA GoesKeeps ==
    ASSUME ParkedInv, NEW s \in slides, NEW t \in Slides, Goes(s, t),
           t.generation = s.generation, t.hiding = s.hiding,
           s.at # "wait" \/ Moving = {}, t.at = "move" => t.step # Steps,
           place' \in Sizes \cup {Away, Between},
           Gone => place' = place /\ t.at # "move",
           UNCHANGED <<cycle, cancelled, size, inbox, blind>>
    PROVE  ParkedInv'
<1> USE DEF ParkedInv
<1>a. /\ slides' = (slides \ {s}) \cup {t}
      /\ generation' = generation /\ phase' = phase /\ cancelled' = cancelled
      /\ inbox' = inbox /\ blind' = blind
    BY DEF Goes, cycle
<1>1. TypeOK'
    BY <1>a DEF TypeOK, cycle
<1>2. OneMoves' /\ StepsLeft'
    BY <1>a, GoesAlone DEF StepsLeft
<1>3. FromThePast'
    BY <1>a DEF FromThePast
<1>4. SlideOutIsCurrent'
    BY <1>a DEF SlideOutIsCurrent
<1>5. HidesByItself'
    BY <1>a DEF HidesByItself, Of
<1>6. Gone => Gone'
    BY <1>a DEF Gone, Of
<1>7. Of(generation) = {} => Of(generation)' = {}
    BY <1>a DEF Of
<1>8. GoneWhenEnded'
    BY <1>a, <1>6 DEF GoneWhenEnded
<1>9. GoneWhenHidden'
    BY <1>a, <1>6, <1>7 DEF GoneWhenHidden
<1> QED
    BY <1>1, <1>2, <1>3, <1>4, <1>5, <1>8, <1>9

LEMMA StartSlideKeeps ==
    ASSUME ParkedInv, NEW s \in slides, StartSlide(s)
    PROVE  ParkedInv'
<1> DEFINE t == [s EXCEPT !.at = "check"]
<1>1. s \in Slides
    BY DEF ParkedInv, TypeOK
<1>2. t \in Slides /\ t.generation = s.generation /\ t.hiding = s.hiding /\ t.at = "check"
    BY <1>1, SlideAt
<1>3. Goes(s, t) /\ Moving = {} /\ UNCHANGED <<cycle, cancelled, size, place, inbox, blind>>
    BY DEF StartSlide
<1>4. place' \in Sizes \cup {Away, Between}
    BY <1>3 DEF ParkedInv, TypeOK
<1> HIDE DEF t
<1> QED
    BY <1>2, <1>3, <1>4, GoesKeeps

LEMMA CheckSlideKeeps ==
    ASSUME ParkedInv, NEW s \in slides, CheckSlide(s)
    PROVE  ParkedInv'
<1>1. s \in Slides /\ s.at = "check"
      /\ UNCHANGED <<cycle, cancelled, size, place, inbox, blind>>
    BY DEF ParkedInv, TypeOK, CheckSlide
<1>2. place' \in Sizes \cup {Away, Between}
    BY <1>1 DEF ParkedInv, TypeOK
<1>3. CASE s.generation # generation /\ slides' = slides \ {s}
  <2> USE DEF ParkedInv
  <2>1. TypeOK'
    BY <1>1, <1>3 DEF TypeOK, cycle
  <2>2. OneMoves' /\ StepsLeft'
    BY <1>3, EndsAlone DEF StepsLeft
  <2>3. FromThePast' /\ SlideOutIsCurrent' /\ HidesByItself'
    BY <1>1, <1>3 DEF FromThePast, SlideOutIsCurrent, HidesByItself, Of, cycle
  <2>4. GoneWhenEnded' /\ GoneWhenHidden'
    BY <1>1, <1>3 DEF GoneWhenEnded, GoneWhenHidden, Gone, Of, cycle
  <2> QED
    BY <2>1, <2>2, <2>3, <2>4
<1>4. CASE s.generation = generation
           /\ Goes(s, [s EXCEPT !.at = IF Over(s) THEN "end" ELSE "move"])
  <2> DEFINE t == [s EXCEPT !.at = IF Over(s) THEN "end" ELSE "move"]
  <2>1. /\ t \in Slides /\ t.generation = s.generation /\ t.hiding = s.hiding
        /\ t.step = s.step /\ t.at = IF Over(s) THEN "end" ELSE "move"
    <3>1. CASE Over(s)
      BY <1>1, <3>1 DEF Slides
    <3>2. CASE ~Over(s)
      BY <1>1, <3>2 DEF Slides
    <3> QED
      BY <3>1, <3>2
  <2>2. ~Gone
    BY <1>4 DEF Gone, Of
  <2>3. t.at = "move" => t.step # Steps
    BY <2>1 DEF Over
  <2> HIDE DEF t
  <2>4. Goes(s, t)
    BY <1>4 DEF t
  <2> QED
    BY <1>1, <1>2, <2>1, <2>2, <2>3, <2>4, GoesKeeps
<1> QED
    BY <1>3, <1>4 DEF CheckSlide

LEMMA MoveWindowKeeps ==
    ASSUME ParkedInv, NEW s \in slides, MoveWindow(s)
    PROVE  ParkedInv'
<1> DEFINE t == [s EXCEPT !.at = "check", !.step = @ + 1]
<1>1. s \in Slides /\ s.at = "move" /\ s.step # Steps
    BY DEF ParkedInv, TypeOK, StepsLeft, MoveWindow
<1>2. /\ t \in Slides /\ t.generation = s.generation /\ t.hiding = s.hiding
      /\ t.at = "check"
    BY <1>1, SlideMoved
<1>3. Goes(s, t) /\ UNCHANGED <<cycle, cancelled, size, inbox, blind>>
    BY DEF MoveWindow
<1>4. place' \in Sizes \cup {Away, Between}
    BY <1>1 DEF MoveWindow, Slides
<1>5. ~Gone
    BY <1>1 DEF Gone
<1> HIDE DEF t
<1> QED
    BY <1>1, <1>2, <1>3, <1>4, <1>5, GoesKeeps

\* The last thing a slide-out does is to park the window.
LEMMA EndSlideKeeps ==
    ASSUME ParkedInv, NEW s \in slides, EndSlide(s)
    PROVE  ParkedInv'
<1> USE DEF ParkedInv
<1>a. /\ slides' = slides \ {s} /\ s.at = "end" /\ s \in Slides
      /\ generation' = generation /\ phase' = phase /\ cancelled' = cancelled
      /\ place' = (IF s.hiding THEN Away ELSE place) /\ blind' = blind
      /\ inbox' = Append(inbox, Ended(s)) /\ inbox \in Seq(Posts)
    BY DEF TypeOK, EndSlide, cycle
<1>b. /\ Ended(s) \in Posts /\ Ended(s).post = "ended"
      /\ Ended(s).generation = s.generation /\ Ended(s).hiding = s.hiding
    BY <1>a, PostTypes
<1>c. /\ inbox' \in Seq(Posts)
      /\ \A i \in DOMAIN inbox' :
            (i \in DOMAIN inbox /\ inbox'[i] = inbox[i]) \/ inbox'[i] = Ended(s)
    BY <1>a, <1>b, PostedIsLast
<1>d. \A t \in slides : t.at = "move" => FALSE
    BY <1>a DEF OneMoves
<1>1. TypeOK'
    BY <1>a, <1>c DEF TypeOK, EndSlide, cycle
<1>2. OneMoves' /\ \A t \in slides' : t.generation # s.generation
    BY <1>a, EndsAlone
<1>3. FromThePast'
    BY <1>a, <1>b, <1>c DEF FromThePast
<1>4. SlideOutIsCurrent' /\ HidesByItself' /\ StepsLeft'
    BY <1>a DEF SlideOutIsCurrent, HidesByItself, StepsLeft, Of
<1>5. Gone => Gone'
    BY <1>a DEF Gone, Of
<1>6. GoneWhenEnded'
  <2> SUFFICES ASSUME NEW i \in DOMAIN inbox', phase' = "hiding",
                      inbox'[i].post = "ended", inbox'[i].hiding,
                      inbox'[i].generation = generation'
               PROVE  Gone'
    BY DEF GoneWhenEnded
  <2>1. CASE i \in DOMAIN inbox /\ inbox'[i] = inbox[i]
    BY <1>a, <1>5, <2>1 DEF GoneWhenEnded
  <2>2. CASE inbox'[i] = Ended(s)
    <3>1. s.hiding /\ s.generation = generation
      BY <1>a, <1>b, <2>2
    <3> QED
      BY <1>a, <1>d, <1>2, <3>1 DEF Gone, Of
  <2> QED
    BY <1>c, <2>1, <2>2
<1>7. GoneWhenHidden'
    BY <1>a, <1>5 DEF GoneWhenHidden, Of
<1> QED
    BY <1>1, <1>2, <1>3, <1>4, <1>6, <1>7

-----------------------------------------------------------------------------
\* What may happen to the window, whoever asks for it.
Acts ==
    \/ Show \/ ShowSettings \/ Hide
    \/ \E want \in {"show", "settings"} : ShowLater(want)
    \/ UIThread \/ Animate \/ TimerFires \/ PagePosts
    \/ UNCHANGED <<cycle, cancelled, window, inbox, blind>>

LEMMA NextActs == [Next]_goVars => Acts
BY DEF Next, GoStep, UserAsks, ShowSettingsOfVisible, Acts, goVars

\* The foreground adds when the window acts, and nothing it does.
LEMMA ToggleActs == [ToggleNext]_vars => Acts
<1> SUFFICES ASSUME [ToggleNext]_vars PROVE Acts
    OBVIOUS
<1>1. UserAsks \/ UIThread \/ Animate \/ TimerFires \/ PagePosts => Acts
    BY DEF UserAsks, ShowSettingsOfVisible, Acts
<1>2. WindowStays => Acts
    BY DEF WindowStays, Acts
<1>3. ASSUME NEW toShell, Loses(toShell)
      PROVE  Hide \/ WindowStays
    BY <1>3 DEF Loses, Deactivated
<1>4. TakesOver \/ PressIcon => Acts
    BY <1>2, <1>3 DEF TakesOver, PressIcon, Acts
<1>5. ComesBack \/ TimePasses \/ PressHotkey => Acts
    BY <1>2 DEF ComesBack, TimePasses, PressHotkey
<1>6. ToggleVisibility => Acts
    BY <1>2 DEF ToggleVisibility, Acts
<1>7. UNCHANGED vars => Acts
    BY DEF vars, goVars, Acts
<1> QED
    BY <1>1, <1>4, <1>5, <1>6, <1>7
       DEF ToggleNext, UserStep, UIStep, SlideStep, TimerStep, PageStep

LEMMA ParkedInit == Init => ParkedInv
<1> SUFFICES ASSUME Init PROVE ParkedInv
    OBVIOUS
<1>1. inbox = <<>> /\ inbox \in Seq(Posts) /\ DOMAIN inbox = {}
    BY DEF Init
<1>2. TypeOK
    BY <1>1, WindowAssumption DEF Init, TypeOK, Requests
<1>3. OneMoves /\ StepsLeft /\ FromThePast /\ SlideOutIsCurrent /\ HidesByItself
    BY <1>1 DEF Init, OneMoves, StepsLeft, FromThePast, SlideOutIsCurrent, HidesByItself, Of
<1>4. GoneWhenEnded /\ GoneWhenHidden
    BY <1>1 DEF Init, GoneWhenEnded, GoneWhenHidden, Gone, Of
<1> QED
    BY <1>2, <1>3, <1>4 DEF ParkedInv

LEMMA ParkedStep == ParkedInv /\ Acts => ParkedInv'
<1> SUFFICES ASSUME ParkedInv, Acts PROVE ParkedInv'
    OBVIOUS
<1>1. CASE Show \/ ShowSettings \/ Hide
    BY <1>1, ShowKeeps, ShowSettingsKeeps, HideKeeps
<1>2. CASE \E want \in {"show", "settings"} : ShowLater(want)
    BY <1>2, ShowLaterKeeps
<1>3. CASE UIThread
    BY <1>3, SlideEndedKeeps, ResizeKeeps, CompleteKeeps, ExpireKeeps DEF UIThread
<1>4. CASE Animate
    BY <1>4, StartSlideKeeps, CheckSlideKeeps, MoveWindowKeeps, EndSlideKeeps DEF Animate
<1>5. CASE TimerFires \/ PagePosts
    BY <1>5, TimerFiresKeeps, PagePostsKeeps
<1>6. CASE UNCHANGED <<cycle, cancelled, window, inbox, blind>>
    BY <1>6, NothingKeeps
<1> QED
    BY <1>1, <1>2, <1>3, <1>4, <1>5, <1>6 DEF Acts

LEMMA ParkedFollows == ParkedInv => TypeOK /\ ParkedIsAway
BY DEF ParkedInv, GoneWhenHidden, Gone, ParkedIsAway

\* A window counted as hidden is off-screen, with any page, any user and any
\* number of slides replaced on the way.
THEOREM ParkedIsAwayHolds == Spec => [](TypeOK /\ ParkedIsAway)
<1>1. ParkedInv /\ [Next]_goVars => ParkedInv'
    BY ParkedStep, NextActs
<1> QED
    BY <1>1, ParkedInit, ParkedFollows, PTL DEF Spec

\* The same where the user's clicks, the hotkey and the loss of the foreground
\* ask for the shows and the hides.
THEOREM ToggleParkedIsAway == ToggleSpec => [](TypeOK /\ ParkedIsAway)
<1>1. ToggleInit => ParkedInv
    BY ParkedInit DEF ToggleInit
<1>2. ParkedInv /\ [ToggleNext]_vars => ParkedInv'
    BY ParkedStep, ToggleActs
<1> QED
    BY <1>1, <1>2, ParkedFollows, PTL DEF ToggleSpec

-----------------------------------------------------------------------------
\* Every action keeps InTheCorner.

\* Of nothing that matters to a slide-in under way, anything but the place of
\* a resized window changes.
LEMMA CornerRests ==
    ASSUME InTheCorner, slides' = slides, generation' = generation,
           phase' # "visible" \/ blind' \/ cancelled' = generation'
           \/ UNCHANGED <<phase, blind, cancelled, size, place>>
    PROVE  InTheCorner'
BY DEF InTheCorner, Of

LEMMA CornerSlideIn ==
    ASSUME Steps # 0, ParkedInv, NEW v, NEW h \in Sizes, SlideIn(v, h)
    PROVE  InTheCorner'
<1> DEFINE new == Slide(generation + 1, FALSE, h)
<1>a. generation \in Nat /\ generation' = generation + 1
    BY DEF SlideIn, ParkedInv, TypeOK
<1>1. /\ new.generation = generation + 1 /\ new.to = h
      /\ new.at = "wait" /\ new.step = 0
    BY DEF Slide
<1>2. \A s \in slides : s.generation # generation + 1
    BY <1>a DEF ParkedInv, TypeOK, FromThePast, Slides
<1> HIDE DEF new
<1>3. CASE slides' = slides \cup {new}
  <2>1. Of(generation)' = {new}
    BY <1>a, <1>1, <1>2, <1>3 DEF Of
  <2>2. size' = h
    BY DEF SlideIn
  <2> QED
    BY <1>1, <2>1, <2>2 DEF InTheCorner
<1>4. CASE blind'
    BY <1>4 DEF InTheCorner
<1> QED
    BY <1>3, <1>4 DEF SlideIn, new

LEMMA CornerUIThread ==
    ASSUME Steps # 0, ParkedInv, InTheCorner, UIThread
    PROVE  InTheCorner'
<1>1. CASE SlideEnded
    BY <1>1, CornerRests DEF SlideEnded, BeginPreparation, cycle, window
<1>2. CASE ResizeToContent
  <2>1. phase' = phase /\ generation' = generation /\ slides' = slides /\ blind' = blind
    BY <1>2 DEF ResizeToContent, cycle
  <2>2. CASE phase = "visible" /\ size # Head(inbox).height
    BY <1>2, <2>1, <2>2, CornerRests DEF ResizeToContent, ResizeMoves
  <2>3. CASE phase = "visible" /\ size = Head(inbox).height
    BY <1>2, <2>1, <2>3, CornerRests DEF ResizeToContent, ResizeMoves
  <2> QED
    BY <2>1, <2>2, <2>3, CornerRests
<1>3. ASSUME NEW h \in Sizes, FinishPreparation(h)
      PROVE  InTheCorner'
  <2>1. CASE phase' = "parked" /\ UNCHANGED <<generation, slides>>
    BY <2>1, CornerRests
  <2>2. CASE SlideIn(IF pending = "settings" THEN "settings" ELSE "main", h)
    BY <2>2, CornerSlideIn
  <2> QED
    BY <1>3, <2>1, <2>2 DEF FinishPreparation
<1>4. CASE CompletePreparation
  <2>1. Head(inbox).height \in Sizes
    BY <1>4, TakenKeepsPosts, PostTypes DEF CompletePreparation
  <2>2. CASE FinishPreparation(Head(inbox).height)
    BY <1>3, <2>1, <2>2
  <2>3. CASE phase = "parked" /\ UNCHANGED <<cycle, cancelled, place, slides, blind>>
    BY <2>3, CornerRests DEF cycle
  <2>4. CASE UNCHANGED <<cycle, cancelled, window, blind>>
    BY <2>4, CornerRests DEF cycle, window
  <2> QED
    BY <1>4, <2>2, <2>3, <2>4 DEF CompletePreparation
<1>5. CASE ExpirePreparation
  <2>1. CASE FinishPreparation(size)
    BY <1>3, <2>1 DEF ParkedInv, TypeOK
  <2>2. CASE UNCHANGED <<cycle, cancelled, window, blind>>
    BY <2>2, CornerRests DEF cycle, window
  <2> QED
    BY <1>5, <2>1, <2>2 DEF ExpirePreparation
<1> QED
    BY <1>1, <1>2, <1>4, <1>5 DEF UIThread

\* The slide-in of the last show goes its way alone: one that was replaced
\* while it was past animMu makes its step before this one begins.
LEMMA CornerAnimate ==
    ASSUME ParkedInv, InTheCorner, Animate
    PROVE  InTheCorner'
<1>1. SUFFICES ASSUME phase = "visible", ~blind, cancelled # generation
               PROVE  InTheCorner'
    BY DEF Animate, StartSlide, CheckSlide, MoveWindow, EndSlide, cycle, InTheCorner
<1>2. PICK s \in slides : StartSlide(s) \/ CheckSlide(s) \/ MoveWindow(s) \/ EndSlide(s)
    BY DEF Animate
<1>3. generation' = generation /\ size' = size
    BY <1>2 DEF StartSlide, CheckSlide, MoveWindow, EndSlide, cycle
<1>4. s \in Slides /\ ~s.hiding
    BY <1>1 DEF ParkedInv, TypeOK, SlideOutIsCurrent
<1>5. \A t \in slides \ {s} :
        /\ t.generation # s.generation
        /\ s.at # "wait" => t.at = "wait"
    BY DEF ParkedInv, OneMoves
<1>6. /\ \A t \in Of(generation) :
            /\ t.to = size
            /\ t.at \in {"wait", "move"} => t.step # Steps
            /\ (t.at = "check" /\ t.step = Steps) \/ t.at = "end" => place = size
      /\ Of(generation) = {} => place = size /\ \A t \in slides : t.at # "move"
    BY <1>1 DEF InTheCorner
<1>7. CASE StartSlide(s)
  <2> DEFINE t == [s EXCEPT !.at = "check"]
  <2>1. t.generation = s.generation /\ t.to = s.to /\ t.step = s.step /\ t.at = "check"
    BY <1>4, SlideAt
  <2>2. slides' = (slides \ {s}) \cup {t} /\ place' = place /\ s.at = "wait"
    BY <1>7 DEF StartSlide, Goes
  <2> HIDE DEF t
  <2> QED
    BY <1>3, <1>5, <1>6, <2>1, <2>2 DEF InTheCorner, Of
<1>8. CASE CheckSlide(s)
  <2>1. s.at = "check" /\ place' = place
    BY <1>8 DEF CheckSlide
  <2>2. CASE s.generation # generation /\ slides' = slides \ {s}
    BY <1>3, <1>6, <2>1, <2>2 DEF InTheCorner, Of
  <2>3. CASE s.generation = generation /\ s.step = Steps
             /\ Goes(s, [s EXCEPT !.at = "end"])
    <3> DEFINE t == [s EXCEPT !.at = "end"]
    <3>1. t.generation = s.generation /\ t.to = s.to /\ t.at = "end"
      BY <1>4, SlideAt
    <3>2. slides' = (slides \ {s}) \cup {t}
      BY <2>3 DEF Goes
    <3> HIDE DEF t
    <3>3. s \in Of(generation) /\ \A u \in Of(generation)' : u = t
      BY <1>3, <1>5, <2>3, <3>1, <3>2 DEF Of
    <3>4. t \in Of(generation)'
      BY <1>3, <2>3, <3>1, <3>2 DEF Of
    <3> QED
      BY <1>3, <1>6, <2>1, <2>3, <3>1, <3>3, <3>4 DEF InTheCorner
  <2>4. CASE s.generation = generation /\ s.step # Steps
             /\ Goes(s, [s EXCEPT !.at = "move"])
    <3> DEFINE t == [s EXCEPT !.at = "move"]
    <3>1. t.generation = s.generation /\ t.to = s.to /\ t.step = s.step /\ t.at = "move"
      BY <1>4, SlideAt
    <3>2. slides' = (slides \ {s}) \cup {t}
      BY <2>4 DEF Goes
    <3> HIDE DEF t
    <3>3. s \in Of(generation) /\ \A u \in Of(generation)' : u = t
      BY <1>3, <1>5, <2>4, <3>1, <3>2 DEF Of
    <3>4. t \in Of(generation)'
      BY <1>3, <2>4, <3>1, <3>2 DEF Of
    <3> QED
      BY <1>3, <1>6, <2>4, <3>1, <3>3, <3>4 DEF InTheCorner
  <2> QED
    BY <1>1, <1>8, <2>2, <2>3, <2>4 DEF CheckSlide, Over
<1>9. CASE MoveWindow(s)
  <2> DEFINE t == [s EXCEPT !.at = "check", !.step = @ + 1]
  <2>1. s.at = "move" /\ s.step # Steps
    BY <1>9 DEF MoveWindow, ParkedInv, StepsLeft
  <2>2. t.generation = s.generation /\ t.to = s.to /\ t.step = s.step + 1 /\ t.at = "check"
    BY <1>4, <2>1, SlideMoved
  <2>3. /\ slides' = (slides \ {s}) \cup {t}
        /\ place' = IF s.step + 1 = Steps THEN s.to ELSE Between
    BY <1>4, <1>9 DEF MoveWindow, Goes
  <2> HIDE DEF t
  <2>4. CASE s.generation = generation
    <3>1. s \in Of(generation) /\ \A u \in Of(generation)' : u = t
      BY <1>3, <1>5, <2>2, <2>3, <2>4 DEF Of
    <3>2. t \in Of(generation)'
      BY <1>3, <2>2, <2>3, <2>4 DEF Of
    <3> QED
      BY <1>3, <1>6, <2>2, <2>3, <3>1, <3>2 DEF InTheCorner
  <2>5. CASE s.generation # generation
    <3>1. \A u \in Of(generation) : u.at = "wait"
      BY <1>5, <2>1, <2>5 DEF Of
    <3>2. Of(generation) # {} /\ Of(generation)' = Of(generation)
      BY <1>3, <1>6, <2>1, <2>2, <2>3, <2>5 DEF Of
    <3> QED
      BY <1>3, <1>6, <3>1, <3>2 DEF InTheCorner
  <2> QED
    BY <2>4, <2>5
<1>10. CASE EndSlide(s)
  <2>1. s.at = "end" /\ slides' = slides \ {s} /\ place' = place
    BY <1>4, <1>10 DEF EndSlide
  <2>2. \A u \in slides' : u.at = "wait"
    BY <1>5, <2>1
  <2>3. CASE s.generation = generation
    <3>1. s \in Of(generation) /\ Of(generation)' = {}
      BY <1>3, <1>5, <2>1, <2>3 DEF Of
    <3> QED
      BY <1>3, <1>6, <2>1, <2>2, <3>1 DEF InTheCorner
  <2>4. CASE s.generation # generation
    <3>1. Of(generation)' = Of(generation)
      BY <1>3, <2>1, <2>4 DEF Of
    <3> QED
      BY <1>3, <1>6, <2>1, <2>2, <3>1 DEF InTheCorner
  <2> QED
    BY <2>3, <2>4
<1> QED
    BY <1>2, <1>7, <1>8, <1>9, <1>10

LEMMA CornerStep ==
    ASSUME Steps # 0, ParkedInv, InTheCorner, Acts
    PROVE  InTheCorner'
<1>1. CASE Show
    BY <1>1, CornerSlideIn DEF Show, ParkedInv, TypeOK
<1>2. CASE ShowSettings \/ Hide
    BY <1>2 DEF ShowSettings, Hide, BeginPreparation, InTheCorner
<1>3. CASE \E want \in {"show", "settings"} : ShowLater(want)
    BY <1>3, CornerRests DEF ShowLater, window
<1>4. CASE UIThread
    BY <1>4, CornerUIThread
<1>5. CASE Animate
    BY <1>5, CornerAnimate
<1>6. CASE TimerFires \/ PagePosts \/ UNCHANGED <<cycle, cancelled, window, inbox, blind>>
    BY <1>6, CornerRests DEF TimerFires, PagePosts, cycle, window
<1> QED
    BY <1>1, <1>2, <1>3, <1>4, <1>5, <1>6 DEF Acts

LEMMA CornerFollows == InTheCorner => EndsInCorner
BY DEF InTheCorner, EndsInCorner, SlidIn, Of

LEMMA CornerInit == Init => InTheCorner
BY DEF Init, InTheCorner

\* A slide-in that nothing overtook has ended in the corner of the size the
\* window then has, whatever slides it replaced and whatever the page posted;
\* a slide has at least one step (steps in animateY).
THEOREM EndsInCornerHolds ==
    ASSUME Steps # 0
    PROVE  Spec => []EndsInCorner
<1>1. Init => ParkedInv /\ InTheCorner
    BY ParkedInit, CornerInit
<1>2. ParkedInv /\ InTheCorner /\ [Next]_goVars => ParkedInv' /\ InTheCorner'
    BY ParkedStep, CornerStep, NextActs
<1> QED
    BY <1>1, <1>2, CornerFollows, PTL DEF Spec

\* The same where clicks, the hotkey and the foreground ask for the shows.
THEOREM ToggleEndsInCorner ==
    ASSUME Steps # 0
    PROVE  ToggleSpec => []EndsInCorner
<1>1. ToggleInit => ParkedInv /\ InTheCorner
    BY ParkedInit, CornerInit DEF ToggleInit
<1>2. ParkedInv /\ InTheCorner /\ [ToggleNext]_vars => ParkedInv' /\ InTheCorner'
    BY ParkedStep, CornerStep, ToggleActs
<1> QED
    BY <1>1, <1>2, CornerFollows, PTL DEF ToggleSpec

-----------------------------------------------------------------------------
\* What a press that waits was meant for, and what is left of the window the
\* user saw.

Losses == [age : {"none", "now", "recent"}, toShell : BOOLEAN, hid : BOOLEAN]

LossTypes == hides \in BOOLEAN /\ lost \in Losses

\* A loss of the foreground is known until it comes back.
LossIsOver ==
    /\ Ours => lost.age = "none"
    /\ user = "ours" /\ shell /\ lost.age # "none" => lost.toShell

\* What was hidden stays so, and what was not in front does not get there.
OpenWaits ==
    click.meant = "open" => phase # "visible" /\ pending = "none" /\ lost.age # "now"

FrontWaits == click.meant = "front" => phase = "visible" /\ ~Ours

\* The window the user worked in is still in front; or it has gone by itself;
\* or it is on screen without the foreground, and the reason is known; or the
\* reason is no longer known, and the click is late.
CloseWaits ==
    click.meant = "close" =>
        \/ ~click.tray /\ phase = "visible" /\ Ours
        \/ click.tray /\ hides /\ phase # "visible" /\ pending = "none" /\ lost.hid
        \/ click.tray /\ hides /\ lost.age # "now"
        \/ /\ click.tray /\ ~hides /\ phase = "visible"
           /\ lost.age # "none" => lost.toShell

ClickInv == LossTypes /\ LossIsOver /\ OpenWaits /\ FrontWaits /\ CloseWaits

LEMMA NoLossIsLoss == NoLoss \in Losses /\ NoLoss.age = "none" /\ ~NoLoss.toShell
BY DEF NoLoss, Losses

LEMMA SaysOther ==
    /\ <<>> # <<OpenSettings>>
    /\ \A a, b, v : /\ <<Transition(a, b)>> # <<OpenSettings>>
                    /\ <<Transition(a, b), v>> # <<OpenSettings>>
<1>1. \A c : c.call = "transition" => <<c>> # <<OpenSettings>>
  <2> SUFFICES ASSUME NEW c, c.call = "transition", <<c>> = <<OpenSettings>> PROVE FALSE
    OBVIOUS
  <2>1. <<c>>[1] = <<OpenSettings>>[1]
    OBVIOUS
  <2>2. c = OpenSettings
    BY <2>1
  <2>3. OpenSettings.call = "openSettings"
    BY DEF OpenSettings
  <2> QED
    BY <2>2, <2>3
<1>2. \A a, b : Transition(a, b).call = "transition"
    BY DEF Transition
<1>3. \A c, v : Len(<<c, v>>) # Len(<<OpenSettings>>)
    OBVIOUS
<1>4. Len(<<>>) # Len(<<OpenSettings>>)
    OBVIOUS
<1> QED
    BY <1>1, <1>2, <1>3, <1>4

\* What goes on by itself shows nothing that was not asked for, hides nothing,
\* and never opens Settings.
LEMMA GoesOn ==
    ASSUME UIThread \/ Animate \/ TimerFires \/ PagePosts
    PROVE  /\ phase = "visible" => phase' = "visible" /\ generation' = generation
           /\ phase # "visible" /\ pending = "none" => phase' # "visible" /\ pending' = "none"
           /\ said' # <<OpenSettings>>
<1> USE SaysOther DEF Silent, Says
<1>1. CASE SlideEnded
    BY <1>1 DEF SlideEnded, BeginPreparation, cycle
<1>2. CASE ResizeToContent \/ Animate \/ TimerFires \/ PagePosts
    BY <1>2 DEF ResizeToContent, Animate, StartSlide, CheckSlide, MoveWindow, EndSlide,
                TimerFires, PagePosts, cycle
<1>3. ASSUME NEW h, FinishPreparation(h), phase = "preparing"
      PROVE  /\ pending = "none" => phase' # "visible" /\ pending' = "none"
             /\ said' # <<OpenSettings>>
    BY <1>3 DEF FinishPreparation, SlideIn
<1>4. CASE CompletePreparation \/ ExpirePreparation
    BY <1>3, <1>4 DEF CompletePreparation, ExpirePreparation, cycle
<1> QED
    BY <1>1, <1>2, <1>4 DEF UIThread

\* Steps of the window, and what they mean for the foreground.
LEMMA BesideKeeps ==
    ASSUME ClickInv, Beside,
           \/ click = NoClick
           \/ UIThread \/ Animate \/ TimerFires \/ PagePosts
    PROVE  ClickInv'
<1> USE DEF ClickInv
<1>a. hides' = hides /\ click' = click
    BY DEF Beside
<1>b. lost' = lost \/ lost' = NoLoss
    BY DEF Beside, Activated
<1>c. \/ user' = "other"
      \/ user' = "ours" /\ shell' = FALSE
      \/ user' = user /\ shell' = shell
    BY DEF Beside, Follows, OffScreen, SetForeground
<1>1. LossTypes'
    BY <1>a, <1>b, NoLossIsLoss DEF LossTypes
<1>2. LossIsOver'
  <2>1. Ours' => lost'.age = "none"
    BY <1>b DEF Beside, Activated, LossIsOver, NoLoss
  <2>2. ASSUME user' = "ours", shell', lost'.age # "none"
        PROVE  lost'.toShell
    <3>1. lost' = lost
      BY <1>b, <2>2, NoLossIsLoss
    <3>2. user' = user /\ shell' = shell
      BY <1>c, <2>2
    <3> QED
      BY <2>2, <3>1, <3>2 DEF LossIsOver
  <2> QED
    BY <2>1, <2>2 DEF LossIsOver
<1>3. OpenWaits' /\ FrontWaits' /\ CloseWaits'
  <2>1. CASE click = NoClick
    BY <1>a, <2>1 DEF NoClick, OpenWaits, FrontWaits, CloseWaits
  <2>2. CASE click # NoClick
    <3>1. /\ phase = "visible" => phase' = "visible" /\ generation' = generation
          /\ phase # "visible" /\ pending = "none" => phase' # "visible" /\ pending' = "none"
          /\ said' # <<OpenSettings>>
      BY <2>2, GoesOn
    <3>2. phase = "visible" => user' = user /\ shell' = shell
      BY <1>a, <2>2, <3>1 DEF Beside, Follows, Followed
    <3>3. phase = "visible" => Ours' = Ours
      BY <3>2 DEF Ours
    <3>4. OpenWaits'
      BY <1>a, <1>b, <3>1 DEF OpenWaits, NoLoss
    <3>5. FrontWaits'
      BY <1>a, <3>1, <3>3 DEF FrontWaits
    <3>6. CloseWaits'
      BY <1>a, <1>b, <3>1, <3>3 DEF CloseWaits, NoLoss
    <3> QED
      BY <3>4, <3>5, <3>6
  <2> QED
    BY <2>1, <2>2
<1> QED
    BY <1>1, <1>2, <1>3

\* A loss of the foreground.
LEMMA LosesKeeps ==
    ASSUME ClickInv, NEW toShell \in BOOLEAN, Loses(toShell), hides' = hides
    PROVE  LossTypes' /\ LossIsOver'
<1> USE DEF ClickInv
<1>1. CASE Ours /\ phase = "visible" /\ ~fresh
  <2>1. lost' = [age |-> "now", toShell |-> toShell, hid |-> hides]
    BY <1>1 DEF Loses, Deactivated
  <2>2. ~Ours'
    BY <1>1 DEF Loses, OffScreen, Ours
  <2>3. user' = "ours" /\ shell' => toShell
    BY DEF Loses, OffScreen
  <2> QED
    BY <2>1, <2>2, <2>3 DEF LossTypes, Losses, LossIsOver
<1>2. CASE ~(Ours /\ phase = "visible" /\ ~fresh)
  <2>1. lost' = lost
    BY <1>2 DEF Loses, Deactivated
  <2>2. ~Ours'
    BY DEF Loses, OffScreen, Ours
  <2>3. user' = "ours" /\ shell' => user = "ours" /\ toShell
    BY DEF Loses, OffScreen
  <2>4. user' = "ours" /\ shell' /\ lost'.age # "none" => lost'.toShell
    BY <2>1, <2>3 DEF LossIsOver, Ours
  <2> QED
    BY <2>1, <2>2, <2>4 DEF LossTypes, LossIsOver
<1> QED
    BY <1>1, <1>2

LEMMA PressIconKeeps == ClickInv /\ PressIcon => ClickInv'
<1> SUFFICES ASSUME ClickInv, PressIcon PROVE ClickInv'
    OBVIOUS
<1> USE DEF ClickInv
<1>1. Loses(TRUE) /\ hides' = hides /\ click' = [tray |-> TRUE, meant |-> Meant(TRUE)]
    BY DEF PressIcon
<1>2. LossTypes' /\ LossIsOver'
    BY <1>1, LosesKeeps
<1>3. ASSUME Meant(TRUE) = "open"
      PROVE  phase' # "visible" /\ pending' = "none" /\ lost'.age # "now"
    BY <1>1, <1>3 DEF Meant, Loses, Deactivated, WindowStays, cycle
<1>4. ASSUME Meant(TRUE) = "front"
      PROVE  phase' = "visible" /\ ~Ours'
    BY <1>1, <1>4 DEF Meant, Loses, Deactivated, WindowStays, OffScreen, Ours, cycle
<1>5. ASSUME Meant(TRUE) = "close"
      PROVE  \/ hides' /\ phase' # "visible" /\ pending' = "none" /\ lost'.hid
             \/ hides' /\ lost'.age # "now"
             \/ ~hides' /\ phase' = "visible" /\ (lost'.age # "none" => lost'.toShell)
  <2>1. phase = "visible" /\ user = "ours" /\ ~fresh /\ lost.age # "now"
    BY <1>5 DEF Meant
  <2>2. CASE Ours /\ hides
    <3>1. Hide /\ lost'.hid
      BY <1>1, <2>1, <2>2 DEF Loses, Deactivated
    <3> QED
      BY <1>1, <2>2, <3>1 DEF Hide, BeginPreparation
  <2>3. CASE Ours /\ ~hides
    <3>1. WindowStays /\ lost'.toShell
      BY <1>1, <2>1, <2>3 DEF Loses, Deactivated
    <3> QED
      BY <1>1, <2>1, <2>3, <3>1 DEF WindowStays, cycle
  <2>4. CASE ~Ours
    <3>1. lost' = lost /\ WindowStays /\ shell
      BY <1>1, <2>1, <2>4 DEF Loses, Deactivated, Ours
    <3> QED
      BY <1>1, <2>1, <3>1 DEF WindowStays, cycle, LossIsOver
  <2> QED
    BY <2>2, <2>3, <2>4
<1>6. OpenWaits' /\ FrontWaits' /\ CloseWaits'
    BY <1>1, <1>3, <1>4, <1>5 DEF OpenWaits, FrontWaits, CloseWaits
<1> QED
    BY <1>2, <1>6

LEMMA PressHotkeyKeeps == ClickInv /\ PressHotkey => ClickInv'
<1> SUFFICES ASSUME ClickInv, PressHotkey PROVE ClickInv'
    OBVIOUS
<1> USE DEF ClickInv
<1>1. /\ click' = [tray |-> FALSE, meant |-> Meant(FALSE)]
      /\ UNCHANGED <<user, shell, hides, lost, phase, pending>>
    BY DEF PressHotkey, WindowStays, focus, cycle
<1>2. LossTypes' /\ LossIsOver'
    BY <1>1 DEF LossTypes, LossIsOver, Ours
<1>3. OpenWaits' /\ FrontWaits'
    BY <1>1 DEF OpenWaits, FrontWaits, Meant, Ours
<1>4. CloseWaits'
    BY <1>1 DEF CloseWaits, Meant, Ours
<1> QED
    BY <1>2, <1>3, <1>4

LEMMA ClickStep == ClickInv /\ [ToggleNext]_vars => ClickInv'
<1> SUFFICES ASSUME ClickInv, [ToggleNext]_vars PROVE ClickInv'
    OBVIOUS
<1> USE DEF ClickInv
<1>1. CASE UserStep \/ UIStep \/ SlideStep \/ TimerStep \/ PageStep
    BY <1>1, BesideKeeps DEF UserStep, UIStep, SlideStep, TimerStep, PageStep
<1>2. CASE TakesOver
  <2>1. click = NoClick /\ click' = click /\ hides' = hides
        /\ (Loses(TRUE) \/ Loses(FALSE))
    BY <1>2 DEF TakesOver
  <2>2. LossTypes' /\ LossIsOver'
    BY <2>1, LosesKeeps
  <2> QED
    BY <2>1, <2>2 DEF OpenWaits, FrontWaits, CloseWaits, NoClick
<1>3. CASE ComesBack
  <2>1. click = NoClick /\ click' = click /\ hides' = hides /\ lost' = NoLoss
    BY <1>3 DEF ComesBack, Activated, Ours
  <2> QED
    BY <2>1, NoLossIsLoss
       DEF LossTypes, LossIsOver, OpenWaits, FrontWaits, CloseWaits, NoClick
<1>4. CASE TimePasses
  <2>1. UNCHANGED <<user, shell, hides, click, phase, pending>>
    BY <1>4 DEF TimePasses, WindowStays, cycle
  <2>2. \/ lost' = lost \/ lost' = NoLoss
        \/ /\ lost.age = "now" /\ lost'.age = "recent"
           /\ lost'.toShell = lost.toShell /\ lost'.hid = lost.hid
    BY <1>4 DEF TimePasses, LossTypes, Losses
  <2>3. LossTypes'
    <3>1. lost' \in {lost, NoLoss, [lost EXCEPT !.age = "recent"]}
      BY <1>4 DEF TimePasses
    <3>2. [lost EXCEPT !.age = "recent"] \in Losses
      BY DEF LossTypes, Losses
    <3> QED
      BY <2>1, <3>1, <3>2, NoLossIsLoss DEF LossTypes
  <2>4. LossIsOver'
    BY <2>1, <2>2 DEF LossIsOver, Ours, NoLoss
  <2>5. OpenWaits' /\ FrontWaits'
    BY <2>1, <2>2 DEF OpenWaits, FrontWaits, Ours, NoLoss
  <2>6. CloseWaits'
    BY <2>1, <2>2 DEF CloseWaits, Ours, NoLoss
  <2> QED
    BY <2>3, <2>4, <2>5, <2>6
<1>5. CASE PressIcon \/ PressHotkey
    BY <1>5, PressIconKeeps, PressHotkeyKeeps
<1>6. CASE ToggleVisibility
  <2>1. click' = NoClick /\ lost' = NoLoss /\ hides' = hides
    BY <1>6 DEF ToggleVisibility
  <2> QED
    BY <2>1, NoLossIsLoss
       DEF LossTypes, LossIsOver, OpenWaits, FrontWaits, CloseWaits, NoClick
<1>7. CASE UNCHANGED vars
    BY <1>7 DEF vars, goVars, focus, cycle, LossTypes, LossIsOver, Ours,
                OpenWaits, FrontWaits, CloseWaits
<1> QED
    BY <1>1, <1>2, <1>3, <1>4, <1>5, <1>6, <1>7 DEF ToggleNext

\* What decideToggle makes of a press is what it was meant for.
LEMMA PressIsAnswered == ClickInv /\ ToggleVisibility => Answered
<1> SUFFICES ASSUME ClickInv, ToggleVisibility PROVE Answered
    OBVIOUS
<1> USE DEF ClickInv
<1>1. ASSUME click.meant = "open"
      PROVE  phase' = "visible" \/ pending' # "none"
  <2>1. Decision = "show" /\ pending = "none"
    BY <1>1 DEF OpenWaits, Decision
  <2> QED
    BY <2>1 DEF ToggleVisibility, Show, SlideIn, ShowLater, Stronger
<1>2. ASSUME click.meant = "close", InTime
      PROVE  phase' # "visible" /\ pending' = "none"
  <2>1. CASE phase = "visible" /\ Decision = "hide"
    BY <2>1 DEF ToggleVisibility, Hide, BeginPreparation
  <2>2. CASE phase # "visible" /\ pending = "none" /\ Decision = "nothing"
    BY <2>2 DEF ToggleVisibility, WindowStays, cycle
  <2> QED
    BY <1>2, <2>1, <2>2 DEF CloseWaits, InTime, Decision
<1>3. ASSUME click.meant = "front", ~lost.toShell
      PROVE  phase' = "visible"
  <2>1. phase = "visible" /\ Decision = "focus"
    BY <1>3 DEF FrontWaits, Decision
  <2> QED
    BY <2>1 DEF ToggleVisibility, WindowStays, cycle
<1> QED
    BY <1>1, <1>2, <1>3 DEF Answered

\* A click on the tray icon or the hotkey does what the user meant when he saw
\* the window, whatever the window has done by the time the press is handled:
\* a hidden window opens, the one he worked in closes, the one behind another
\* program comes forward.
THEOREM ClickIsMeantHolds == ToggleSpec => ClickIsMeant
<1>1. ToggleInit => ClickInv
    BY NoLossIsLoss DEF ToggleInit, ClickInv, LossTypes, LossIsOver, Ours, OpenWaits,
                        FrontWaits, CloseWaits, NoClick
<1>2. ClickInv /\ [ToggleNext]_vars => ClickInv'
    BY ClickStep
<1>3. ClickInv /\ [ToggleNext]_vars =>
        [click # NoClick /\ click' = NoClick => Answered]_vars
  <2> SUFFICES ASSUME ClickInv, ToggleNext, click # NoClick, click' = NoClick
               PROVE  Answered
    OBVIOUS
  <2>1. ToggleVisibility
    BY DEF ToggleNext, UserStep, UIStep, SlideStep, TimerStep, PageStep, Beside,
           TakesOver, ComesBack, TimePasses, PressIcon, PressHotkey
  <2> QED
    BY <2>1, PressIsAnswered
<1> QED
    BY <1>1, <1>2, <1>3, PTL DEF ToggleSpec, ClickIsMeant

=============================================================================
