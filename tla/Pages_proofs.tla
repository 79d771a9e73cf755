----------------------------- MODULE Pages_proofs -----------------------------
(***************************************************************************)
(* Theorems about the viewer's pages: the panels of a page, the time range *)
(* and its picker, and the loader's checklist, for any number of panels,   *)
(* queries, slots, days and ranges.                                        *)
(*                                                                         *)
(* What the recursive functions of these components compute is shown by    *)
(* induction over a set of numbers (InductionUpTo): a solution of the      *)
(* equation exists, so the function is one, and what it returns is bounded *)
(* step by step.                                                           *)
(***************************************************************************)
EXTENDS Screens_proofs, SequenceTheorems, FiniteSetTheorems, WellFoundedInduction

-----------------------------------------------------------------------------
(* Least elements. *)

\* A set of naturals that is not empty has a least element (from the
\* well-foundedness of <).
LEMMA LeastNat ==
    ASSUME NEW S \in SUBSET Nat, S # {}
    PROVE  \E least \in S : \A n \in S : least <= n
<1> DEFINE less == OpToRel(<, Nat)
<1>1. IsWellFoundedOn(less, Nat)
  BY NatLessThanWellFounded
<1>2. PICK least \in S : \A n \in S : <<n, least>> \notin less
  <2> HIDE DEF less
  <2> QED BY <1>1, WFMin
<1>3. \A n \in S : ~(n < least)
  BY <1>2 DEF OpToRel
<1>4. least \in Nat /\ \A n \in S : n \in Nat
  BY <1>2
<1>5. \A n \in S : least <= n
  <2> HIDE DEF less
  <2> QED BY <1>3, <1>4
<1> QED
  BY <1>4, <1>5


\* Induction up to a bound, over the set of numbers for which something holds.
LEMMA InductionUpTo ==
    ASSUME NEW N \in Nat, NEW S, 0 \in S, \A k \in 1 .. N : k - 1 \in S => k \in S
    PROVE  \A k \in 0 .. N : k \in S
<1> DEFINE missing == {k \in 0 .. N : k \notin S}
<1>1. missing \in SUBSET Nat
  OBVIOUS
<1>2. SUFFICES ASSUME missing # {} PROVE FALSE
  OBVIOUS
<1>3. PICK m \in missing : \A k \in missing : m <= k
  <2> HIDE DEF missing
  <2> QED BY <1>1, <1>2, LeastNat
<1>4. m \in 0 .. N /\ m # 0 /\ m \notin S
  BY <1>3
<1>5. m - 1 \in 0 .. N /\ ~(m <= m - 1) /\ m \in 1 .. N
  BY <1>4
<1> QED
  BY <1>3, <1>4, <1>5

\* A function that is defined from one number to the next exists.
Builds(f, n, x0, step) == f[0] = x0 /\ \A k \in 1 .. n : f[k] = step[<<f[k - 1], k>>]

LEMMA Recursion ==
    ASSUME NEW N \in Nat, NEW X, NEW x0 \in X, NEW step \in [X \X (1 .. N) -> X]
    PROVE  \E f \in [0 .. N -> X] : Builds(f, N, x0, step)
<1> DEFINE S == {n \in 0 .. N : \E f \in [0 .. n -> X] : Builds(f, n, x0, step)}
<1>1. 0 \in S
  <2>1. Builds([k \in 0 .. 0 |-> x0], 0, x0, step)
    BY DEF Builds
  <2>2. [k \in 0 .. 0 |-> x0] \in [0 .. 0 -> X]
    OBVIOUS
  <2> QED BY <2>1, <2>2
<1>2. ASSUME NEW n \in 1 .. N, n - 1 \in S
      PROVE  n \in S
  <2>1. PICK f \in [0 .. n - 1 -> X] : Builds(f, n - 1, x0, step)
    BY <1>2
  <2> DEFINE g == [k \in 0 .. n |-> IF k = n THEN step[<<f[n - 1], n>>] ELSE f[k]]
  <2>2. f[n - 1] \in X /\ step[<<f[n - 1], n>>] \in X
    <3>1. n - 1 \in 0 .. n - 1
      OBVIOUS
    <3>2. f[n - 1] \in X
      BY <3>1
    <3> QED BY <3>2
  <2>3. \A k \in 0 .. n : k # n => k \in 0 .. n - 1
    OBVIOUS
  <2>4. g \in [0 .. n -> X]
    BY <2>2, <2>3
  <2>5. g[0] = x0
    <3>1. 0 \in 0 .. n /\ 0 # n
      OBVIOUS
    <3> QED BY <2>1, <3>1 DEF Builds
  <2>6. ASSUME NEW k \in 1 .. n
        PROVE  g[k] = step[<<g[k - 1], k>>]
    <3>1. k \in 0 .. n /\ k - 1 \in 0 .. n /\ k - 1 # n
      OBVIOUS
    <3>2. g[k - 1] = f[k - 1]
      BY <3>1
    <3>3. CASE k = n
      BY <3>1, <3>2, <3>3
    <3>4. CASE k # n
      <4>1. k \in 1 .. n - 1
        BY <3>4
      <4>2. f[k] = step[<<f[k - 1], k>>]
        BY <2>1, <4>1 DEF Builds
      <4> QED BY <3>1, <3>2, <3>4, <4>2
    <3> QED BY <3>3, <3>4
  <2> HIDE DEF g
  <2>7. Builds(g, n, x0, step)
    BY <2>5, <2>6 DEF Builds
  <2> QED BY <2>4, <2>7
<1>3. N \in S
  <2> HIDE DEF S
  <2> QED BY <1>1, <1>2, InductionUpTo
<1> QED
  BY <1>3

-----------------------------------------------------------------------------
(* Where a panel's answers begin. *)

LastPanel == Len(PanelWidths)

LEMMA PanelTypes ==
    /\ LastPanel \in Nat \ {0}
    /\ Panels = 1 .. LastPanel
    /\ \A p \in Panels : PanelWidths[p] \in Nat \ {0}
BY PanelAssumption DEF LastPanel, Panels

\* The recursion has a solution, so Offset is one.
LEMMA OffsetUnfolds ==
    \A p \in Panels : Offset[p] = IF p = 1 THEN 0 ELSE Offset[p - 1] + PanelWidths[p - 1]
<1> DEFINE step == [begin \in Nat \X (1 .. LastPanel) |-> begin[1] + PanelWidths[begin[2]]]
<1>1. LastPanel \in Nat /\ step \in [Nat \X (1 .. LastPanel) -> Nat]
  BY PanelTypes
<1>2. PICK f \in [0 .. LastPanel -> Nat] : Builds(f, LastPanel, 0, step)
  <2> HIDE DEF step
  <2> QED BY <1>1, Recursion
<1> DEFINE g == [p \in Panels |-> f[p - 1]]
<1>3. ASSUME NEW p \in Panels
      PROVE  g[p] = IF p = 1 THEN 0 ELSE g[p - 1] + PanelWidths[p - 1]
  <2>1. CASE p = 1
    <3>1. p - 1 = 0
      BY <2>1
    <3> QED
      BY <1>2, <2>1, <3>1 DEF Builds
  <2>2. CASE p # 1
    <3>1. p - 1 \in Panels /\ p - 1 \in 1 .. LastPanel /\ p - 2 \in 0 .. LastPanel
          /\ (p - 1) - 1 = p - 2
      BY <2>2, PanelTypes
    <3>2. f[p - 2] \in Nat
      BY <1>2, <3>1
    <3>3. f[p - 1] = step[<<f[p - 2], p - 1>>]
      <4> HIDE DEF step
      <4> QED BY <1>2, <3>1 DEF Builds
    <3>4. step[<<f[p - 2], p - 1>>] = f[p - 2] + PanelWidths[p - 1]
      BY <3>1, <3>2
    <3> QED
      BY <2>2, <3>1, <3>3, <3>4
  <2> QED
    BY <2>1, <2>2
<1> HIDE DEF g
<1>4. g = [p \in Panels |-> IF p = 1 THEN 0 ELSE g[p - 1] + PanelWidths[p - 1]]
  BY <1>3 DEF g
<1>5. Offset = [p \in Panels |-> IF p = 1 THEN 0 ELSE Offset[p - 1] + PanelWidths[p - 1]]
  BY <1>4 DEF Offset
<1> QED
  BY <1>5

\* Where a panel's answers begin and end: they are numbers, and they end no
\* later than those of the last panel.
LEMMA OffsetBounds ==
    /\ \A p \in Panels : Offset[p] \in Nat
    /\ \A p \in Panels :
          Offset[p] + PanelWidths[p] <= Offset[LastPanel] + PanelWidths[LastPanel]
<1> DEFINE ends == Offset[LastPanel] + PanelWidths[LastPanel]
           numbers == {k \in 0 .. LastPanel - 1 : Offset[k + 1] \in Nat}
           within == {d \in 0 .. LastPanel - 1 :
                        Offset[LastPanel - d] + PanelWidths[LastPanel - d] <= ends}
<1>1. /\ LastPanel - 1 \in Nat /\ LastPanel \in Nat
      /\ Panels = 1 .. LastPanel
      /\ \A p \in Panels : PanelWidths[p] \in Nat
  BY PanelTypes
<1>2. \A k \in 0 .. LastPanel - 1 : k \in numbers
  <2>1. 0 \in numbers
    BY <1>1, OffsetUnfolds
  <2>2. ASSUME NEW k \in 1 .. LastPanel - 1, k - 1 \in numbers
        PROVE  k \in numbers
    <3>1. k \in Panels /\ k + 1 \in Panels /\ (k - 1) + 1 = k /\ (k + 1) - 1 = k /\ k + 1 # 1
      BY <1>1
    <3> QED
      BY <1>1, <2>2, <3>1, OffsetUnfolds
  <2> HIDE DEF numbers
  <2> QED
    BY <1>1, <2>1, <2>2, InductionUpTo
<1>3. ASSUME NEW p \in Panels
      PROVE  Offset[p] \in Nat
  <2>1. p - 1 \in 0 .. LastPanel - 1 /\ (p - 1) + 1 = p
    BY <1>1
  <2> QED
    BY <1>2, <2>1
<1>4. \A d \in 0 .. LastPanel - 1 : d \in within
  <2>1. 0 \in within
    BY <1>1, <1>3
  <2>2. ASSUME NEW d \in 1 .. LastPanel - 1, d - 1 \in within
        PROVE  d \in within
    <3> DEFINE p == LastPanel - d
    <3>1. p \in Panels /\ p + 1 \in Panels /\ p + 1 # 1 /\ (p + 1) - 1 = p
          /\ LastPanel - (d - 1) = p + 1
      BY <1>1
    <3>2. Offset[p + 1] + PanelWidths[p + 1] <= ends
      BY <2>2, <3>1
    <3>3. Offset[p + 1] = Offset[p] + PanelWidths[p]
      BY <3>1, OffsetUnfolds
    <3>4. LastPanel \in Panels
      BY <1>1
    <3>5. Offset[p] \in Nat /\ PanelWidths[p] \in Nat /\ PanelWidths[p + 1] \in Nat /\ ends \in Nat
      BY <1>1, <1>3, <3>1, <3>4
    <3> HIDE DEF p, ends
    <3>6. Offset[p] + PanelWidths[p] <= ends
      BY <3>2, <3>3, <3>5
    <3> QED
      BY <3>6 DEF p
  <2> HIDE DEF within
  <2> QED
    BY <1>1, <2>1, <2>2, InductionUpTo
<1>5. ASSUME NEW p \in Panels
      PROVE  Offset[p] + PanelWidths[p] <= ends
  <2>1. LastPanel - p \in 0 .. LastPanel - 1 /\ LastPanel - (LastPanel - p) = p
    BY <1>1
  <2> QED
    BY <1>4, <2>1
<1> QED
  BY <1>3, <1>5

\* A panel's answers are among those of the page.
LEMMA OwnIds ==
    ASSUME NEW p \in Panels, NEW i \in 1 .. PanelWidths[p]
    PROVE  Offset[p] + i \in PanelQueryIds
<1>1. LastPanel \in Panels /\ \A q \in Panels : PanelWidths[q] \in Nat /\ Offset[q] \in Nat
  BY PanelTypes, OffsetBounds
<1>2. Offset[p] + PanelWidths[p] <= Offset[LastPanel] + PanelWidths[LastPanel]
  BY OffsetBounds
<1>3. PanelQueryIds = 1 .. Offset[LastPanel] + PanelWidths[LastPanel]
  BY DEF PanelQueryIds, LastPanel
<1> QED
  BY <1>1, <1>2, <1>3

-----------------------------------------------------------------------------
(* Queries and panels. *)

\* A step of the composition is one of the page in use, or leaves the page's
\* queries alone.
LEMMA PanelSteps ==
    ASSUME [Next]_vars
    PROVE  PanelNext \/ UNCHANGED panelVars
<1>1. ASSUME NEW place \in ScreenNames, Navigate(place)
      PROVE  UNCHANGED panelVars
  BY <1>1 DEF Navigate
<1>2. CASE Import
  BY <1>2 DEF Import
<1>3. CASE Loading
  BY <1>3 DEF Loading
<1>4. CASE Table
  BY <1>4 DEF Table
<1>5. CASE Page
  BY <1>5 DEF Page
<1>6. CASE Picker
  BY <1>6 DEF Picker
<1>7. CASE UNCHANGED vars
  BY <1>7 DEF vars
<1> QED
  BY <1>1, <1>2, <1>3, <1>4, <1>5, <1>6, <1>7 DEF Next

AnswerSets == [PanelQueryIds -> PanelQueryIds \cup {0}]
Requests == [place: Places, stage: {"none", "running", "done"}, answers: AnswerSets]

LEMMA RequestTypes ==
    /\ NoAnswers \in AnswerSets
    /\ NoRequest \in Requests
    /\ [NoRequest EXCEPT !.stage = "done"] \in Requests
    /\ [NoRequest EXCEPT !.stage = "done"].answers = NoAnswers
    /\ \A place \in Places :
          [place |-> place, stage |-> "running", answers |-> NoAnswers] \in Requests
<1>1. NoAnswers \in AnswerSets
  BY DEF NoAnswers, AnswerSets
<1> QED
  BY <1>1 DEF NoRequest, Requests, Places

\* What an answer makes of a request.
LEMMA AnswerTypes ==
    ASSUME NEW r \in Requests, NEW q \in PanelQueryIds
    PROVE  /\ [r EXCEPT !.answers = Placed(@, q)] \in Requests
           /\ [r EXCEPT !.answers = Placed(@, q)].answers
                 = [i \in PanelQueryIds |-> IF i = q THEN q ELSE r.answers[i]]
BY DEF Requests, AnswerSets, Placed

LEMMA PanelTypesHold ==
    /\ PanelInit => PanelTypeOK
    /\ PanelTypeOK /\ (PanelNext \/ UNCHANGED panelVars)
          => PanelTypeOK'
<1>1. PanelInit => PanelTypeOK
  <2> SUFFICES ASSUME PanelInit PROVE PanelTypeOK
    OBVIOUS
  <2>1. request \in [Versions -> Requests]
    BY RequestTypes DEF PanelInit
  <2>2. 0 \in 0 .. MaxVersions
    BY PanelAssumption
  <2>3. DOMAIN panels = Panels /\ busyFlag \in BOOLEAN /\ page \in PageKinds \cup {"none"}
    BY DEF PanelInit, NoPanels
  <2> QED
    BY <2>1, <2>2, <2>3 DEF PanelInit, PanelTypeOK, Requests, AnswerSets
<1>2. ASSUME PanelTypeOK, PanelNext \/ UNCHANGED panelVars
      PROVE  PanelTypeOK'
  <2>1. /\ request \in [Versions -> Requests] /\ wanted \in 0 .. MaxVersions
        /\ MaxVersions \in Nat \ {0} /\ Versions = 1 .. MaxVersions
    BY <1>2, PanelAssumption DEF PanelTypeOK, Requests, AnswerSets, Versions
  <2>2. ASSUME NEW place \in Places, NEW kind \in PageKinds, Mount(kind, place)
        PROVE  PanelTypeOK'
    <3>1. request' \in [Versions -> Requests]
      BY <2>1, <2>2, RequestTypes DEF Mount, Ask
    <3>2. page' \in PageKinds /\ wanted' \in 0 .. MaxVersions /\ busyFlag' \in BOOLEAN
      BY <2>1, <2>2 DEF Mount, HasFlag
    <3> QED
      BY <1>2, <2>2, <3>1, <3>2 DEF PanelTypeOK, Mount, Requests, AnswerSets
  <2>3. ASSUME NEW place \in Places, Want(place)
        PROVE  PanelTypeOK'
    <3>1. request' \in [Versions -> Requests]
      BY <2>1, <2>3, RequestTypes DEF Want, Ask
    <3>2. wanted' \in 0 .. MaxVersions /\ busyFlag' \in BOOLEAN
      BY <2>1, <2>3 DEF Want, HasFlag
    <3> QED
      BY <1>2, <2>3, <3>1, <3>2 DEF PanelTypeOK, Want, Requests, AnswerSets
  <2>4. ASSUME NEW place \in Places, AskAgain(place)
        PROVE  PanelTypeOK'
    <3>1. request' \in [Versions -> Requests]
      BY <2>1, <2>4, RequestTypes DEF AskAgain, Ask
    <3>2. wanted' \in 0 .. MaxVersions /\ failure' \in 0 .. MaxVersions
      BY <2>1, <2>4 DEF AskAgain
    <3> QED
      BY <1>2, <2>4, <3>1, <3>2 DEF PanelTypeOK, AskAgain, Requests, AnswerSets
  <2>5. ASSUME NEW v \in Versions, Succeeds(v)
        PROVE  PanelTypeOK'
    <3>1. request' \in [Versions -> Requests]
      BY <2>1, <2>5, RequestTypes DEF Succeeds, Close
    <3>2. shown' \in 0 .. MaxVersions /\ failure' \in 0 .. MaxVersions
      BY <1>2, <2>1, <2>5 DEF Succeeds, PanelTypeOK
    <3>3. DOMAIN panels' = Panels /\ busyFlag' \in BOOLEAN
      BY <1>2, <2>5 DEF Succeeds, PanelTypeOK, Slices
    <3> QED
      BY <1>2, <2>5, <3>1, <3>2, <3>3 DEF PanelTypeOK, Succeeds, Requests, AnswerSets
  <2>6. ASSUME NEW v \in Versions, Fails(v)
        PROVE  PanelTypeOK'
    <3>1. request' \in [Versions -> Requests]
      BY <2>1, <2>6, RequestTypes DEF Fails, Close
    <3>2. shown' \in 0 .. MaxVersions /\ failure' \in 0 .. MaxVersions
      BY <1>2, <2>1, <2>6 DEF Fails, PanelTypeOK
    <3>3. DOMAIN panels' = Panels /\ busyFlag' \in BOOLEAN
      BY <1>2, <2>6 DEF Fails, PanelTypeOK, NoPanels
    <3> QED
      BY <1>2, <2>6, <3>1, <3>2, <3>3 DEF PanelTypeOK, Fails, Requests, AnswerSets
  <2>7. ASSUME NEW v \in Versions, NEW q \in PanelQueryIds, AnswerOf(v, q)
        PROVE  PanelTypeOK'
    <3>1. request[v] \in Requests
      BY <2>1
    <3>2. [request[v] EXCEPT !.answers = Placed(@, q)] \in Requests
      BY <3>1, AnswerTypes
    <3>3. request' \in [Versions -> Requests]
      BY <2>1, <2>7, <3>2 DEF AnswerOf
    <3> QED
      BY <1>2, <2>7, <3>3 DEF PanelTypeOK, AnswerOf, Requests, AnswerSets
  <2>8. CASE Unmount
    <3>1. request' \in [Versions -> Requests]
      BY <2>8, RequestTypes DEF Unmount
    <3>2. 0 \in 0 .. MaxVersions
      BY <2>1
    <3>3. DOMAIN panels' = Panels /\ busyFlag' \in BOOLEAN /\ page' \in PageKinds \cup {"none"}
      BY <2>8 DEF Unmount, NoPanels
    <3> QED
      BY <2>8, <3>1, <3>2, <3>3 DEF PanelTypeOK, Unmount, Requests, AnswerSets
  <2>9. CASE UNCHANGED panelVars
    BY <1>2, <2>9 DEF PanelTypeOK, panelVars
  <2> QED
    BY <1>2, <2>2, <2>3, <2>4, <2>5, <2>6, <2>7, <2>8, <2>9 DEF PanelNext, PanelProgress
<1> QED
  BY <1>1, <1>2

\* A page that is neither busy nor failed shows what is wanted: a step that
\* changes what is wanted makes it busy, and one that ends being busy shows it.
LEMMA IdleHolds ==
    /\ PanelInit => IdleShowsWanted
    /\ PanelTypeOK /\ IdleShowsWanted /\ (PanelNext \/ UNCHANGED panelVars)
          => IdleShowsWanted'
<1>1. PanelInit => IdleShowsWanted
  BY DEF PanelInit, IdleShowsWanted, HasFlag, Displayed
<1>2. ASSUME PanelTypeOK, IdleShowsWanted, PanelNext \/ UNCHANGED panelVars
      PROVE  IdleShowsWanted'
  <2>1. page' = "histogram" => Displayed' \in {0, wanted'}
    BY DEF Displayed
  <2> SUFFICES HasFlag(page') /\ ~busyFlag' /\ failure' = 0 => shown' = wanted'
    BY <2>1 DEF IdleShowsWanted
  <2>2. ASSUME NEW place \in Places, NEW kind \in PageKinds, Mount(kind, place)
        PROVE  HasFlag(page') => busyFlag'
    BY <2>2 DEF Mount
  <2>3. ASSUME NEW place \in Places, Want(place)
        PROVE  HasFlag(page') => busyFlag'
    BY <2>3 DEF Want
  <2>4. ASSUME NEW place \in Places, AskAgain(place)
        PROVE  ~HasFlag(page')
    BY <2>4 DEF AskAgain, HasFlag
  <2>5. ASSUME NEW v \in Versions, Succeeds(v)
        PROVE  HasFlag(page') /\ ~busyFlag' /\ failure' = 0 => shown' = wanted'
    <3>1. CASE StillActive(v)
      BY <2>5, <3>1 DEF Succeeds, StillActive
    <3>2. CASE ~StillActive(v)
      BY <1>2, <2>5, <3>2 DEF Succeeds, IdleShowsWanted
    <3> QED
      BY <3>1, <3>2
  <2>6. ASSUME NEW v \in Versions, Fails(v)
        PROVE  HasFlag(page') /\ ~busyFlag' /\ failure' = 0 => shown' = wanted'
    <3>1. CASE StillActive(v)
      <4>1. failure' = v /\ v # 0
        BY <2>6, <3>1, PanelAssumption DEF Fails, Versions
      <4> QED
        BY <4>1
    <3>2. CASE ~StillActive(v)
      BY <1>2, <2>6, <3>2 DEF Fails, IdleShowsWanted
    <3> QED
      BY <3>1, <3>2
  <2>7. ASSUME NEW v \in Versions, NEW q \in PanelQueryIds, AnswerOf(v, q)
        PROVE  HasFlag(page') /\ ~busyFlag' /\ failure' = 0 => shown' = wanted'
    BY <1>2, <2>7 DEF AnswerOf, IdleShowsWanted
  <2>8. CASE Unmount
    BY <2>8 DEF Unmount, HasFlag
  <2>9. CASE UNCHANGED panelVars
    BY <1>2, <2>9 DEF IdleShowsWanted, panelVars
  <2> QED
    BY <1>2, <2>2, <2>3, <2>4, <2>5, <2>6, <2>7, <2>8, <2>9 DEF PanelNext, PanelProgress
<1> QED
  BY <1>1, <1>2

\* The answers of a request are at the places of their queries, so the panels
\* they are sliced into have their own.
AnswersInPlace ==
    \A v \in Versions, q \in PanelQueryIds : request[v].answers[q] \in {0, q}

LEMMA SlicesAreOwn ==
    ASSUME NEW results, \A q \in PanelQueryIds : results[q] = q
    PROVE  \A p \in Panels :
              Slices(results)[p] = [i \in 1 .. PanelWidths[p] |-> Offset[p] + i]
<1>1. ASSUME NEW p \in Panels, NEW i \in 1 .. PanelWidths[p]
      PROVE  results[Offset[p] + i] = Offset[p] + i
  BY OwnIds
<1> QED
  BY <1>1 DEF Slices

LEMMA AnswersHold ==
    /\ PanelInit => AnswersInPlace /\ OwnAnswers
    /\ PanelTypeOK /\ AnswersInPlace /\ OwnAnswers /\ (PanelNext \/ UNCHANGED panelVars)
          => AnswersInPlace' /\ OwnAnswers'
<1>1. PanelInit => AnswersInPlace /\ OwnAnswers
  BY DEF PanelInit, AnswersInPlace, OwnAnswers, NoPanels, NoRequest, NoAnswers
<1>2. ASSUME PanelTypeOK, AnswersInPlace, OwnAnswers, PanelNext \/ UNCHANGED panelVars
      PROVE  AnswersInPlace' /\ OwnAnswers'
  <2>1. request \in [Versions -> Requests]
    BY <1>2 DEF PanelTypeOK, Requests, AnswerSets
  <2>2. ASSUME NEW place \in Places, NEW v, Ask(v, place)
        PROVE  AnswersInPlace'
    BY <1>2, <2>1, <2>2 DEF AnswersInPlace, Ask, NoAnswers
  <2>3. ASSUME NEW v \in Versions, Close(v)
        PROVE  AnswersInPlace'
    BY <1>2, <2>1, <2>3, RequestTypes DEF AnswersInPlace, Close, NoAnswers
  <2>4. ASSUME panels' = panels
        PROVE  OwnAnswers'
    BY <1>2, <2>4 DEF OwnAnswers
  <2>5. ASSUME NEW place \in Places, NEW kind \in PageKinds, Mount(kind, place)
        PROVE  AnswersInPlace' /\ OwnAnswers'
    BY <2>2, <2>4, <2>5 DEF Mount
  <2>6. ASSUME NEW place \in Places, Want(place)
        PROVE  AnswersInPlace' /\ OwnAnswers'
    BY <2>2, <2>4, <2>6 DEF Want
  <2>7. ASSUME NEW place \in Places, AskAgain(place)
        PROVE  AnswersInPlace' /\ OwnAnswers'
    BY <2>2, <2>4, <2>7 DEF AskAgain
  <2>8. ASSUME NEW v \in Versions, Succeeds(v)
        PROVE  AnswersInPlace' /\ OwnAnswers'
    <3>1. AnswersInPlace'
      BY <2>3, <2>8 DEF Succeeds
    <3>2. CASE ~StillActive(v)
      BY <2>4, <2>8, <3>1, <3>2 DEF Succeeds
    <3>3. CASE StillActive(v)
      <4> DEFINE results == IF request[v].place = "remote" THEN request[v].answers
                            ELSE [q \in PanelQueryIds |-> q]
      <4>1. panels' = Slices(results)
        BY <2>8, <3>3 DEF Succeeds
      <4>2. ASSUME NEW q \in PanelQueryIds
            PROVE  results[q] = q
        <5>1. CASE request[v].place = "remote"
          <6>1. request[v].answers \in AnswerSets /\ 0 \notin Range(request[v].answers)
            BY <2>1, <2>8, <5>1 DEF Succeeds, Answered, Requests
          <6>2. request[v].answers[q] # 0
            BY <6>1 DEF AnswerSets, Range
          <6>3. request[v].answers[q] \in {0, q}
            BY <1>2 DEF AnswersInPlace
          <6> QED
            BY <5>1, <6>2, <6>3
        <5>2. CASE request[v].place # "remote"
          BY <5>2
        <5> QED
          BY <5>1, <5>2
      <4> HIDE DEF results
      <4>3. \A p \in Panels : panels'[p] = [i \in 1 .. PanelWidths[p] |-> Offset[p] + i]
        BY <4>1, <4>2, SlicesAreOwn
      <4> QED
        BY <3>1, <4>3 DEF OwnAnswers
    <3> QED
      BY <3>2, <3>3
  <2>9. ASSUME NEW v \in Versions, Fails(v)
        PROVE  AnswersInPlace' /\ OwnAnswers'
    <3>1. AnswersInPlace'
      BY <2>3, <2>9 DEF Fails
    <3>2. panels' = panels \/ panels' = NoPanels
      BY <2>9 DEF Fails
    <3> QED
      BY <2>4, <3>1, <3>2 DEF OwnAnswers, NoPanels
  <2>10. ASSUME NEW v \in Versions, NEW q \in PanelQueryIds, AnswerOf(v, q)
         PROVE  AnswersInPlace' /\ OwnAnswers'
    <3>1. request[v] \in Requests
      BY <2>1
    <3>2. /\ request' = [request EXCEPT ![v] = [request[v] EXCEPT !.answers = Placed(@, q)]]
          /\ panels' = panels
      BY <2>10 DEF AnswerOf
    <3> DEFINE answered == [request[v] EXCEPT !.answers = Placed(@, q)]
    <3>3. answered.answers = [i \in PanelQueryIds |-> IF i = q THEN q ELSE request[v].answers[i]]
      BY <3>1, AnswerTypes
    <3> HIDE DEF answered
    <3>4. \A u \in Versions : request'[u] = IF u = v THEN answered ELSE request[u]
      BY <2>1, <3>2 DEF answered
    <3>5. AnswersInPlace'
      BY <1>2, <3>3, <3>4 DEF AnswersInPlace
    <3> QED
      BY <2>4, <3>2, <3>5
  <2>11. CASE Unmount
    BY <2>11 DEF Unmount, AnswersInPlace, OwnAnswers, NoPanels, NoRequest, NoAnswers
  <2>12. CASE UNCHANGED panelVars
    BY <1>2, <2>12 DEF AnswersInPlace, OwnAnswers, panelVars
  <2> QED
    BY <1>2, <2>5, <2>6, <2>7, <2>8, <2>9, <2>10, <2>11, <2>12 DEF PanelNext, PanelProgress
<1> QED
  BY <1>1, <1>2

PanelInv == PanelTypeOK /\ IdleShowsWanted /\ AnswersInPlace /\ OwnAnswers

LEMMA PanelInvariant == Spec => []PanelInv
<1>1. Init => PanelInv
  BY PanelTypesHold, IdleHolds, AnswersHold DEF Init, PanelInv
<1>2. ASSUME PanelInv, [Next]_vars
      PROVE  PanelInv'
  BY <1>2, PanelSteps, PanelTypesHold, IdleHolds, AnswersHold DEF PanelInv
<1> QED
  BY <1>1, <1>2, PTL DEF Spec

(* A page that says neither that it is busy nor that it failed shows what it *)
(* is asked for, however many requests for other versions are under way and *)
(* in whichever order they end (useResults, GenericDashboard).              *)
THEOREM IdlePagesShowWanted == Spec => []IdleShowsWanted
<1>1. PanelInv => IdleShowsWanted
  BY DEF PanelInv
<1> QED
  BY <1>1, PanelInvariant, PTL

(* Every panel shows the answers of its own queries, for any number and     *)
(* widths of panels and in whatever order the answers come (useResults).    *)
THEOREM PanelsShowTheirOwn == Spec => []OwnAnswers
<1>1. PanelInv => OwnAnswers
  BY DEF PanelInv
<1> QED
  BY <1>1, PanelInvariant, PTL

-----------------------------------------------------------------------------
(* The time range. *)

\* Division keeps the order.
LEMMA DivisionIsMonotone ==
    ASSUME NEW a \in Int, NEW b \in Int, NEW d \in Nat \ {0}, a <= b
    PROVE  a \div d <= b \div d
OBVIOUS

\* A day ends no earlier than any of its instants.
LEMMA DayEnds ==
    ASSUME NEW t \in Int
    PROVE  /\ DayOf(t) \in Int
           /\ Midnight(DayOf(t)) <= t
           /\ t <= EndOf(DayOf(t))
BY TimeAssumption DEF DayOf, EndOf, Midnight

Ends == {"from", "to"}
Ranges == [timeRange: {"quick", "all", "custom"}, length: Int,
           customFrom: Expressions, customTo: Expressions]
ProperRange(s) == s \in Ranges /\ (isQuick(s) => s.length \in Quick)
Pairs == Expressions \X Expressions

\* What is chosen, and what is remembered, has its type.
TimeInv ==
    /\ TimeTypeOK
    /\ ProperRange(settings)
    /\ recent \in Seq(Pairs)

LEMMA ExpressionTypes ==
    /\ Empty \in Expressions
    /\ \A k \in Int : Now(k) \in Expressions /\ At(k) \in Expressions /\ Date(k) \in Expressions
BY DEF Empty, Now, At, Date, Expressions

LEMMA SlotTypes ==
    /\ DaySlots \in Nat \ {0, 1} /\ LastDay \in Nat /\ MaxRecent \in Nat \ {0}
    /\ Quick \subseteq Nat
    /\ Slots \subseteq Nat
    /\ \A t : t \in Slots <=> t \in Nat /\ t <= EndOf(LastDay)
    /\ EndOf(LastDay) \in Nat /\ EndOf(LastDay) - 1 \in Slots
<1>1. DaySlots \in Nat \ {0, 1} /\ LastDay \in Nat /\ MaxRecent \in Nat \ {0} /\ Quick \subseteq Nat
  BY TimeAssumption
<1>2. LastDay * DaySlots \in Nat /\ (LastDay + 1) * DaySlots = LastDay * DaySlots + DaySlots
  BY <1>1
<1>3. EndOf(LastDay) \in Nat /\ EndOf(LastDay) >= 1 /\ Slots = 0 .. EndOf(LastDay)
  BY <1>1, <1>2 DEF EndOf, Slots
<1> QED
  BY <1>1, <1>3

LEMMA RangeTypes ==
    /\ ProperRange(AllTime)
    /\ \A q \in Quick : ProperRange(QuickRange(q))
    /\ \A f \in Expressions, t \in Expressions :
          ProperRange(Custom(f, t)) /\ ProperRange(rangeFromInputs(f, t))
<1>1. ASSUME NEW name \in {"quick", "all", "custom"}, NEW q \in Int,
             NEW f \in Expressions, NEW t \in Expressions
      PROVE  /\ Setting(name, q, f, t) \in Ranges
             /\ Setting(name, q, f, t).timeRange = name
             /\ Setting(name, q, f, t).length = q
  BY DEF Setting, Ranges
<1>2. ProperRange(AllTime)
  <2>1. AllTime \in Ranges /\ AllTime.timeRange = "all"
    BY <1>1, ExpressionTypes DEF AllTime
  <2> QED
    BY <2>1 DEF ProperRange, isQuick
<1>3. ASSUME NEW q \in Quick
      PROVE  ProperRange(QuickRange(q))
  <2>1. q \in Int
    BY SlotTypes
  <2>2. QuickRange(q) \in Ranges /\ QuickRange(q).length = q
    BY <1>1, <2>1, ExpressionTypes DEF QuickRange
  <2> QED
    BY <2>2 DEF ProperRange
<1>4. ASSUME NEW f \in Expressions, NEW t \in Expressions
      PROVE  ProperRange(Custom(f, t)) /\ ProperRange(rangeFromInputs(f, t))
  <2>1. Custom(f, t) \in Ranges /\ Custom(f, t).timeRange = "custom"
    BY <1>1 DEF Custom
  <2>2. ProperRange(Custom(f, t))
    BY <2>1 DEF ProperRange, isQuick
  <2> QED
    BY <1>2, <1>3, <2>2 DEF rangeFromInputs
<1> QED
  BY <1>2, <1>3, <1>4

LEMMA ParseTypes ==
    ASSUME now \in Int, NEW x \in Expressions, NEW side
    PROVE  parseTimeExpression(x, side) \in Int
<1>1. x.n \in Int
  BY DEF Expressions
<1>2. Midnight(x.n) \in Int /\ EndOf(x.n) \in Int /\ None \in Int
  BY <1>1, SlotTypes DEF Midnight, EndOf, None
<1> QED
  BY <1>1, <1>2 DEF parseTimeExpression

LEMMA WindowTypes ==
    ASSUME now \in Int, NEW s, ProperRange(s)
    PROVE  /\ timeWindow(s).from \in Int /\ timeWindow(s).to \in Int
           /\ WindowEnd(s) \in Int /\ Span(s) \in Int
<1>1. s.customFrom \in Expressions /\ s.customTo \in Expressions /\ s.length \in Int
  BY DEF ProperRange, Ranges
<1>2. None \in Int
  BY DEF None
<1>3. timeWindow(s).from \in Int /\ timeWindow(s).to \in Int
  BY <1>1, <1>2, ParseTypes DEF timeWindow
<1>4. WindowEnd(s) \in Int
  BY <1>3 DEF WindowEnd
<1> QED
  BY <1>3, <1>4 DEF Span

LEMMA MovedRangeTypes ==
    ASSUME now \in Int, NEW s, ProperRange(s)
    PROVE  /\ \A direction \in {-1, 1} : ProperRange(shiftTimeRange(s, direction))
           /\ ProperRange(zoomOutTimeRange(s))
<1>1. WindowEnd(s) \in Int /\ Span(s) \in Int
  BY WindowTypes
<1>2. ASSUME NEW a \in Int, NEW b \in Int
      PROVE  ProperRange(absoluteRange(a, b))
  BY <1>2, RangeTypes, ExpressionTypes DEF absoluteRange
<1>3. ASSUME NEW direction \in {-1, 1}
      PROVE  ProperRange(shiftTimeRange(s, direction))
  <2> DEFINE end == Earlier(WindowEnd(s) + direction * Span(s), now)
  <2>1. direction * Span(s) \in Int
    BY <1>1
  <2>2. end \in Int
    BY <1>1, <2>1 DEF Earlier
  <2>3. end - Span(s) \in Int
    BY <1>1, <2>2
  <2> QED
    BY <1>2, <2>2, <2>3 DEF shiftTimeRange
<1>4. ProperRange(zoomOutTimeRange(s))
  <2> DEFINE end == Earlier(WindowEnd(s) + Span(s) \div 2, now)
  <2>1. end \in Int
    BY <1>1 DEF Earlier
  <2>2. end - 2 * Span(s) \in Int
    BY <1>1, <2>1
  <2> QED
    BY <1>2, <2>1, <2>2 DEF zoomOutTimeRange
<1> QED
  BY <1>3, <1>4

\* The ranges that are left when one is taken out.
LEMMA WithoutTypes ==
    ASSUME NEW S, NEW list \in Seq(S), NEW entry
    PROVE  Without(list, entry) \in Seq(S)
<1> DEFINE n == Len(list)
           step == [x \in Seq(S) \X (1 .. n) |->
                      IF list[x[2]] = entry THEN x[1] ELSE Append(x[1], list[x[2]])]
           Kept == CHOOSE f : f = [k \in 0 .. n |->
                      IF k = 0 THEN <<>>
                      ELSE IF list[k] = entry THEN f[k - 1] ELSE Append(f[k - 1], list[k])]
           typed == {k \in 0 .. n : Kept[k] \in Seq(S)}
<1>1. n \in Nat /\ \A k \in 1 .. n : list[k] \in S
  OBVIOUS
<1>2. step \in [Seq(S) \X (1 .. n) -> Seq(S)]
  <2>1. ASSUME NEW x \in Seq(S) \X (1 .. n)
        PROVE  (IF list[x[2]] = entry THEN x[1] ELSE Append(x[1], list[x[2]])) \in Seq(S)
    BY <1>1
  <2> QED
    BY <2>1
<1>3. <<>> \in Seq(S)
  OBVIOUS
<1>4. PICK f \in [0 .. n -> Seq(S)] : Builds(f, n, <<>>, step)
  <2> HIDE DEF n, step
  <2> QED
    BY <1>1, <1>2, <1>3, Recursion
<1>5. ASSUME NEW k \in 1 .. n
      PROVE  f[k] = IF list[k] = entry THEN f[k - 1] ELSE Append(f[k - 1], list[k])
  <2>1. k - 1 \in 0 .. n
    BY <1>1
  <2>2. f[k - 1] \in Seq(S)
    BY <2>1, <1>4
  <2>3. f[k] = step[<<f[k - 1], k>>]
    BY <1>4 DEF Builds
  <2> HIDE DEF n
  <2> QED
    BY <2>2, <2>3
<1>6. f = [k \in 0 .. n |->
             IF k = 0 THEN <<>>
             ELSE IF list[k] = entry THEN f[k - 1] ELSE Append(f[k - 1], list[k])]
  <2> HIDE DEF n
  <2>1. \A k \in 0 .. n : k # 0 => k \in 1 .. n
    BY <1>1
  <2>2. f[0] = <<>>
    BY <1>4 DEF Builds
  <2> QED
    BY <1>4, <1>5, <2>1, <2>2
<1>7. Kept = [k \in 0 .. n |->
                IF k = 0 THEN <<>>
                ELSE IF list[k] = entry THEN Kept[k - 1] ELSE Append(Kept[k - 1], list[k])]
  <2> HIDE DEF n
  <2> QED
    BY <1>6
<1> HIDE DEF Kept
<1>8. 0 \in typed
  BY <1>1, <1>3, <1>7
<1>9. ASSUME NEW k \in 1 .. n, k - 1 \in typed
      PROVE  k \in typed
  <2>1. k \in 0 .. n /\ k # 0 /\ list[k] \in S /\ Kept[k - 1] \in Seq(S)
    BY <1>1, <1>9
  <2> HIDE DEF n
  <2>2. Kept[k] = IF list[k] = entry THEN Kept[k - 1] ELSE Append(Kept[k - 1], list[k])
    BY <1>7, <2>1
  <2>3. Append(Kept[k - 1], list[k]) \in Seq(S)
    BY <2>1
  <2>4. Kept[k] \in Seq(S)
    BY <2>1, <2>2, <2>3
  <2> QED
    BY <2>1, <2>4
<1>10. Kept[n] \in Seq(S)
  <2> HIDE DEF n
  <2>1. \A k \in 0 .. n : k \in typed
    <3> HIDE DEF typed
    <3> QED BY <1>1, <1>8, <1>9, InductionUpTo
  <2>2. n \in 0 .. n
    BY <1>1
  <2> QED
    BY <2>1, <2>2
<1>11. Without(list, entry) = Kept[n]
  BY DEF Without, Kept
<1> QED
  BY <1>10, <1>11

LEMMA RememberedTypes ==
    ASSUME recent \in Seq(Pairs), NEW entry \in Pairs
    PROVE  Remembered(entry) \in Seq(Pairs) /\ Len(Remembered(entry)) <= MaxRecent
<1>1. PICK others \in Seq(Pairs) : others = Without(recent, entry)
  BY WithoutTypes
<1> DEFINE all == <<entry>> \o others
           m == Earlier(MaxRecent, Len(others) + 1)
<1>2. all \in Seq(Pairs) /\ Len(all) = Len(others) + 1
  OBVIOUS
<1>3. m \in Nat /\ m <= MaxRecent /\ m <= Len(all)
  BY <1>2, SlotTypes DEF Earlier
<1> HIDE DEF all, m
<1>4. SubSeq(all, 1, m) \in Seq(Pairs) /\ Len(SubSeq(all, 1, m)) = m
  BY <1>2, <1>3
<1>5. Remembered(entry) = SubSeq(all, 1, m)
  BY <1>1 DEF Remembered, all, m
<1> QED
  BY <1>3, <1>4, <1>5

\* The range begins anew as the picker is left.
TimeReset ==
    /\ \E q \in Quick : settings' = QuickRange(q)
    /\ recent' = <<>> /\ now' = EndOf(LastDay) - 1
    /\ UNCHANGED <<open, from, to, refused, calendarFor>>

LEMMA TimeSteps ==
    ASSUME [Next]_vars
    PROVE  TimeNext \/ TimeReset \/ UNCHANGED timeVars
<1>1. ASSUME NEW place \in ScreenNames, Navigate(place)
      PROVE  TimeReset \/ UNCHANGED timeVars
  BY <1>1 DEF Navigate, TimeReset
<1>2. CASE Import
  BY <1>2 DEF Import
<1>3. CASE Loading
  BY <1>3 DEF Loading
<1>4. CASE Table
  BY <1>4 DEF Table
<1>5. CASE Page
  BY <1>5 DEF Page
<1>6. CASE Picker
  BY <1>6 DEF Picker
<1>7. CASE UNCHANGED vars
  BY <1>7 DEF vars
<1> QED
  BY <1>1, <1>2, <1>3, <1>4, <1>5, <1>6, <1>7 DEF Next

\* The parts of the invariant by the variables they are about.
FieldsTyped ==
    /\ open \in BOOLEAN /\ from \in Expressions /\ to \in Expressions
    /\ refused \subseteq Ends /\ calendarFor \in {"none"} \cup Ends
RecentTyped == recent \in Seq(Pairs) /\ Len(recent) <= MaxRecent

LEMMA TimeInvParts ==
    TimeInv <=> now \in Slots /\ ProperRange(settings) /\ FieldsTyped /\ RecentTyped
BY DEF TimeInv, TimeTypeOK, ProperRange, Ranges, FieldsTyped, RecentTyped, Ends

LEMMA TimeInvStarts == TimeInit => TimeInv
<1> SUFFICES ASSUME TimeInit PROVE TimeInv
  OBVIOUS
<1>1. now \in Slots
  BY SlotTypes DEF TimeInit
<1>2. ProperRange(settings)
  BY RangeTypes DEF TimeInit
<1>3. FieldsTyped
  BY ExpressionTypes DEF TimeInit, FieldsTyped
<1>4. RecentTyped
  BY SlotTypes DEF TimeInit, RecentTyped
<1> QED
  BY <1>1, <1>2, <1>3, <1>4, TimeInvParts

LEMMA TimeInvKept ==
    ASSUME TimeInv, TimeNext \/ TimeReset \/ UNCHANGED timeVars
    PROVE  TimeInv'
<1> USE TimeInvParts
<1>1. now \in Slots /\ now \in Int /\ ProperRange(settings) /\ FieldsTyped /\ RecentTyped
  BY SlotTypes
<1>2. ASSUME FieldsTyped', ProperRange(settings'), RecentTyped', now' = now
      PROVE  TimeInv'
  BY <1>1, <1>2 DEF ProperRange, Ranges, FieldsTyped, RecentTyped, TimeInv, TimeTypeOK, Ends
<1>3. ASSUME UNCHANGED <<open, from, to, refused, calendarFor>>
      PROVE  FieldsTyped'
  BY <1>1, <1>3 DEF FieldsTyped
<1>4. ASSUME recent' = recent
      PROVE  RecentTyped'
  BY <1>1, <1>4 DEF RecentTyped
<1>5. ASSUME Closing
      PROVE  FieldsTyped'
  BY <1>5, ExpressionTypes DEF Closing, FieldsTyped
<1>6. CASE Tick
  <2>1. now' \in Slots
    <3>1. now \in Nat /\ now' = now + 1 /\ now < EndOf(LastDay) /\ EndOf(LastDay) \in Nat
      BY <1>1, <1>6, SlotTypes DEF Tick
    <3>2. now' \in Nat /\ now' <= EndOf(LastDay)
      BY <3>1
    <3> QED
      BY <3>2, SlotTypes
  <2> QED
    BY <1>1, <1>6, <2>1 DEF Tick, ProperRange, Ranges, FieldsTyped, RecentTyped, TimeInv, TimeTypeOK, Ends
<1>7. CASE OpenPicker
  <2>1. settings.customFrom \in Expressions /\ settings.customTo \in Expressions /\ settings.length \in Int
    BY <1>1 DEF ProperRange, Ranges
  <2>2. timeRangeInputs(settings)[1] \in Expressions /\ timeRangeInputs(settings)[2] \in Expressions
    BY <2>1, ExpressionTypes DEF timeRangeInputs
  <2>3. FieldsTyped'
    BY <1>7, <2>2 DEF OpenPicker, FieldsTyped
  <2> QED
    BY <1>1, <1>2, <1>4, <1>7, <2>3 DEF OpenPicker
<1>8. CASE ClosePicker
  BY <1>1, <1>2, <1>4, <1>5, <1>8 DEF ClosePicker
<1>9. ASSUME NEW range, ProperRange(range), choose(range), RecentTyped'
      PROVE  TimeInv'
  BY <1>2, <1>5, <1>9 DEF choose
<1>10. from \in Expressions /\ to \in Expressions /\ refused \subseteq Ends
       /\ calendarFor \in {"none"} \cup Ends /\ open \in BOOLEAN
  BY <1>1 DEF FieldsTyped
<1>11. CASE apply
  <2> DEFINE unknown == {side \in {"from", "to"} :
                           parseTimeExpression(IF side = "from" THEN from ELSE to, side) = None}
             errors == unknown \cup IF Inverted(from, to) THEN {"from"} ELSE {}
             next == rangeFromInputs(from, to)
  <2>1. CASE errors # {}
    <3>1. errors \subseteq Ends
      BY DEF Ends
    <3>2. refused' = errors /\ UNCHANGED <<now, settings, open, from, to, calendarFor, recent>>
      BY <1>11, <2>1 DEF apply
    <3> HIDE DEF errors
    <3>3. FieldsTyped'
      BY <1>10, <3>1, <3>2 DEF FieldsTyped
    <3> QED
      BY <1>1, <1>2, <1>4, <3>2, <3>3
  <2>2. CASE errors = {}
    <3>1. /\ recent' = IF isCustom(next) THEN Remembered(<<from, to>>) ELSE recent
          /\ choose(next)
      BY <1>11, <2>2 DEF apply
    <3>2. ProperRange(next)
      BY <1>10, RangeTypes
    <3>3. RecentTyped'
      <4>1. <<from, to>> \in Pairs /\ recent \in Seq(Pairs)
        BY <1>1, <1>10 DEF Pairs, RecentTyped
      <4>2. Remembered(<<from, to>>) \in Seq(Pairs) /\ Len(Remembered(<<from, to>>)) <= MaxRecent
        BY <4>1, RememberedTypes
      <4> HIDE DEF next
      <4> QED
        BY <1>1, <3>1, <4>2 DEF RecentTyped
    <3> HIDE DEF next
    <3> QED
      BY <1>9, <3>1, <3>2, <3>3
  <2> QED
    BY <2>1, <2>2
<1>12. ASSUME NEW side \in {"from", "to"}, NEW x \in Typed, Type(side, x)
       PROVE  TimeInv'
  <2>1. x \in Expressions
    BY TimeAssumption
  <2>2. FieldsTyped'
    BY <1>10, <1>12, <2>1 DEF Type, FieldsTyped
  <2> QED
    BY <1>1, <1>2, <1>4, <1>12, <2>2 DEF Type
<1>13. ASSUME NEW side \in {"from", "to"}, OpenCalendar(side)
       PROVE  TimeInv'
  <2>1. FieldsTyped'
    BY <1>10, <1>13 DEF OpenCalendar, FieldsTyped, Ends
  <2> QED
    BY <1>1, <1>2, <1>4, <1>13, <2>1 DEF OpenCalendar
<1>14. ASSUME NEW day \in Days, pickDay(day)
       PROVE  TimeInv'
  <2>1. day \in Int /\ DaySlots \in Int
    BY SlotTypes DEF Days
  <2>2. Midnight(day) \in Int /\ EndOf(day) \in Int
    BY <2>1 DEF Midnight, EndOf
  <2>3. parseTimeExpression(from, "from") \in Int
    BY <1>1, <1>10, ParseTypes
  <2>4. DayOf(parseTimeExpression(from, "from")) \in Int
    BY <2>3, DayEnds
  <2>5. EndOf(DayOf(parseTimeExpression(from, "from"))) \in Int
    BY <2>1, <2>4 DEF EndOf
  <2>6. from' \in Expressions
    BY <1>10, <1>14, <2>2, ExpressionTypes DEF pickDay
  <2>7. to' \in Expressions
    <3>1. CASE calendarFor = "from"
      BY <1>10, <1>14, <2>2, <3>1, ExpressionTypes DEF pickDay
    <3>2. CASE calendarFor # "from"
      BY <1>14, <2>2, <2>5, <3>2, ExpressionTypes DEF pickDay
    <3> QED
      BY <3>1, <3>2
  <2>8. refused' = {} /\ calendarFor' \in {"none"} \cup Ends
        /\ UNCHANGED <<now, settings, open, recent>>
    BY <1>14 DEF pickDay, Ends
  <2>9. FieldsTyped'
    BY <1>10, <2>6, <2>7, <2>8 DEF FieldsTyped
  <2> QED
    BY <1>1, <1>2, <1>4, <2>8, <2>9
<1>15. ASSUME NEW i \in 1 .. MaxRecent, ChooseRecent(i)
       PROVE  TimeInv'
  <2>1. recent[i] \in Pairs
    BY <1>1, <1>15 DEF ChooseRecent, RecentTyped
  <2>2. ProperRange(rangeFromInputs(recent[i][1], recent[i][2]))
    BY <2>1, RangeTypes DEF Pairs
  <2> QED
    BY <1>4, <1>9, <1>15, <2>2 DEF ChooseRecent
<1>16. ASSUME NEW range \in {QuickRange(q) : q \in Quick} \cup {AllTime}, ChooseQuick(range)
       PROVE  TimeInv'
  <2>1. ProperRange(range)
    BY RangeTypes
  <2> QED
    BY <1>4, <1>9, <1>16, <2>1 DEF ChooseQuick
<1>17. ASSUME NEW range, ProperRange(range), Move(range)
       PROVE  TimeInv'
  BY <1>2, <1>3, <1>4, <1>17 DEF Move
<1>18. CASE ShiftBack \/ ShiftForward
  BY <1>1, <1>17, <1>18, MovedRangeTypes DEF ShiftBack, ShiftForward
<1>19. CASE ZoomOut
  BY <1>1, <1>17, <1>19, MovedRangeTypes DEF ZoomOut
<1>20. CASE TimeReset
  <2>1. now' \in Slots
    BY <1>20, SlotTypes DEF TimeReset
  <2>2. ProperRange(settings')
    BY <1>20, RangeTypes DEF TimeReset
  <2>3. FieldsTyped'
    BY <1>3, <1>20 DEF TimeReset
  <2>4. RecentTyped'
    BY <1>20, SlotTypes DEF TimeReset, RecentTyped
  <2> QED
    BY <2>1, <2>2, <2>3, <2>4 DEF ProperRange, Ranges, FieldsTyped, RecentTyped, TimeInv, TimeTypeOK, Ends
<1>21. CASE UNCHANGED timeVars
  BY <1>1, <1>2, <1>3, <1>4, <1>21 DEF timeVars
<1> QED
  BY <1>6, <1>7, <1>8, <1>11, <1>12, <1>13, <1>14, <1>15, <1>16, <1>18, <1>19, <1>20, <1>21
     DEF TimeNext

LEMMA TimeInvariant == Spec => []TimeInv
<1>1. Init => TimeInv
  BY TimeInvStarts DEF Init
<1>2. ASSUME TimeInv, [Next]_vars
      PROVE  TimeInv'
  BY <1>2, TimeSteps, TimeInvKept
<1> QED
  BY <1>1, <1>2, PTL DEF Spec

\* A later instant is of no earlier UTC day.
LEMMA UtcDaysInOrder ==
    ASSUME NEW a \in Int, NEW b \in Int
    PROVE  /\ UtcDay(a) \in Int
           /\ a <= b => UtcDay(a) <= UtcDay(b)
<1>1. UtcOffset \in Int /\ DaySlots \in Nat \ {0}
  BY TimeAssumption
<1>2. a - UtcOffset \in Int /\ b - UtcOffset \in Int /\ (a <= b => a - UtcOffset <= b - UtcOffset)
  BY <1>1
<1> QED
  BY <1>1, <1>2, DivisionIsMonotone DEF UtcDay

LEMMA ListsAgree == TimeInv => ListsAndQueriesAgree
<1> SUFFICES ASSUME TimeInv, NEW t \in Slots,
                    withinTimeWindow(t, settings) # timeRangeSql(t, settings)
             PROVE  UtcDay(t) \in {UtcDay(x) : x \in {timeWindow(settings).from,
                                                      timeWindow(settings).to} \ {None}}
  BY DEF ListsAndQueriesAgree
<1> DEFINE w == timeWindow(settings)
           starts == w.from = None \/ t >= w.from
           startsSql == w.from = None \/ AtLeast(t, w.from)
           ends == w.to = None \/ t <= w.to
           endsSql == w.to = None \/ AtMost(t, w.to)
<1>1. w.from \in Int /\ w.to \in Int /\ t \in Int
  BY TimeInvParts, SlotTypes, WindowTypes
<1>2. withinTimeWindow(t, settings) = (starts /\ ends)
  BY DEF withinTimeWindow
<1>3. timeRangeSql(t, settings) = (startsSql /\ endsSql)
  BY DEF timeRangeSql
<1> HIDE DEF w
<1>4. CASE starts # startsSql
  <2>1. w.from # None /\ ((t >= w.from) # (UtcDay(t) >= UtcDay(w.from)))
    BY <1>4 DEF AtLeast
  <2>2. UtcDay(t) = UtcDay(w.from)
    BY <1>1, <2>1, UtcDaysInOrder
  <2> QED
    BY <2>1, <2>2 DEF w
<1>5. CASE ends # endsSql
  <2>1. w.to # None /\ ((t <= w.to) # (UtcDay(t) < UtcDay(w.to)))
    BY <1>5 DEF AtMost
  <2>2. UtcDay(t) = UtcDay(w.to)
    BY <1>1, <2>1, UtcDaysInOrder
  <2> QED
    BY <2>1, <2>2 DEF w
<1> HIDE DEF starts, startsSql, ends, endsSql
<1> QED
  BY <1>2, <1>3, <1>4, <1>5

LEMMA PickingKeepsOrder ==
    ASSUME TimeInv, NEW day \in Days, pickDay(day)
    PROVE  ~Inverted(from', to')
<1>1. day \in Int /\ DaySlots \in Nat \ {0} /\ now \in Int
      /\ from \in Expressions /\ to \in Expressions
  BY TimeInvParts, SlotTypes DEF Days, FieldsTyped
<1>2. Midnight(day) \in Int /\ EndOf(day) \in Int /\ Midnight(day) <= EndOf(day)
  BY <1>1 DEF Midnight, EndOf
<1>3. \A n \in Int, side \in Ends : parseTimeExpression(At(n), side) = n
  BY DEF parseTimeExpression, At
<1>4. CASE calendarFor = "from"
  <2> DEFINE t == parseTimeExpression(to, "to")
  <2>1. t \in Int
    BY <1>1, ParseTypes
  <2>2. /\ from' = At(Midnight(day))
        /\ to' = IF t # None /\ t < Midnight(day) THEN At(EndOf(day)) ELSE to
    BY <1>4 DEF pickDay
  <2>3. parseTimeExpression(from', "from") = Midnight(day)
    BY <1>2, <1>3, <2>2 DEF Ends
  <2>4. CASE t # None /\ t < Midnight(day)
    <3>1. parseTimeExpression(to', "to") = EndOf(day)
      BY <1>2, <1>3, <2>2, <2>4 DEF Ends
    <3> QED
      BY <1>2, <2>3, <3>1 DEF Inverted
  <2>5. CASE ~(t # None /\ t < Midnight(day))
    <3>1. parseTimeExpression(to', "to") = t
      BY <2>2, <2>5
    <3> HIDE DEF t
    <3> QED
      BY <1>2, <2>1, <2>3, <2>5, <3>1 DEF Inverted
  <2> QED
    BY <2>4, <2>5
<1>5. CASE calendarFor # "from"
  <2> DEFINE f == parseTimeExpression(from, "from")
  <2>1. f \in Int
    BY <1>1, ParseTypes
  <2>2. /\ from' = IF MovesEnd(f, day) THEN At(Midnight(day)) ELSE from
        /\ to' = At(EndOf(IF MovesEnd(f, day) THEN DayOf(f) ELSE day))
    BY <1>5 DEF pickDay
  <2>3. CASE MovesEnd(f, day)
    <3>1. EndOf(DayOf(f)) \in Int /\ f <= EndOf(DayOf(f)) /\ f > Midnight(day)
      <4>1. DayOf(f) \in Int /\ f <= EndOf(DayOf(f))
        BY <2>1, DayEnds
      <4>2. EndOf(DayOf(f)) \in Int
        BY <1>1, <4>1 DEF EndOf
      <4> QED
        BY <2>3, <4>1, <4>2 DEF MovesEnd
    <3>2. parseTimeExpression(from', "from") = Midnight(day)
      BY <1>2, <1>3, <2>2, <2>3 DEF Ends
    <3>3. parseTimeExpression(to', "to") = EndOf(DayOf(f))
      BY <1>3, <2>2, <2>3, <3>1 DEF Ends
    <3> HIDE DEF f
    <3> QED
      BY <1>2, <2>1, <3>1, <3>2, <3>3 DEF Inverted
  <2>4. CASE ~MovesEnd(f, day)
    <3>1. parseTimeExpression(from', "from") = f
      BY <2>2, <2>4
    <3>2. parseTimeExpression(to', "to") = EndOf(day)
      BY <1>2, <1>3, <2>2, <2>4 DEF Ends
    <3>3. f = None \/ f <= Midnight(day)
      <4> HIDE DEF f
      <4> QED BY <1>2, <2>1, <2>4 DEF MovesEnd
    <3> HIDE DEF f
    <3> QED
      BY <1>2, <2>1, <3>1, <3>2, <3>3 DEF Inverted
  <2> QED
    BY <2>3, <2>4
<1> QED
  BY <1>4, <1>5

(* The lists, filtered in the browser, and the queries, filtered in SQL,    *)
(* agree about every instant but those of the UTC days in which the range   *)
(* begins and ends, for any length of a day, offset to UTC and range.       *)
THEOREM FiltersAgree == Spec => []ListsAndQueriesAgree
BY TimeInvariant, ListsAgree, PTL

(* No click in the calendar leaves the range upside down, whatever the      *)
(* fields held and however the clock moved on meanwhile.                    *)
THEOREM CalendarKeepsOrder == Spec => PickedInOrder
<1>1. TimeInv /\ [Next]_vars =>
        [(\E day \in Days : pickDay(day)) => ~Inverted(from', to')]_timeVars
  BY PickingKeepsOrder
<1> QED
  BY <1>1, TimeInvariant, PTL DEF Spec, PickedInOrder

-----------------------------------------------------------------------------
(* The loader: sequences of queries. *)

Members(s) == {s[i] : i \in 1 .. Len(s)}
Distinct(s) == \A i, j \in 1 .. Len(s) : s[i] = s[j] => i = j

LEMMA Joined ==
    ASSUME NEW S, NEW a \in Seq(S), NEW b \in Seq(S)
    PROVE  /\ a \o b \in Seq(S) /\ Len(a \o b) = Len(a) + Len(b)
           /\ \A i \in 1 .. Len(a) + Len(b) :
                 (a \o b)[i] = IF i <= Len(a) THEN a[i] ELSE b[i - Len(a)]
           /\ Len(a) \in Nat /\ Len(b) \in Nat
OBVIOUS

LEMMA JoinedMembers ==
    ASSUME NEW S, NEW a \in Seq(S), NEW b \in Seq(S)
    PROVE  /\ a \o b \in Seq(S)
           /\ Members(a \o b) = Members(a) \cup Members(b)
<1>1. /\ a \o b \in Seq(S) /\ Len(a \o b) = Len(a) + Len(b)
      /\ \A i \in 1 .. Len(a) + Len(b) : (a \o b)[i] = IF i <= Len(a) THEN a[i] ELSE b[i - Len(a)]
      /\ Len(a) \in Nat /\ Len(b) \in Nat
  BY Joined
<1>2. ASSUME NEW x \in Members(a \o b)
      PROVE  x \in Members(a) \cup Members(b)
  <2>1. PICK i \in 1 .. Len(a) + Len(b) : x = (a \o b)[i]
    BY <1>1 DEF Members
  <2>2. CASE i <= Len(a)
    BY <1>1, <2>1, <2>2 DEF Members
  <2>3. CASE ~(i <= Len(a))
    <3>1. i - Len(a) \in 1 .. Len(b) /\ x = b[i - Len(a)]
      BY <1>1, <2>1, <2>3
    <3> QED
      BY <3>1 DEF Members
  <2> QED
    BY <2>2, <2>3
<1>3. ASSUME NEW x \in Members(a)
      PROVE  x \in Members(a \o b)
  <2>1. PICK i \in 1 .. Len(a) : x = a[i]
    BY DEF Members
  <2>2. i \in 1 .. Len(a) + Len(b) /\ (a \o b)[i] = a[i]
    BY <1>1
  <2> QED
    BY <1>1, <2>1, <2>2 DEF Members
<1>4. ASSUME NEW x \in Members(b)
      PROVE  x \in Members(a \o b)
  <2>1. PICK i \in 1 .. Len(b) : x = b[i]
    BY DEF Members
  <2>2. i + Len(a) \in 1 .. Len(a) + Len(b) /\ ~(i + Len(a) <= Len(a)) /\ (i + Len(a)) - Len(a) = i
    BY <1>1
  <2>3. (a \o b)[i + Len(a)] = b[i]
    BY <1>1, <2>2
  <2> QED
    BY <1>1, <2>1, <2>2, <2>3 DEF Members
<1> QED
  BY <1>1, <1>2, <1>3, <1>4

LEMMA JoinedDistinct ==
    ASSUME NEW S, NEW a \in Seq(S), NEW b \in Seq(S),
           Distinct(a), Distinct(b), Members(a) \cap Members(b) = {}
    PROVE  Distinct(a \o b)
<1>1. /\ Len(a \o b) = Len(a) + Len(b)
      /\ \A i \in 1 .. Len(a) + Len(b) : (a \o b)[i] = IF i <= Len(a) THEN a[i] ELSE b[i - Len(a)]
      /\ Len(a) \in Nat /\ Len(b) \in Nat
  BY Joined
<1>2. \A i \in 1 .. Len(a), j \in 1 .. Len(b) : a[i] # b[j]
  BY DEF Members
<1>3. \A i \in 1 .. Len(a) + Len(b) : ~(i <= Len(a)) => i - Len(a) \in 1 .. Len(b)
  BY <1>1
<1>4. \A i, j \in 1 .. Len(a) + Len(b) : i - Len(a) = j - Len(a) => i = j
  BY <1>1
<1>5. ASSUME NEW i \in 1 .. Len(a) + Len(b), NEW j \in 1 .. Len(a) + Len(b),
             (a \o b)[i] = (a \o b)[j]
      PROVE  i = j
  <2>1. CASE i <= Len(a) /\ j <= Len(a)
    BY <1>1, <1>5, <2>1 DEF Distinct
  <2>2. CASE i <= Len(a) /\ ~(j <= Len(a))
    <3>1. i \in 1 .. Len(a) /\ j - Len(a) \in 1 .. Len(b)
      BY <1>3, <2>2
    <3> QED
      BY <1>1, <1>2, <1>5, <2>2, <3>1
  <2>3. CASE ~(i <= Len(a)) /\ j <= Len(a)
    <3>1. j \in 1 .. Len(a) /\ i - Len(a) \in 1 .. Len(b)
      BY <1>3, <2>3
    <3> QED
      BY <1>1, <1>2, <1>5, <2>3, <3>1
  <2>4. CASE ~(i <= Len(a)) /\ ~(j <= Len(a))
    <3>1. i - Len(a) \in 1 .. Len(b) /\ j - Len(a) \in 1 .. Len(b)
      BY <1>3, <2>4
    <3>2. b[i - Len(a)] = b[j - Len(a)]
      BY <1>1, <1>5, <2>4
    <3>3. i - Len(a) = j - Len(a)
      BY <3>1, <3>2 DEF Distinct
    <3> QED
      BY <1>4, <3>3
  <2> QED
    BY <2>1, <2>2, <2>3, <2>4
<1> QED
  BY <1>1, <1>5 DEF Distinct

\* The rest of a sequence, from one place on.
LEMMA RestOf ==
    ASSUME NEW S, NEW s \in Seq(S), NEW n \in 0 .. Len(s)
    PROVE  /\ SubSeq(s, n + 1, Len(s)) \in Seq(S)
           /\ Len(SubSeq(s, n + 1, Len(s))) = Len(s) - n
           /\ \A i \in 1 .. Len(s) - n : SubSeq(s, n + 1, Len(s))[i] = s[n + i]
           /\ Members(SubSeq(s, n + 1, Len(s))) = {s[k] : k \in n + 1 .. Len(s)}
           /\ Distinct(s) => Distinct(SubSeq(s, n + 1, Len(s)))
<1> DEFINE rest == SubSeq(s, n + 1, Len(s))
<1>1. Len(s) \in Nat /\ n \in Nat /\ n <= Len(s) /\ Len(s) - n \in Nat
  OBVIOUS
<1>2. rest \in Seq(S) /\ Len(rest) = Len(s) - n
  BY <1>1
<1>3. \A i \in 1 .. Len(s) - n : rest[i] = s[n + i]
  BY <1>1
<1> HIDE DEF rest
<1>4. Members(rest) = {s[k] : k \in n + 1 .. Len(s)}
  <2>1. ASSUME NEW i \in 1 .. Len(s) - n
        PROVE  rest[i] \in {s[k] : k \in n + 1 .. Len(s)}
    <3>1. n + i \in n + 1 .. Len(s)
      BY <1>1
    <3> QED
      BY <1>3, <3>1
  <2>2. ASSUME NEW k \in n + 1 .. Len(s)
        PROVE  s[k] \in Members(rest)
    <3>1. k - n \in 1 .. Len(s) - n /\ n + (k - n) = k
      BY <1>1
    <3>2. rest[k - n] = s[k]
      BY <1>3, <3>1
    <3> QED
      BY <1>2, <3>1, <3>2 DEF Members
  <2> QED
    BY <1>2, <2>1, <2>2 DEF Members
<1>5. ASSUME Distinct(s), NEW i \in 1 .. Len(s) - n, NEW j \in 1 .. Len(s) - n, rest[i] = rest[j]
      PROVE  i = j
  <2>1. n + i \in 1 .. Len(s) /\ n + j \in 1 .. Len(s)
    BY <1>1
  <2>2. s[n + i] = s[n + j]
    BY <1>3, <1>5
  <2>3. n + i = n + j
    BY <1>5, <2>1, <2>2 DEF Distinct
  <2> QED
    BY <1>1, <2>3
<1>6. Distinct(s) => Distinct(rest)
  BY <1>2, <1>5 DEF Distinct
<1> QED
  BY <1>2, <1>3, <1>4, <1>6 DEF rest

\* The first of a sequence of different queries make a set of their number.
Taken(s, n) == {s[k] : k \in 1 .. n}

LEMMA CountOfFirst ==
    ASSUME NEW S, NEW s \in Seq(S), Distinct(s), NEW n \in 0 .. Len(s)
    PROVE  IsFiniteSet(Taken(s, n)) /\ Cardinality(Taken(s, n)) = n
<1> DEFINE counted == {m \in 0 .. n : IsFiniteSet(Taken(s, m)) /\ Cardinality(Taken(s, m)) = m}
<1>1. Len(s) \in Nat /\ n \in Nat /\ n <= Len(s)
  OBVIOUS
<1>2. 0 \in counted
  <2>1. Taken(s, 0) = {}
    BY DEF Taken
  <2>2. IsFiniteSet(Taken(s, 0)) /\ Cardinality(Taken(s, 0)) = 0
    BY <2>1, FS_EmptySet
  <2> QED
    BY <1>1, <2>2
<1>3. ASSUME NEW m \in 1 .. n, m - 1 \in counted
      PROVE  m \in counted
  <2>1. Taken(s, m) = Taken(s, m - 1) \cup {s[m]}
    <3>1. 1 .. m = (1 .. m - 1) \cup {m}
      BY <1>1
    <3> QED
      BY <3>1 DEF Taken
  <2>2. s[m] \notin Taken(s, m - 1)
    <3>1. \A k \in 1 .. m - 1 : k \in 1 .. Len(s) /\ m \in 1 .. Len(s) /\ k # m
      BY <1>1
    <3> QED
      BY <3>1 DEF Distinct, Taken
  <2>3. PICK before : before = Taken(s, m - 1)
    OBVIOUS
  <2>4. IsFiniteSet(before) /\ Cardinality(before) = m - 1
    BY <1>3, <2>3
  <2>5. IsFiniteSet(before \cup {s[m]}) /\ Cardinality(before \cup {s[m]}) = (m - 1) + 1
    BY <2>2, <2>3, <2>4, FS_AddElement
  <2>6. m \in 0 .. n /\ (m - 1) + 1 = m
    BY <1>1
  <2>7. IsFiniteSet(Taken(s, m)) /\ Cardinality(Taken(s, m)) = m
    BY <2>1, <2>3, <2>5, <2>6
  <2> QED
    BY <2>6, <2>7
<1>4. \A m \in 0 .. n : m \in counted
  <2> HIDE DEF counted
  <2> QED
    BY <1>1, <1>2, <1>3, InductionUpTo
<1>5. n \in 0 .. n
  BY <1>1
<1> QED
  BY <1>4, <1>5

-----------------------------------------------------------------------------
(* The loader: its queries and the order of its calls. *)

LEMMA SectionFacts ==
    /\ Len(Sections) = 7 /\ DOMAIN Sections = 1 .. 7
    /\ Sections[1] = First
    /\ \A i, j \in 1 .. 7 : Sections[i] = Sections[j] => i = j
    /\ \A s : Width(s) \in Nat \ {0}
BY LoaderAssumption DEF Sections, First, Width

LEMMA QueryFacts ==
    /\ \A i \in 1 .. 7 : QueriesOf(Sections[i]) \subseteq Queries
    /\ \A q \in Queries : \E i \in 1 .. 7 : q \in QueriesOf(Sections[i])
    /\ \A s : \A q \in QueriesOf(s) : q[1] = s
    /\ \A s : <<s, 1>> \in QueriesOf(s)
    /\ QueriesOf(First) = {<<First, 1>>}
<1>1. \A s : <<s, 1>> \in QueriesOf(s)
  BY SectionFacts DEF QueriesOf
<1>2. Width(First) = 1
  BY DEF Width, First
<1>3. QueriesOf(First) = {<<First, 1>>}
  BY <1>2 DEF QueriesOf
<1>4. \A s : \A q \in QueriesOf(s) : q[1] = s
  BY DEF QueriesOf
<1>5. /\ \A i \in 1 .. 7 : QueriesOf(Sections[i]) \subseteq Queries
      /\ \A q \in Queries : \E i \in 1 .. 7 : q \in QueriesOf(Sections[i])
  <2>1. DOMAIN Sections = 1 .. 7
    BY SectionFacts
  <2> QED
    BY <2>1 DEF Queries
<1> QED
  BY <1>1, <1>3, <1>4, <1>5

\* The calls of one section.
CallsOf(i) == [k \in 1 .. Width(Sections[i]) |-> <<Sections[i], k>>]

LEMMA CallsOfSection ==
    ASSUME NEW i \in 1 .. 7
    PROVE  /\ CallsOf(i) \in Seq(Queries)
           /\ Members(CallsOf(i)) = QueriesOf(Sections[i])
           /\ Distinct(CallsOf(i))
<1>1. PICK w \in Nat : w = Width(Sections[i])
  BY SectionFacts
<1>2. CallsOf(i) = [k \in 1 .. w |-> <<Sections[i], k>>]
  BY <1>1 DEF CallsOf
<1>3. \A k \in 1 .. w : <<Sections[i], k>> \in Queries
  BY <1>1, QueryFacts DEF QueriesOf
<1>4. CallsOf(i) \in Seq(Queries) /\ Len(CallsOf(i)) = w
  BY <1>2, <1>3
<1>5. Members(CallsOf(i)) = QueriesOf(Sections[i])
  BY <1>1, <1>2, <1>4 DEF Members, QueriesOf
<1>6. Distinct(CallsOf(i))
  BY <1>2, <1>4 DEF Distinct
<1> QED
  BY <1>4, <1>5, <1>6

\* Every section but the first.
Rest == UNION {QueriesOf(Sections[j]) : j \in 2 .. 7}

LEMMA RestFacts ==
    /\ Rest \subseteq Queries
    /\ <<First, 1>> \notin Rest /\ <<First, 1>> \in Queries
    /\ \A q \in Queries : q \in Rest \/ q = <<First, 1>>
    /\ \A i \in 2 .. 7 : QueriesOf(Sections[i]) \subseteq Rest
<1>1. Rest \subseteq Queries
  BY QueryFacts DEF Rest
<1>2. <<First, 1>> \in Queries
  BY QueryFacts, SectionFacts
<1>3. <<First, 1>> \notin Rest
  <2> SUFFICES ASSUME NEW j \in 2 .. 7, <<First, 1>> \in QueriesOf(Sections[j])
               PROVE  FALSE
    BY DEF Rest
  <2>1. <<First, 1>>[1] = Sections[j]
    BY QueryFacts
  <2>2. Sections[j] = Sections[1]
    BY <2>1, SectionFacts
  <2>3. j \in 1 .. 7 /\ 1 \in 1 .. 7 /\ j # 1
    OBVIOUS
  <2> QED
    BY <2>2, <2>3, SectionFacts
<1>4. ASSUME NEW q \in Queries
      PROVE  q \in Rest \/ q = <<First, 1>>
  <2>1. PICK i \in 1 .. 7 : q \in QueriesOf(Sections[i])
    BY QueryFacts
  <2>2. CASE i = 1
    BY <2>1, <2>2, QueryFacts, SectionFacts
  <2>3. CASE i # 1
    <3>1. i \in 2 .. 7
      BY <2>3
    <3> QED
      BY <2>1, <3>1 DEF Rest
  <2> QED
    BY <2>2, <2>3
<1>5. \A i \in 2 .. 7 : QueriesOf(Sections[i]) \subseteq Rest
  BY DEF Rest
<1> QED
  BY <1>1, <1>2, <1>3, <1>4, <1>5

\* The calls of the sections after the first, up to one of them.
RestUpTo(i) == UNION {QueriesOf(Sections[j]) : j \in 2 .. i}

LEMMA CallOrderFacts ==
    /\ CallOrder \in Seq(Queries)
    /\ Members(CallOrder) = Rest
    /\ Distinct(CallOrder)
    /\ CallOrder[1] \in Rest
<1> DEFINE Calls == CHOOSE f : f = [i \in 1 .. 7 |->
                      IF i = 1 THEN <<>> ELSE f[i - 1] \o CallsOf(i)]
           step == [x \in Seq(Queries) \X (1 .. 6) |-> x[1] \o CallsOf(x[2] + 1)]
<1>1. step \in [Seq(Queries) \X (1 .. 6) -> Seq(Queries)]
  <2>1. ASSUME NEW x \in Seq(Queries) \X (1 .. 6)
        PROVE  x[1] \o CallsOf(x[2] + 1) \in Seq(Queries)
    <3>1. x[2] + 1 \in 1 .. 7 /\ x[1] \in Seq(Queries)
      OBVIOUS
    <3>2. CallsOf(x[2] + 1) \in Seq(Queries)
      BY <3>1, CallsOfSection
    <3> QED
      BY <3>1, <3>2
  <2> QED
    BY <2>1
<1>2. PICK f \in [0 .. 6 -> Seq(Queries)] : Builds(f, 6, <<>>, step)
  <2>1. <<>> \in Seq(Queries) /\ 6 \in Nat
    OBVIOUS
  <2> HIDE DEF step
  <2> QED
    BY <1>1, <2>1, Recursion
<1> DEFINE g == [i \in 1 .. 7 |-> f[i - 1]]
<1>3. ASSUME NEW i \in 1 .. 7
      PROVE  g[i] = IF i = 1 THEN <<>> ELSE g[i - 1] \o CallsOf(i)
  <2>1. CASE i = 1
    <3>1. i - 1 = 0
      BY <2>1
    <3> QED
      BY <1>2, <2>1, <3>1 DEF Builds
  <2>2. CASE i # 1
    <3>1. i - 1 \in 1 .. 7 /\ i - 1 \in 1 .. 6 /\ i - 2 \in 0 .. 6 /\ (i - 1) - 1 = i - 2
          /\ (i - 1) + 1 = i
      BY <2>2
    <3>2. f[i - 2] \in Seq(Queries)
      BY <1>2, <3>1
    <3>3. f[i - 1] = step[<<f[i - 2], i - 1>>]
      <4> HIDE DEF step
      <4> QED BY <1>2, <3>1 DEF Builds
    <3>4. step[<<f[i - 2], i - 1>>] = f[i - 2] \o CallsOf(i)
      BY <3>1, <3>2
    <3> HIDE DEF step
    <3> QED
      BY <2>2, <3>1, <3>3, <3>4
  <2> QED
    BY <2>1, <2>2
<1> HIDE DEF g
<1>4. g = [i \in 1 .. 7 |-> IF i = 1 THEN <<>> ELSE g[i - 1] \o CallsOf(i)]
  BY <1>3 DEF g
<1>5. Calls = [i \in 1 .. 7 |-> IF i = 1 THEN <<>> ELSE Calls[i - 1] \o CallsOf(i)]
  BY <1>4
<1>6. CallOrder = Calls[7]
  BY SectionFacts DEF CallOrder, CallsOf
<1> HIDE DEF Calls
<1> DEFINE good == {k \in 0 .. 6 : /\ Calls[k + 1] \in Seq(Queries)
                                   /\ Members(Calls[k + 1]) = RestUpTo(k + 1)
                                   /\ Distinct(Calls[k + 1])}
<1>7. 0 \in good
  <2>1. Calls[1] = <<>>
    BY <1>5
  <2>2. Members(<<>>) = {} /\ Distinct(<<>>) /\ RestUpTo(1) = {} /\ <<>> \in Seq(Queries)
    BY DEF Members, Distinct, RestUpTo
  <2>3. 0 + 1 = 1 /\ 0 \in 0 .. 6
    OBVIOUS
  <2> QED
    BY <2>1, <2>2, <2>3
<1>8. ASSUME NEW k \in 1 .. 6, k - 1 \in good
      PROVE  k \in good
  <2>1. k \in 0 .. 6 /\ k + 1 \in 1 .. 7 /\ k + 1 # 1 /\ (k + 1) - 1 = k /\ (k - 1) + 1 = k
    OBVIOUS
  <2>2. PICK a \in Seq(Queries) : a = Calls[k]
    BY <1>8, <2>1
  <2>3. Members(a) = RestUpTo(k) /\ Distinct(a)
    BY <1>8, <2>1, <2>2
  <2>4. PICK b \in Seq(Queries) : b = CallsOf(k + 1)
    BY <2>1, CallsOfSection
  <2>5. Members(b) = QueriesOf(Sections[k + 1]) /\ Distinct(b)
    BY <2>1, <2>4, CallsOfSection
  <2>6. Calls[k + 1] = a \o b
    BY <1>5, <2>1, <2>2, <2>4
  <2>7. RestUpTo(k + 1) = RestUpTo(k) \cup QueriesOf(Sections[k + 1])
    <3>1. 2 .. k + 1 = (2 .. k) \cup {k + 1}
      OBVIOUS
    <3> QED
      BY <3>1 DEF RestUpTo
  <2>8. Members(a) \cap Members(b) = {}
    <3> SUFFICES ASSUME NEW j \in 2 .. k, NEW q, q \in QueriesOf(Sections[j]),
                        q \in QueriesOf(Sections[k + 1])
                 PROVE  FALSE
      BY <2>3, <2>5 DEF RestUpTo
    <3>1. Sections[j] = Sections[k + 1]
      BY QueryFacts
    <3>2. j \in 1 .. 7 /\ j # k + 1
      OBVIOUS
    <3> QED
      BY <2>1, <3>1, <3>2, SectionFacts
  <2>9. a \o b \in Seq(Queries) /\ Members(a \o b) = Members(a) \cup Members(b)
    BY JoinedMembers
  <2>10. Distinct(a \o b)
    BY <2>3, <2>5, <2>8, JoinedDistinct
  <2>11. Members(a \o b) = RestUpTo(k + 1)
    BY <2>3, <2>5, <2>7, <2>9
  <2> QED
    BY <2>1, <2>6, <2>9, <2>10, <2>11
<1>9. \A k \in 0 .. 6 : k \in good
  <2>1. 6 \in Nat
    OBVIOUS
  <2> HIDE DEF good
  <2> QED
    BY <1>7, <1>8, <2>1, InductionUpTo
<1>10. CallOrder \in Seq(Queries) /\ Members(CallOrder) = Rest /\ Distinct(CallOrder)
  <2>1. 6 \in 0 .. 6 /\ 6 + 1 = 7
    OBVIOUS
  <2>2. RestUpTo(7) = Rest
    BY DEF RestUpTo, Rest
  <2> QED
    BY <1>6, <1>9, <2>1, <2>2
<1>11. CallOrder[1] \in Rest
  <2>1. 2 \in 2 .. 7 /\ <<Sections[2], 1>> \in Members(CallOrder)
    BY <1>10, QueryFacts, RestFacts
  <2>2. Len(CallOrder) \in Nat /\ Len(CallOrder) >= 1
    BY <1>10, <2>1 DEF Members
  <2>3. 1 \in 1 .. Len(CallOrder)
    BY <2>2
  <2> QED
    BY <1>10, <2>3 DEF Members
<1> QED
  BY <1>10, <1>11

\* How many of a number of calls get a slot at once.
LEMMA AdmittedBounds ==
    ASSUME active \in Nat, active <= Limit, NEW S, NEW calls \in Seq(S)
    PROVE  Admitted(calls) \in 0 .. Len(calls) /\ active + Admitted(calls) <= Limit
<1> DEFINE n == Len(calls)
           Take == CHOOSE f : f = [k \in 0 .. n |->
                     IF k = 0 THEN active
                     ELSE IF HasSlot(f[k - 1]) THEN f[k - 1] + 1 ELSE f[k - 1]]
           step == [x \in Nat \X (1 .. n) |-> IF HasSlot(x[1]) THEN x[1] + 1 ELSE x[1]]
           good == {k \in 0 .. n : /\ Take[k] \in Nat /\ active <= Take[k]
                                   /\ Take[k] <= active + k /\ Take[k] <= Limit}
<1>1. n \in Nat /\ Limit \in Nat
  BY LoaderAssumption
<1>2. step \in [Nat \X (1 .. n) -> Nat]
  <2> HIDE DEF n
  <2> QED OBVIOUS
<1>3. PICK f \in [0 .. n -> Nat] : Builds(f, n, active, step)
  <2>1. active \in Nat
    OBVIOUS
  <2> HIDE DEF n, step
  <2> QED
    BY <1>1, <1>2, <2>1, Recursion
<1>4. ASSUME NEW k \in 1 .. n
      PROVE  f[k] = IF HasSlot(f[k - 1]) THEN f[k - 1] + 1 ELSE f[k - 1]
  <2>1. k - 1 \in 0 .. n
    BY <1>1
  <2>2. f[k - 1] \in Nat
    BY <2>1, <1>3
  <2>3. f[k] = step[<<f[k - 1], k>>]
    BY <1>3 DEF Builds
  <2> HIDE DEF n
  <2> QED
    BY <2>2, <2>3
<1>5. f = [k \in 0 .. n |->
             IF k = 0 THEN active
             ELSE IF HasSlot(f[k - 1]) THEN f[k - 1] + 1 ELSE f[k - 1]]
  <2> HIDE DEF n
  <2>1. \A k \in 0 .. n : k # 0 => k \in 1 .. n
    BY <1>1
  <2>2. f[0] = active
    BY <1>3 DEF Builds
  <2> QED
    BY <1>3, <1>4, <2>1, <2>2
<1>6. Take = [k \in 0 .. n |->
                IF k = 0 THEN active
                ELSE IF HasSlot(Take[k - 1]) THEN Take[k - 1] + 1 ELSE Take[k - 1]]
  <2> HIDE DEF n
  <2> QED
    BY <1>5
<1>7. Admitted(calls) = Take[n] - active
  BY DEF Admitted, Take
<1> HIDE DEF Take
<1>8. 0 \in good
  BY <1>1, <1>6
<1>9. ASSUME NEW k \in 1 .. n, k - 1 \in good
      PROVE  k \in good
  <2>1. k \in 0 .. n /\ k # 0 /\ k \in Nat
    BY <1>1
  <2> HIDE DEF n
  <2>2. Take[k] = IF HasSlot(Take[k - 1]) THEN Take[k - 1] + 1 ELSE Take[k - 1]
    BY <1>6, <2>1
  <2>3. Take[k - 1] \in Nat /\ active <= Take[k - 1] /\ Take[k - 1] <= active + (k - 1)
        /\ Take[k - 1] <= Limit
    BY <1>9
  <2>4. Take[k] \in Nat /\ active <= Take[k] /\ Take[k] <= active + k /\ Take[k] <= Limit
    BY <1>1, <2>1, <2>2, <2>3 DEF HasSlot
  <2> QED
    BY <2>1, <2>4
<1> HIDE DEF n
<1>10. \A k \in 0 .. n : k \in good
  <2> HIDE DEF good
  <2> QED
    BY <1>1, <1>8, <1>9, InductionUpTo
<1>11. n \in 0 .. n
  BY <1>1
<1>12. Take[n] \in Nat /\ active <= Take[n] /\ Take[n] <= active + n /\ Take[n] <= Limit
  BY <1>10, <1>11
<1>13. Take[n] - active \in 0 .. n /\ active + (Take[n] - active) <= Limit
  BY <1>1, <1>12
<1> QED
  BY <1>7, <1>13 DEF n

-----------------------------------------------------------------------------
(* The loader: its invariant. *)

LEMMA LoaderSteps ==
    ASSUME [Next]_vars
    PROVE  LoaderNext \/ UNCHANGED loaderVars
<1>1. ASSUME NEW place \in ScreenNames, Navigate(place)
      PROVE  UNCHANGED loaderVars
  BY <1>1 DEF Navigate
<1>2. CASE Import
  BY <1>2 DEF Import
<1>3. CASE Loading
  BY <1>3 DEF Loading
<1>4. CASE Table
  BY <1>4 DEF Table
<1>5. CASE Page
  BY <1>5 DEF Page
<1>6. CASE Picker
  BY <1>6 DEF Picker
<1>7. CASE UNCHANGED vars
  BY <1>7 DEF vars
<1> QED
  BY <1>1, <1>2, <1>3, <1>4, <1>5, <1>6, <1>7 DEF Next

\* The slots: those who wait in line wait once each, and as many slots are
\* taken as queries run.
Running == {q \in Queries : query[q] = "running"}

LineInv ==
    /\ query \in [Queries -> Fates]
    /\ line \in Seq(Queries) /\ Distinct(line)
    /\ \A i \in 1 .. Len(line) : query[line[i]] = "waiting"
    /\ IsFiniteSet(Running) /\ active = Cardinality(Running) /\ active <= Limit

\* What a query of one list of calls comes to.
Asks(calls) ==
    /\ \A q \in Queries : q \in Members(calls) => query'[q] \in {"running", "waiting"}
    /\ \A q \in Queries : q \notin Members(calls) => query'[q] = query[q]

LEMMA CallEffect ==
    ASSUME LineInv, NEW calls \in Seq(Queries), Distinct(calls),
           \A q \in Members(calls) : query[q] = "unasked", Call(calls)
    PROVE  LineInv' /\ Asks(calls)
<1> DEFINE n == Admitted(calls)
           late == SubSeq(calls, n + 1, Len(calls))
<1>1. /\ query \in [Queries -> Fates] /\ line \in Seq(Queries) /\ Distinct(line)
      /\ \A i \in 1 .. Len(line) : query[line[i]] = "waiting"
      /\ IsFiniteSet(Running) /\ active = Cardinality(Running) /\ active <= Limit
  BY DEF LineInv
<1>2. active \in Nat /\ Limit \in Nat /\ Len(calls) \in Nat
  BY <1>1, FS_CardinalityType, LoaderAssumption
<1>3. n \in 0 .. Len(calls) /\ active + n <= Limit
  BY <1>1, <1>2, AdmittedBounds
<1>4. /\ active' = active + n
      /\ line' = line \o late
      /\ query' = [q \in Queries |->
            IF \E k \in 1 .. n : calls[k] = q THEN "running"
            ELSE IF \E k \in n + 1 .. Len(calls) : calls[k] = q THEN "waiting"
            ELSE query[q]]
  BY DEF Call
<1> HIDE DEF n
<1>5. \A k \in 1 .. n : k \in 1 .. Len(calls)
  BY <1>2, <1>3
<1>6. \A k \in n + 1 .. Len(calls) : k \in 1 .. Len(calls) /\ k \notin 1 .. n
  BY <1>2, <1>3
<1>7. \A k \in 1 .. Len(calls) : k \in 1 .. n \/ k \in n + 1 .. Len(calls)
  BY <1>2, <1>3
<1>8. \A k \in 1 .. Len(calls) : calls[k] \in Queries /\ query[calls[k]] = "unasked"
  BY DEF Members
<1>9. ASSUME NEW q \in Queries
      PROVE  /\ q \in Taken(calls, n) => query'[q] = "running"
             /\ q \in Members(late) => query'[q] = "waiting"
             /\ q \in Members(calls) => q \in Taken(calls, n) \/ q \in Members(late)
             /\ q \notin Members(calls) => query'[q] = query[q]
  <2>1. Members(late) = {calls[k] : k \in n + 1 .. Len(calls)}
    BY <1>3, RestOf
  <2>2. q \in Taken(calls, n) => query'[q] = "running"
    BY <1>4 DEF Taken
  <2>3. ASSUME q \in Members(late)
        PROVE  query'[q] = "waiting"
    <3>1. PICK k \in n + 1 .. Len(calls) : q = calls[k]
      BY <2>1, <2>3
    <3>2. ASSUME NEW m \in 1 .. n PROVE calls[m] # q
      <4>1. m \in 1 .. Len(calls) /\ k \in 1 .. Len(calls) /\ m # k
        BY <1>5, <1>6
      <4> QED
        BY <3>1, <4>1 DEF Distinct
    <3> QED
      BY <1>4, <3>1, <3>2
  <2>4. q \in Members(calls) => q \in Taken(calls, n) \/ q \in Members(late)
    BY <1>7, <2>1 DEF Members, Taken
  <2>5. ASSUME q \notin Members(calls)
        PROVE  query'[q] = query[q]
    <3>1. \A k \in 1 .. Len(calls) : calls[k] # q
      BY <2>5 DEF Members
    <3> QED
      BY <1>4, <1>5, <1>6, <3>1
  <2> QED
    BY <2>2, <2>3, <2>4, <2>5
<1>10. Asks(calls)
  <2>1. \A q \in Queries : q \in Members(calls) => query'[q] \in {"running", "waiting"}
    BY <1>9
  <2>2. \A q \in Queries : q \notin Members(calls) => query'[q] = query[q]
    BY <1>9
  <2> QED
    BY <2>1, <2>2 DEF Asks
<1>11. query' \in [Queries -> Fates]
  BY <1>1, <1>4 DEF Fates
<1>12. late \in Seq(Queries) /\ Distinct(late)
       /\ Members(late) = {calls[k] : k \in n + 1 .. Len(calls)}
  BY <1>3, RestOf
<1> HIDE DEF late
<1>13. \A q \in Members(line) : q \in Queries /\ query[q] = "waiting"
  BY <1>1 DEF Members
<1>14. \A q \in Members(late) : q \in Queries /\ q \in Members(calls)
  BY <1>6, <1>8, <1>12 DEF Members
<1>15. \A q \in Members(line) : q \notin Members(calls)
  BY <1>13
<1>16. line' \in Seq(Queries) /\ Members(line') = Members(line) \cup Members(late)
  BY <1>1, <1>4, <1>12, JoinedMembers
<1>17. Distinct(line')
  BY <1>1, <1>4, <1>12, <1>14, <1>15, JoinedDistinct
<1>18. \A q \in Members(line') : query'[q] = "waiting"
  BY <1>9, <1>13, <1>14, <1>15, <1>16
<1>19. \A i \in 1 .. Len(line') : query'[line'[i]] = "waiting"
  BY <1>18 DEF Members
<1>20. Running' = Running \cup Taken(calls, n)
  <2>1. \A q \in Taken(calls, n) : q \in Queries
    BY <1>5, <1>8 DEF Taken
  <2>2. \A q \in Members(calls) : q \notin Running
    BY DEF Running
  <2>3. \A q \in Queries : query'[q] = "running" <=> q \in Running \/ q \in Taken(calls, n)
    BY <1>9, <1>14 DEF Running
  <2> QED
    BY <2>1, <2>3 DEF Running
<1>21. Running \cap Taken(calls, n) = {}
  BY <1>5, <1>8 DEF Running, Taken
<1>22. IsFiniteSet(Taken(calls, n)) /\ Cardinality(Taken(calls, n)) = n
  BY <1>3, CountOfFirst
<1>23. IsFiniteSet(Running') /\ Cardinality(Running') = Cardinality(Running) + n
  <2>1. PICK a : a = Running
    OBVIOUS
  <2>2. PICK b : b = Taken(calls, n)
    OBVIOUS
  <2>3. IsFiniteSet(a) /\ IsFiniteSet(b) /\ a \cap b = {}
    BY <1>1, <1>21, <1>22, <2>1, <2>2
  <2>4. IsFiniteSet(a \cup b) /\ Cardinality(a \cup b) = Cardinality(a) + Cardinality(b) - Cardinality(a \cap b)
    BY <2>3, FS_Union
  <2>5. Cardinality(a \cap b) = 0 /\ Cardinality(a) \in Nat /\ Cardinality(b) \in Nat
    BY <2>3, FS_EmptySet, FS_CardinalityType
  <2> QED
    BY <1>20, <1>22, <2>1, <2>2, <2>4, <2>5
<1>24. active' = Cardinality(Running') /\ active' <= Limit
  BY <1>1, <1>2, <1>3, <1>4, <1>23
<1> QED
  BY <1>10, <1>11, <1>16, <1>17, <1>19, <1>23, <1>24 DEF LineInv

\* What an answer makes of the others: a query that waited may run.
LEMMA AnswerEffect ==
    ASSUME LineInv, NEW q \in Queries, NEW fate \in {"answered", "failed"}, Answer(q, fate)
    PROVE  /\ LineInv'
           /\ query[q] = "running" /\ query'[q] = fate
           /\ \A p \in Queries : p # q =>
                 query'[p] = query[p] \/ (query[p] = "waiting" /\ query'[p] = "running")
<1>1. /\ query \in [Queries -> Fates] /\ line \in Seq(Queries) /\ Distinct(line)
      /\ \A i \in 1 .. Len(line) : query[line[i]] = "waiting"
      /\ IsFiniteSet(Running) /\ active = Cardinality(Running) /\ active <= Limit
  BY DEF LineInv
<1>2. query[q] = "running" /\ q \in Running
  BY DEF Answer, Running
<1>3. PICK a : a = Running
  OBVIOUS
<1>4. IsFiniteSet(a) /\ Cardinality(a) \in Nat /\ q \in a /\ Limit \in Nat
  BY <1>1, <1>2, <1>3, FS_CardinalityType, LoaderAssumption
<1>5. IsFiniteSet(a \ {q}) /\ Cardinality(a \ {q}) = Cardinality(a) - 1
  BY <1>4, FS_RemoveElement
<1>6. CASE HandsOver
  <2> DEFINE h == Head(line)
  <2>1. /\ line' = Tail(line) /\ active' = active
        /\ query' = [query EXCEPT ![q] = fate, ![Head(line)] = "running"]
    BY <1>6 DEF Answer, Settled
  <2>2. /\ Len(line) \in Nat /\ Len(line) >= 1 /\ h = line[1] /\ 1 \in 1 .. Len(line)
        /\ Tail(line) \in Seq(Queries) /\ Len(Tail(line)) = Len(line) - 1
        /\ \A i \in 1 .. Len(line) - 1 : Tail(line)[i] = line[i + 1]
    BY <1>1, <1>6 DEF HandsOver
  <2>3. h \in Queries /\ query[h] = "waiting" /\ h # q /\ h \notin a
    BY <1>1, <1>2, <1>3, <2>2 DEF Running
  <2> HIDE DEF h
  <2>4. query' = [query EXCEPT ![q] = fate, ![h] = "running"]
    BY <2>1 DEF h
  <2>5. \A p \in Queries : query'[p] = IF p = h THEN "running" ELSE IF p = q THEN fate ELSE query[p]
    BY <1>1, <2>3, <2>4
  <2>6. query' \in [Queries -> Fates]
    BY <1>1, <2>4 DEF Fates
  <2>7. \A i \in 1 .. Len(line) - 1 : i + 1 \in 1 .. Len(line) /\ i + 1 # 1
    BY <2>2
  <2>8. \A i \in 1 .. Len(line') : /\ line'[i] = line[i + 1] /\ i + 1 \in 1 .. Len(line)
                                   /\ line'[i] # h
    <3>1. \A i \in 1 .. Len(line) - 1 : line[i + 1] # line[1]
      BY <1>1, <2>2, <2>7 DEF Distinct
    <3> QED
      BY <2>1, <2>2, <2>7, <3>1
  <2>9. Distinct(line')
    <3> SUFFICES ASSUME NEW i \in 1 .. Len(line'), NEW j \in 1 .. Len(line'), line'[i] = line'[j]
                 PROVE  i = j
      BY DEF Distinct
    <3>1. i + 1 = j + 1
      BY <1>1, <2>8 DEF Distinct
    <3> QED
      BY <2>1, <2>2, <3>1
  <2>10. ASSUME NEW i \in 1 .. Len(line')
         PROVE  query'[line'[i]] = "waiting"
    <3>1. query[line'[i]] = "waiting" /\ line'[i] \in Queries /\ line'[i] # h /\ line'[i] # q
      BY <1>1, <1>2, <2>8
    <3> QED
      BY <2>5, <3>1
  <2>11. Running' = (a \ {q}) \cup {h}
    <3>1. Running' = {p \in Queries : query'[p] = "running"}
      BY DEF Running
    <3>2. fate # "running"
      OBVIOUS
    <3> QED
      BY <1>3, <2>3, <2>5, <3>1, <3>2 DEF Running
  <2>12. IsFiniteSet((a \ {q}) \cup {h}) /\ Cardinality((a \ {q}) \cup {h}) = Cardinality(a)
    <3>1. PICK b : b = a \ {q}
      OBVIOUS
    <3>2. IsFiniteSet(b) /\ h \notin b
      BY <1>5, <2>3, <3>1
    <3>3. IsFiniteSet(b \cup {h}) /\ Cardinality(b \cup {h}) = Cardinality(b) + 1
      BY <3>2, FS_AddElement
    <3> QED
      BY <1>4, <1>5, <3>1, <3>3
  <2>13. IsFiniteSet(Running') /\ active' = Cardinality(Running') /\ active' <= Limit
    BY <1>1, <1>3, <2>1, <2>11, <2>12
  <2>14. LineInv'
    BY <2>1, <2>2, <2>6, <2>9, <2>10, <2>13 DEF LineInv
  <2> QED
    BY <1>2, <2>3, <2>5, <2>14
<1>7. CASE ~HandsOver
  <2>1. /\ line' = line /\ active' = active - 1
        /\ query' = [query EXCEPT ![q] = fate]
    BY <1>7 DEF Answer, Settled
  <2>2. line = <<>>
    BY <1>7 DEF HandsOver
  <2>3. \A p \in Queries : query'[p] = IF p = q THEN fate ELSE query[p]
    BY <1>1, <2>1
  <2>4. query' \in [Queries -> Fates]
    BY <1>1, <2>1 DEF Fates
  <2>5. Running' = a \ {q}
    <3>1. Running' = {p \in Queries : query'[p] = "running"}
      BY DEF Running
    <3>2. fate # "running"
      OBVIOUS
    <3> QED
      BY <1>3, <2>3, <3>1, <3>2 DEF Running
  <2>6. IsFiniteSet(Running') /\ active' = Cardinality(Running') /\ active' <= Limit
    BY <1>1, <1>3, <1>4, <1>5, <2>1, <2>5
  <2>7. \A i \in 1 .. Len(line') : query'[line'[i]] = "waiting"
    BY <2>1, <2>2
  <2>8. LineInv'
    BY <1>1, <2>1, <2>4, <2>6, <2>7 DEF LineInv
  <2> QED
    BY <1>2, <2>3, <2>8
<1> QED
  BY <1>6, <1>7

\* With no query under way nobody waits and no slot is taken.
LEMMA NoneRuns ==
    ASSUME NEW fates, \A q \in Queries : fates[q] \notin {"running", "waiting"}
    PROVE  LET running == {q \in Queries : fates[q] = "running"}
           IN running = {} /\ IsFiniteSet(running) /\ Cardinality(running) = 0
<1>1. {q \in Queries : fates[q] = "running"} = {}
  OBVIOUS
<1> QED
  BY <1>1, FS_EmptySet

LEMMA Idle ==
    ASSUME LineInv, \A q \in Queries : query[q] \notin {"running", "waiting"}
    PROVE  line = <<>> /\ active = 0
<1>1. active = 0
  BY NoneRuns DEF LineInv, Running
<1>2. line \in Seq(Queries) /\ \A i \in 1 .. Len(line) : query[line[i]] = "waiting"
  BY DEF LineInv
<1>3. ASSUME 1 \in 1 .. Len(line) PROVE FALSE
  <2>1. line[1] \in Queries
    BY <1>2, <1>3
  <2> QED
    BY <1>2, <1>3, <2>1
<1>4. Len(line) = 0
  BY <1>2, <1>3
<1> QED
  BY <1>1, <1>2, <1>4

LEMMA IdleAtFirst ==
    ASSUME query \in [Queries -> Fates], line = <<>>, active = 0,
           \A q \in Queries : query[q] \notin {"running", "waiting"}
    PROVE  LineInv
<1>1. IsFiniteSet(Running) /\ active = Cardinality(Running) /\ active <= Limit
  BY NoneRuns, LoaderAssumption DEF Running
<1>2. line \in Seq(Queries) /\ Distinct(line)
      /\ \A i \in 1 .. Len(line) : query[line[i]] = "waiting"
  BY DEF Distinct
<1> QED
  BY <1>1, <1>2 DEF LineInv

LEMMA IdleAfter ==
    ASSUME query' \in [Queries -> Fates], line' = <<>>, active' = 0,
           \A q \in Queries : query'[q] \notin {"running", "waiting"}
    PROVE  LineInv'
<1>1. IsFiniteSet(Running') /\ active' = Cardinality(Running') /\ active' <= Limit
  <2>1. PICK fates : fates = query'
    OBVIOUS
  <2>2. Running' = {q \in Queries : fates[q] = "running"}
    BY <2>1 DEF Running
  <2>3. \A q \in Queries : fates[q] \notin {"running", "waiting"}
    BY <2>1
  <2>4. Running' = {} /\ IsFiniteSet(Running') /\ Cardinality(Running') = 0
    BY <2>2, <2>3, NoneRuns
  <2> QED
    BY <2>4, LoaderAssumption
<1>2. line' \in Seq(Queries) /\ Distinct(line')
      /\ \A i \in 1 .. Len(line') : query'[line'[i]] = "waiting"
  BY DEF Distinct
<1> QED
  BY <1>1, <1>2 DEF LineInv

SectionNames == {Sections[i] : i \in 1 .. 7}

\* The stages of a checklist: those before the sections, then the sections.
LEMMA ChecklistStages ==
    ASSUME NEW p \in Prefixes, NEW all, all = p \o Sections
    PROVE  /\ SectionNames \subseteq {all[i] : i \in DOMAIN all}
           /\ \A i \in DOMAIN SubSeq(all, 1, Len(all) - Len(Sections)) :
                 SubSeq(all, 1, Len(all) - Len(Sections))[i] \in {all[j] : j \in DOMAIN all}
           /\ p = <<>> => all = Sections
<1> DEFINE Stages == SectionNames \cup {"download", "status", "read"}
<1>1. p \in Seq(Stages) /\ Sections \in Seq(Stages) /\ Len(Sections) = 7
  <2>1. Sections \in Seq(Stages)
    <3>1. Sections \in Seq(SectionNames)
      <4>1. \A i \in 1 .. 7 : Sections[i] \in SectionNames
        BY DEF SectionNames
      <4> HIDE DEF Stages
      <4> QED
        BY <4>1, SectionFacts DEF Sections
    <3> QED
      BY <3>1
  <2>2. "download" \in Stages /\ "status" \in Stages /\ "read" \in Stages
    OBVIOUS
  <2> HIDE DEF Stages
  <2>3. p = <<>> \/ p = <<"download">> \/ p = <<"status", "download">> \/ p = <<"read">>
    BY DEF Prefixes
  <2>4. \A a, b \in Stages : <<a>> \in Seq(Stages) /\ <<a, b>> \in Seq(Stages)
    OBVIOUS
  <2>5. <<>> \in Seq(Stages)
    OBVIOUS
  <2>6. p \in Seq(Stages)
    BY Zenon, <2>2, <2>3, <2>4, <2>5
  <2> QED
    BY <2>1, <2>6, SectionFacts
<1> HIDE DEF Stages
<1>2. /\ all \in Seq(Stages) /\ Len(all) = Len(p) + 7 /\ Len(p) \in Nat
      /\ \A i \in 1 .. Len(p) + 7 : all[i] = IF i <= Len(p) THEN p[i] ELSE Sections[i - Len(p)]
  <2>1. PICK b \in Seq(Stages) : b = Sections
    BY <1>1
  <2>2. /\ p \o b \in Seq(Stages) /\ Len(p \o b) = Len(p) + Len(b) /\ Len(p) \in Nat
        /\ \A i \in 1 .. Len(p) + Len(b) : (p \o b)[i] = IF i <= Len(p) THEN p[i] ELSE b[i - Len(p)]
    BY <1>1, Joined
  <2>3. all = p \o b /\ Len(b) = 7
    BY <1>1, <2>1
  <2> QED
    BY <2>1, <2>2, <2>3
<1>6. DOMAIN all = 1 .. Len(p) + 7
  BY <1>2
<1>3. ASSUME NEW i \in 1 .. 7
      PROVE  Sections[i] \in {all[j] : j \in DOMAIN all}
  <2>1. i + Len(p) \in 1 .. Len(p) + 7 /\ ~(i + Len(p) <= Len(p)) /\ (i + Len(p)) - Len(p) = i
    BY <1>2
  <2>2. all[i + Len(p)] = Sections[i]
    BY <1>2, <2>1
  <2> QED
    BY <1>2, <1>6, <2>1, <2>2
<1>4. ASSUME NEW i \in DOMAIN SubSeq(all, 1, Len(all) - Len(Sections))
      PROVE  SubSeq(all, 1, Len(all) - Len(Sections))[i] \in {all[j] : j \in DOMAIN all}
  <2>1. Len(all) - Len(Sections) = Len(p) /\ Len(p) <= Len(all)
    BY <1>1, <1>2
  <2>2. i \in 1 .. Len(p) /\ SubSeq(all, 1, Len(p))[i] = all[i] /\ i \in DOMAIN all
    BY <1>2, <1>4, <1>6, <2>1
  <2> QED
    BY <2>1, <2>2
<1>5. p = <<>> => all = Sections
  BY <1>1
<1> QED
  BY <1>3, <1>4, <1>5 DEF SectionNames

StepsInv ==
    /\ loadMode \in {"closed", "remote", "local"}
    /\ outcome \in {"loading", "loaded", "failed", "cancelled"}
    /\ steps \in {<<>>} \cup {p \o Sections : p \in Prefixes}
    /\ checked \subseteq {steps[i] : i \in DOMAIN steps}
    /\ outcome = "loading" => loadMode # "closed" /\ steps \in {p \o Sections : p \in Prefixes}
    /\ loadMode = "remote" => steps = Sections
    /\ loadMode # "remote" => \A q \in Queries : query[q] \notin {"running", "waiting"}

\* The checklist of a data server: a section is checked once it is done, and
\* the others are asked together after the first.
CheckInv ==
    loadMode = "remote" /\ outcome = "loading" =>
        /\ \A i \in 1 .. 7 : Sections[i] \in checked <=> Done(Sections[i], query)
        /\ First \notin checked => \A q \in Rest : query[q] = "unasked"
        /\ \/ \A q \in Rest : query[q] = "unasked"
           \/ \A q \in Rest : query[q] # "unasked"

LoaderInv == LineInv /\ StepsInv /\ CheckInv

LEMMA LoaderInvTypes == LoaderInv => LoaderTypeOK
<1> SUFFICES ASSUME LoaderInv PROVE LoaderTypeOK
  OBVIOUS
<1>1. active \in 0 .. Limit
  <2>1. active \in Nat /\ Limit \in Nat /\ active <= Limit
    BY FS_CardinalityType, LoaderAssumption DEF LoaderInv, LineInv
  <2> QED
    BY <2>1
<1>2. query \in [Queries -> Fates] /\ \A i \in DOMAIN line : query[line[i]] = "waiting"
  <2>1. line \in Seq(Queries) /\ \A i \in 1 .. Len(line) : query[line[i]] = "waiting"
    BY DEF LoaderInv, LineInv
  <2>2. DOMAIN line = 1 .. Len(line)
    BY <2>1
  <2> QED
    BY <2>1, <2>2 DEF LoaderInv, LineInv
<1> QED
  BY <1>1, <1>2 DEF LoaderInv, StepsInv, LoaderTypeOK

\* What Settled adds to the checklist are sections, of which every checklist
\* of a load has all.
LEMMA SettledSteps ==
    ASSUME StepsInv, NEW fates, Settled(fates)
    PROVE  /\ query' = fates
           /\ outcome' \in {"loading", "loaded", "failed", "cancelled"}
           /\ outcome' = "loading" => outcome = "loading"
           /\ checked' \subseteq {steps[i] : i \in DOMAIN steps}
           /\ outcome = "loading" =>
                 checked' = checked \cup {s \in SectionNames : Done(s, fates)}
<1>1. query' = fates /\ outcome' \in {"loading", "loaded", "failed", "cancelled"}
      /\ (outcome' = "loading" => outcome = "loading")
  BY DEF Settled, StepsInv
<1>2. outcome = "loading" => checked' = checked \cup {s \in SectionNames : Done(s, fates)}
  BY SectionFacts DEF Settled, SectionNames
<1>3. outcome # "loading" => checked' = checked
  BY DEF Settled
<1>4. outcome = "loading" => SectionNames \subseteq {steps[i] : i \in DOMAIN steps}
  BY ChecklistStages DEF StepsInv
<1>5. checked' \subseteq {steps[i] : i \in DOMAIN steps}
  BY <1>2, <1>3, <1>4 DEF StepsInv
<1> QED
  BY <1>1, <1>2, <1>5

LEMMA NoneIsDone ==
    ASSUME NEW fates, \A q \in Queries : fates[q] = "unasked"
    PROVE  \A i \in 1 .. 7 : ~Done(Sections[i], fates)
<1> SUFFICES ASSUME NEW i \in 1 .. 7, Done(Sections[i], fates) PROVE FALSE
  OBVIOUS
<1>1. <<Sections[i], 1>> \in QueriesOf(Sections[i]) /\ <<Sections[i], 1>> \in Queries
  BY QueryFacts
<1> QED
  BY <1>1 DEF Done

\* A load that has not begun.
LEMMA FreshInv ==
    ASSUME query = [q \in Queries |-> "unasked"], line = <<>>, active = 0,
           checked = {}
    PROVE  LineInv /\ CheckInv
<1>1. \A q \in Queries : query[q] = "unasked"
  OBVIOUS
<1>2. query \in [Queries -> Fates]
  BY DEF Fates
<1>3. LineInv
  BY <1>1, <1>2, IdleAtFirst
<1>4. \A q \in Rest : query[q] = "unasked"
  BY <1>1, RestFacts
<1>5. \A i \in 1 .. 7 : ~Done(Sections[i], query)
  BY <1>1, NoneIsDone
<1> QED
  BY <1>3, <1>4, <1>5 DEF CheckInv

LEMMA LoaderInvStarts == LoaderInit => LoaderInv
<1> SUFFICES ASSUME LoaderInit PROVE LoaderInv
  OBVIOUS
<1>1. LineInv /\ CheckInv
  BY FreshInv DEF LoaderInit
<1>2. StepsInv
  BY DEF LoaderInit, StepsInv
<1> QED
  BY <1>1, <1>2 DEF LoaderInv

LEMMA BeginningKeeps ==
    ASSUME LoaderInv, NEW mode \in {"remote", "local"}, NEW prefix \in Prefixes,
           BeginLoad(mode, prefix)
    PROVE  LoaderInv'
<1>1. /\ query' = [q \in Queries |-> "unasked"] /\ line' = <<>> /\ active' = 0 /\ checked' = {}
      /\ loadMode' = mode /\ outcome' = "loading" /\ steps' = prefix \o Sections
      /\ (mode = "remote" <=> prefix = <<>>)
  BY DEF BeginLoad
<1>2. LineInv' /\ CheckInv'
  <2>1. \A q \in Queries : query'[q] = "unasked"
    BY <1>1
  <2>2. query' \in [Queries -> Fates]
    BY <1>1 DEF Fates
  <2>3. LineInv'
    BY <1>1, <2>1, <2>2, IdleAfter
  <2>4. \A i \in 1 .. 7 : ~Done(Sections[i], query')
    BY <2>1, NoneIsDone
  <2>5. \A q \in Rest : query'[q] = "unasked"
    BY <2>1, RestFacts
  <2> QED
    BY <1>1, <2>3, <2>4, <2>5 DEF CheckInv
<1>3. prefix = <<>> => steps' = Sections
  BY <1>1, ChecklistStages
<1>4. \A q \in Queries : query'[q] \notin {"running", "waiting"}
  BY <1>1
<1>5. StepsInv'
  BY <1>1, <1>3, <1>4 DEF StepsInv
<1> QED
  BY <1>2, <1>5 DEF LoaderInv

\* The stages before the sections, and the local load, touch no query that is
\* under way.
LEMMA LocalStagesKeep ==
    ASSUME LoaderInv, (\E i \in 1 .. 2 : MarkLoaded(i)) \/ PrefixFails
    PROVE  LoaderInv'
<1>1. loadMode = "remote" => DOMAIN Prefix = {}
  <2>1. ASSUME loadMode = "remote"
        PROVE  DOMAIN Prefix = {}
    <3>1. steps = Sections
      BY <2>1 DEF LoaderInv, StepsInv
    <3>2. PICK all : all = steps
      OBVIOUS
    <3>3. Len(all) - Len(Sections) = 0
      BY <3>1, <3>2, SectionFacts
    <3>4. SubSeq(all, 1, 0) = <<>>
      OBVIOUS
    <3> QED
      BY <3>2, <3>3, <3>4 DEF Prefix
  <2> QED
    BY <2>1
<1>2. loadMode # "remote" /\ outcome = "loading"
      /\ UNCHANGED <<loadMode, steps, query, line, active>>
  BY <1>1 DEF MarkLoaded, PrefixFails
<1>3. LineInv'
  BY <1>2 DEF LoaderInv, LineInv, Running
<1>4. CheckInv'
  BY <1>2 DEF CheckInv
<1>5. checked' \subseteq {steps[i] : i \in DOMAIN steps}
  <2>1. CASE PrefixFails
    BY <2>1 DEF PrefixFails, LoaderInv, StepsInv
  <2>2. ASSUME NEW i \in 1 .. 2, MarkLoaded(i)
        PROVE  checked' \subseteq {steps[j] : j \in DOMAIN steps}
    <3>1. i \in DOMAIN Prefix /\ checked' = checked \cup {Prefix[i]}
      BY <2>2 DEF MarkLoaded
    <3>2. PICK p \in Prefixes : steps = p \o Sections
      BY <1>2 DEF LoaderInv, StepsInv
    <3>3. Prefix[i] \in {steps[j] : j \in DOMAIN steps}
      BY <3>1, <3>2, ChecklistStages DEF Prefix
    <3> QED
      BY <3>1, <3>3 DEF LoaderInv, StepsInv
  <2> QED
    BY <2>1, <2>2
<1>6. outcome' \in {"loading", "loaded", "failed", "cancelled"}
  BY <1>2 DEF MarkLoaded, PrefixFails
<1>7. StepsInv'
  BY <1>2, <1>5, <1>6 DEF LoaderInv, StepsInv
<1> QED
  BY <1>3, <1>4, <1>7 DEF LoaderInv

LEMMA OpeningKeeps ==
    ASSUME LoaderInv, OpenBytes
    PROVE  LoaderInv'
<1>1. loadMode = "local" /\ outcome = "loading" /\ UNCHANGED <<loadMode, steps, line, active>>
  BY DEF OpenBytes
<1>2. LineInv /\ StepsInv /\ line = <<>> /\ active = 0
      /\ \A q \in Queries : query[q] \notin {"running", "waiting"}
  BY <1>1, Idle DEF LoaderInv, StepsInv
<1>3. CheckInv'
  BY <1>1 DEF CheckInv
<1>4. ASSUME NEW fates \in [Queries -> {"unasked", "answered", "failed"}], Settled(fates)
      PROVE  LoaderInv'
  <2>1. /\ query' = fates
        /\ outcome' \in {"loading", "loaded", "failed", "cancelled"}
        /\ checked' \subseteq {steps[i] : i \in DOMAIN steps}
    BY <1>2, <1>4, SettledSteps
  <2>2. query' \in [Queries -> Fates] /\ \A q \in Queries : query'[q] \notin {"running", "waiting"}
    BY <1>4, <2>1 DEF Fates
  <2>3. LineInv'
    BY <1>1, <1>2, <2>2, IdleAfter
  <2>4. StepsInv'
    BY <1>1, <1>2, <2>1, <2>2 DEF StepsInv
  <2> QED
    BY <1>3, <2>3, <2>4 DEF LoaderInv
<1>5. CASE outcome' = "failed" /\ UNCHANGED <<checked, query>>
  <2>1. LineInv'
    BY <1>1, <1>2, <1>5 DEF LineInv, Running
  <2>2. StepsInv'
    BY <1>1, <1>2, <1>5 DEF StepsInv
  <2> QED
    BY <1>3, <2>1, <2>2 DEF LoaderInv
<1>6. [q \in Queries |-> IF q[1] = First THEN "failed" ELSE "unasked"]
         \in [Queries -> {"unasked", "answered", "failed"}]
  OBVIOUS
<1>7. \A lost : [q \in Queries |-> IF q \in lost THEN "failed" ELSE "answered"]
                   \in [Queries -> {"unasked", "answered", "failed"}]
  OBVIOUS
<1>8. \/ outcome' = "failed" /\ UNCHANGED <<checked, query>>
      \/ Settled([q \in Queries |-> IF q[1] = First THEN "failed" ELSE "unasked"])
      \/ \E lost \in {{}} \cup {{q} : q \in Queries \ QueriesOf(First)} :
            Settled([q \in Queries |-> IF q \in lost THEN "failed" ELSE "answered"])
  BY DEF OpenBytes
<1> QED
  BY <1>4, <1>5, <1>6, <1>7, <1>8

\* Calls leave what is answered answered.
LEMMA AskingSparesDone ==
    ASSUME NEW calls, Asks(calls), \A q \in Members(calls) : query[q] = "unasked",
           NEW i \in 1 .. 7
    PROVE  Done(Sections[i], query') <=> Done(Sections[i], query)
<1>1. ASSUME NEW q \in QueriesOf(Sections[i])
      PROVE  query'[q] = "answered" <=> query[q] = "answered"
  <2>1. q \in Queries
    BY QueryFacts
  <2> QED
    BY <2>1 DEF Asks
<1> QED
  BY <1>1 DEF Done

LEMMA AskingFirstKeeps ==
    ASSUME LoaderInv, AskFirst
    PROVE  LoaderInv'
<1> DEFINE calls == << <<First, 1>> >>
<1>1. /\ loadMode = "remote" /\ outcome = "loading" /\ query[<<First, 1>>] = "unasked"
      /\ Call(calls) /\ UNCHANGED <<loadMode, outcome, steps, checked>>
  BY DEF AskFirst
<1>2. <<First, 1>> \in Queries
  BY RestFacts
<1>3. calls \in Seq(Queries) /\ Distinct(calls) /\ Members(calls) = {<<First, 1>>}
  <2>1. PICK q \in Queries : q = <<First, 1>>
    BY <1>2
  <2>2. <<q>> \in Seq(Queries) /\ Distinct(<<q>>) /\ Members(<<q>>) = {q}
    BY DEF Distinct, Members
  <2> QED
    BY <2>1, <2>2
<1> HIDE DEF calls
<1>4. \A q \in Members(calls) : query[q] = "unasked"
  BY <1>1, <1>3
<1>5. LineInv' /\ Asks(calls)
  BY <1>1, <1>3, <1>4, CallEffect DEF LoaderInv
<1>6. \A q \in Rest : query'[q] = query[q]
  BY <1>3, <1>5, RestFacts DEF Asks
<1>7. \A i \in 1 .. 7 : Done(Sections[i], query') <=> Done(Sections[i], query)
  BY <1>4, <1>5, AskingSparesDone
<1>8. CheckInv'
  BY <1>1, <1>6, <1>7 DEF LoaderInv, CheckInv
<1>9. StepsInv'
  BY <1>1 DEF LoaderInv, StepsInv
<1> QED
  BY <1>5, <1>8, <1>9 DEF LoaderInv

LEMMA AskingRestKeeps ==
    ASSUME LoaderInv, AskRest
    PROVE  LoaderInv'
<1>1. /\ loadMode = "remote" /\ outcome = "loading" /\ First \in checked
      /\ query[CallOrder[1]] = "unasked"
      /\ Call(CallOrder) /\ UNCHANGED <<loadMode, outcome, steps, checked>>
  BY DEF AskRest, MayAskRest
<1>2. CallOrder \in Seq(Queries) /\ Members(CallOrder) = Rest /\ Distinct(CallOrder)
      /\ CallOrder[1] \in Rest
  BY CallOrderFacts
<1>3. \A q \in Rest : query[q] = "unasked"
  BY <1>1, <1>2 DEF LoaderInv, CheckInv
<1>4. \A q \in Members(CallOrder) : query[q] = "unasked"
  BY <1>2, <1>3
<1>5. LineInv' /\ Asks(CallOrder)
  BY <1>1, <1>2, <1>4, CallEffect DEF LoaderInv
<1>6. \A q \in Rest : query'[q] # "unasked"
  BY <1>2, <1>5, RestFacts DEF Asks
<1>7. \A i \in 1 .. 7 : Done(Sections[i], query') <=> Done(Sections[i], query)
  BY <1>4, <1>5, AskingSparesDone
<1>8. CheckInv'
  BY <1>1, <1>6, <1>7 DEF LoaderInv, CheckInv
<1>9. StepsInv'
  BY <1>1 DEF LoaderInv, StepsInv
<1> QED
  BY <1>5, <1>8, <1>9 DEF LoaderInv

LEMMA AnsweringKeeps ==
    ASSUME LoaderInv, NEW q \in Queries, NEW fate \in {"answered", "failed"}, Answer(q, fate)
    PROVE  LoaderInv'
<1>1. /\ LineInv'
      /\ query[q] = "running" /\ query'[q] = fate
      /\ \A p \in Queries : p # q =>
            query'[p] = query[p] \/ (query[p] = "waiting" /\ query'[p] = "running")
  BY AnswerEffect DEF LoaderInv
<1>2. loadMode' = loadMode /\ steps' = steps
  BY DEF Answer
<1>3. loadMode = "remote"
  BY <1>1 DEF LoaderInv, StepsInv
<1>4. Settled(query')
  BY DEF Answer, Settled
<1>5. PICK fates : fates = query'
  OBVIOUS
<1>6. /\ outcome' \in {"loading", "loaded", "failed", "cancelled"}
      /\ outcome' = "loading" => outcome = "loading"
      /\ checked' \subseteq {steps[i] : i \in DOMAIN steps}
      /\ outcome = "loading" =>
            checked' = checked \cup {s \in SectionNames : Done(s, fates)}
  BY <1>4, <1>5, SettledSteps DEF LoaderInv
<1>7. StepsInv'
  BY <1>2, <1>3, <1>6 DEF LoaderInv, StepsInv
<1>8. CheckInv'
  <2> SUFFICES ASSUME outcome' = "loading"
               PROVE  /\ \A i \in 1 .. 7 : Sections[i] \in checked' <=> Done(Sections[i], query')
                      /\ First \notin checked' => \A p \in Rest : query'[p] = "unasked"
                      /\ \/ \A p \in Rest : query'[p] = "unasked"
                         \/ \A p \in Rest : query'[p] # "unasked"
    BY DEF CheckInv
  <2>1. /\ \A i \in 1 .. 7 : Sections[i] \in checked <=> Done(Sections[i], query)
        /\ First \notin checked => \A p \in Rest : query[p] = "unasked"
        /\ \/ \A p \in Rest : query[p] = "unasked"
           \/ \A p \in Rest : query[p] # "unasked"
    BY <1>3, <1>6 DEF LoaderInv, CheckInv
  <2>2. checked' = checked \cup {s \in SectionNames : Done(s, query')}
    BY <1>5, <1>6
  <2>3. ASSUME NEW i \in 1 .. 7, Done(Sections[i], query)
        PROVE  Done(Sections[i], query')
    <3>1. ASSUME NEW p \in QueriesOf(Sections[i]) PROVE query'[p] = "answered"
      <4>1. p \in Queries /\ query[p] = "answered"
        BY <2>3, QueryFacts DEF Done
      <4> QED
        BY <1>1, <4>1
    <3> QED
      BY <3>1 DEF Done
  <2>4. \A i \in 1 .. 7 : Sections[i] \in checked' <=> Done(Sections[i], query')
    BY <2>1, <2>2, <2>3 DEF SectionNames
  <2>5. ASSUME \A p \in Rest : query[p] = "unasked"
        PROVE  \A p \in Rest : query'[p] = "unasked"
    BY <1>1, <2>5, RestFacts
  <2>6. ASSUME \A p \in Rest : query[p] # "unasked"
        PROVE  \A p \in Rest : query'[p] # "unasked"
    BY <1>1, <2>6, RestFacts
  <2>7. First \notin checked' => First \notin checked
    BY <2>2
  <2> QED
    BY <2>1, <2>4, <2>5, <2>6, <2>7
<1> QED
  BY <1>1, <1>7, <1>8 DEF LoaderInv

LEMMA EndingKeeps ==
    ASSUME LoaderInv, Cancel \/ CloseLoader
    PROVE  LoaderInv'
<1>1. CASE Cancel
  <2>1. /\ outcome' = "cancelled" /\ line' = <<>> /\ active' = 0
        /\ query' = [q \in Queries |-> IF query[q] \in {"running", "waiting"}
                                       THEN "failed" ELSE query[q]]
        /\ UNCHANGED <<loadMode, steps, checked>>
    BY <1>1 DEF Cancel
  <2>2. \A q \in Queries : query'[q] \notin {"running", "waiting"}
    BY <2>1
  <2>3. query' \in [Queries -> Fates]
    BY <2>1 DEF LoaderInv, LineInv, Fates
  <2>4. LineInv'
    BY <2>1, <2>2, <2>3, IdleAfter
  <2>5. StepsInv'
    BY <2>1, <2>2 DEF LoaderInv, StepsInv
  <2> QED
    BY <2>1, <2>4, <2>5 DEF LoaderInv, CheckInv
<1>2. CASE CloseLoader
  <2>1. /\ loadMode' = "closed" /\ outcome' = "cancelled" /\ steps' = <<>> /\ checked' = {}
        /\ query' = [q \in Queries |-> "unasked"] /\ UNCHANGED <<line, active>>
        /\ \A q \in Queries : query[q] \notin {"running", "waiting"}
    BY <1>2 DEF CloseLoader
  <2>2. line = <<>> /\ active = 0
    BY <2>1, Idle DEF LoaderInv
  <2>3. query' \in [Queries -> Fates] /\ \A q \in Queries : query'[q] \notin {"running", "waiting"}
    BY <2>1 DEF Fates
  <2>4. LineInv'
    BY <2>1, <2>2, <2>3, IdleAfter
  <2>5. StepsInv'
    BY <2>1, <2>3 DEF StepsInv
  <2> QED
    BY <2>1, <2>4, <2>5 DEF LoaderInv, CheckInv
<1> QED
  BY <1>1, <1>2

LEMMA LoaderInvKept ==
    ASSUME LoaderInv, LoaderNext \/ UNCHANGED loaderVars
    PROVE  LoaderInv'
<1>1. CASE UNCHANGED loaderVars
  <2>1. LineInv'
    BY <1>1 DEF loaderVars, LoaderInv, LineInv, Running
  <2>2. StepsInv' /\ CheckInv'
    BY <1>1 DEF loaderVars, LoaderInv, StepsInv, CheckInv
  <2> QED
    BY <2>1, <2>2 DEF LoaderInv
<1>2. CASE LoaderNext
  BY <1>2, BeginningKeeps, LocalStagesKeep, OpeningKeeps, AskingFirstKeeps, AskingRestKeeps,
     AnsweringKeeps, EndingKeeps
     DEF LoaderNext, LoaderProgress, Answers
<1> QED
  BY <1>1, <1>2

LEMMA LoaderInvariant == Spec => []LoaderInv
<1>1. Init => LoaderInv
  BY LoaderInvStarts DEF Init
<1>2. ASSUME LoaderInv, [Next]_vars
      PROVE  LoaderInv'
  BY <1>2, LoaderSteps, LoaderInvKept
<1> QED
  BY <1>1, <1>2, PTL DEF Spec

\* What the checklist shows: up to its first stage that is not done everything
\* is, and once the first section is, all the others are shown as under way.
LEMMA ChecklistShown ==
    ASSUME steps = Sections
    PROVE  /\ FirstPending \in 1 .. 8
           /\ FirstPending <= 7 => Sections[FirstPending] \notin checked
           /\ \A j \in 1 .. FirstPending - 1 : Sections[j] \in checked
           /\ ParallelFrom = 2
<1>1. Len(steps) = 7 /\ Len(steps) + 1 = 8 /\ DOMAIN steps = 1 .. 7
  BY SectionFacts
<1> DEFINE open_ == {i \in 1 .. 8 : i <= 7 => Sections[i] \notin checked}
<1>2. PICK i \in open_ : \A j \in open_ : i <= j
  <2>1. open_ \in SUBSET Nat /\ 8 \in open_
    OBVIOUS
  <2> HIDE DEF open_
  <2> QED
    BY <2>1, LeastNat
<1>3. i \in 1 .. 8 /\ (i <= 7 => Sections[i] \notin checked)
      /\ \A j \in 1 .. i - 1 : Sections[j] \in checked
  <2>1. i \in 1 .. 8 /\ (i <= 7 => Sections[i] \notin checked)
    BY <1>2
  <2>2. ASSUME NEW j \in 1 .. i - 1 PROVE Sections[j] \in checked
    <3>1. j \in 1 .. 8 /\ j <= 7 /\ ~(i <= j)
      BY <2>1
    <3> QED
      BY <1>2, <3>1
  <2> QED
    BY <2>1, <2>2
<1>4. FirstPending = CHOOSE k \in 1 .. 8 : /\ k <= 7 => Sections[k] \notin checked
                                           /\ \A j \in 1 .. k - 1 : Sections[j] \in checked
  BY <1>1 DEF FirstPending
<1>5. /\ FirstPending \in 1 .. 8
      /\ FirstPending <= 7 => Sections[FirstPending] \notin checked
      /\ \A j \in 1 .. FirstPending - 1 : Sections[j] \in checked
  BY <1>3, <1>4
<1>6. ParallelFrom = 2
  <2>1. \A k \in 1 .. 7 : Sections[k] = First => k = 1
    BY SectionFacts
  <2>2. 1 \in 1 .. 7 /\ Sections[1] = First
    BY SectionFacts
  <2>3. (CHOOSE k \in 1 .. 7 : Sections[k] = First) = 1
    BY <2>1, <2>2
  <2>4. (CHOOSE k \in DOMAIN steps : steps[k] = First)
        = (CHOOSE k \in 1 .. 7 : Sections[k] = First)
    BY Zenon, <1>1
  <2>5. ParallelFrom = (CHOOSE k \in DOMAIN steps : steps[k] = First) + 1
    BY DEF ParallelFrom
  <2>6. PICK c : c = (CHOOSE k \in DOMAIN steps : steps[k] = First)
    OBVIOUS
  <2>7. c = 1 /\ ParallelFrom = c + 1
    BY Zenon, <2>3, <2>4, <2>5, <2>6
  <2> QED
    BY <2>7
<1> QED
  BY <1>5, <1>6

LEMMA ChecklistFollows == LoaderInv => ChecklistHonest
<1> SUFFICES ASSUME LoaderInv, loadMode = "remote", outcome = "loading", NEW i \in DOMAIN steps
             PROVE  LET fates == {query[q] : q \in QueriesOf(steps[i])} IN
                    CASE Shown(i) = "done" -> fates = {"answered"}
                      [] Shown(i) = "pending" -> fates = {"unasked"}
                      [] Shown(i) = "active" -> fates # {"answered"}
  BY DEF ChecklistHonest
<1> DEFINE fates == {query[q] : q \in QueriesOf(Sections[i])}
<1>1. /\ steps = Sections /\ i \in 1 .. 7
      /\ \A j \in 1 .. 7 : Sections[j] \in checked <=> Done(Sections[j], query)
      /\ First \notin checked => \A q \in Rest : query[q] = "unasked"
  BY SectionFacts DEF LoaderInv, StepsInv, CheckInv
<1>2. <<Sections[i], 1>> \in QueriesOf(Sections[i])
  BY QueryFacts
<1>3. /\ FirstPending \in 1 .. 8
      /\ FirstPending <= 7 => Sections[FirstPending] \notin checked
      /\ \A j \in 1 .. FirstPending - 1 : Sections[j] \in checked
      /\ ParallelFrom = 2
  BY <1>1, ChecklistShown
<1>4. CASE Shown(i) = "done"
  <2>1. Sections[i] \in checked
    BY <1>1, <1>4 DEF Shown
  <2>2. \A q \in QueriesOf(Sections[i]) : query[q] = "answered"
    BY <1>1, <2>1 DEF Done
  <2>3. fates = {"answered"}
    BY <1>2, <2>2
  <2> QED
    BY <1>1, <1>4, <2>3
<1>5. CASE Shown(i) = "pending"
  <2>1. Sections[i] \notin checked /\ ~isActive(i)
    BY <1>1, <1>5 DEF Shown
  <2>2. i # FirstPending /\ ~(FirstPending >= 2 /\ i >= 2)
    BY <1>1, <1>3, <2>1 DEF isActive
  <2>3. FirstPending = 1 /\ i \in 2 .. 7
    <3>1. i = 1 => FirstPending = 1
      <4>1. ASSUME i = 1, FirstPending # 1 PROVE FALSE
        <5>1. 1 \in 1 .. FirstPending - 1
          BY <1>3, <4>1
        <5> QED
          BY <1>3, <2>1, <4>1, <5>1
      <4> QED
        BY <4>1
    <3> QED
      BY <1>1, <1>3, <2>2, <3>1
  <2>4. First \notin checked
    BY <1>3, <2>3, SectionFacts
  <2>5. \A q \in QueriesOf(Sections[i]) : query[q] = "unasked"
    BY <1>1, <2>3, <2>4, RestFacts
  <2>6. fates = {"unasked"}
    BY <1>2, <2>5
  <2> QED
    BY <1>1, <1>5, <2>6
<1>6. CASE Shown(i) = "active"
  <2>1. Sections[i] \notin checked
    BY <1>1, <1>6 DEF Shown
  <2>2. PICK q \in QueriesOf(Sections[i]) : query[q] # "answered"
    BY <1>1, <2>1 DEF Done
  <2>3. fates # {"answered"}
    BY <2>2
  <2> QED
    BY <1>1, <1>6, <2>3
<1>7. Shown(i) \in {"done", "pending", "active"}
  BY DEF Shown
<1> QED
  BY <1>4, <1>5, <1>6, <1>7

(* The checklist of a data server is honest, for any number of slots and of *)
(* queries in a section: a stage shown as done has all its rows, one shown  *)
(* as pending has asked for none, one shown as active lacks some            *)
(* (LoadingProgress.tsx, buildLoaded).                                      *)
THEOREM TheChecklistIsHonest == Spec => []ChecklistHonest
BY LoaderInvariant, ChecklistFollows, PTL

-----------------------------------------------------------------------------
(* The table, and all types. *)

\* The table's filters and sort begin anew as it is left.
RowsReset ==
    /\ listed' = Rows /\ passing' = Rows /\ sort' = "time"
    /\ descending' = TRUE /\ selected' = {} /\ anchor' = 0

LEMMA RowsSteps ==
    ASSUME [Next]_vars
    PROVE  RowsNext \/ RowsReset \/ UNCHANGED rowVars
<1>1. ASSUME NEW place \in ScreenNames, Navigate(place)
      PROVE  RowsReset \/ UNCHANGED rowVars
  BY <1>1 DEF Navigate, RowsReset
<1>2. CASE Import
  BY <1>2 DEF Import
<1>3. CASE Loading
  BY <1>3 DEF Loading
<1>4. CASE Table
  BY <1>4 DEF Table
<1>5. CASE Page
  BY <1>5 DEF Page
<1>6. CASE Picker
  BY <1>6 DEF Picker
<1>7. CASE UNCHANGED vars
  BY <1>7 DEF vars
<1> QED
  BY <1>1, <1>2, <1>3, <1>4, <1>5, <1>6, <1>7 DEF Next

LEMMA RowTypesHold ==
    /\ RowsInit => RowsTypeOK
    /\ RowsTypeOK /\ (RowsNext \/ RowsReset \/ UNCHANGED rowVars) => RowsTypeOK'
<1>1. RowsInit => RowsTypeOK
  BY RowAssumption DEF RowsInit, RowsTypeOK
<1>2. ASSUME RowsTypeOK, RowsNext \/ RowsReset \/ UNCHANGED rowVars
      PROVE  RowsTypeOK'
  <2>1. Visible \subseteq Rows
    BY <1>2 DEF RowsTypeOK, Visible
  <2>2. ASSUME NEW rows \in SUBSET Rows, Reloaded(rows) \/ Filter(rows)
        PROVE  RowsTypeOK'
    BY <1>2, <2>2 DEF RowsTypeOK, Reloaded, Filter
  <2>3. ASSUME NEW key \in SortKeys, toggleSort(key)
        PROVE  RowsTypeOK'
    <3>1. descending' \in BOOLEAN
      BY <2>3 DEF toggleSort
    <3> QED
      BY <1>2, <2>3, <3>1 DEF RowsTypeOK, toggleSort
  <2>4. ASSUME NEW row \in Rows, NEW extend \in BOOLEAN, toggle(row, extend)
        PROVE  RowsTypeOK'
    <3> DEFINE affected == selectRange(IF extend THEN anchor ELSE 0, row)
    <3>1. affected \subseteq Visible
      BY <2>4, RangeIsShown DEF toggle
    <3>2. selected' = IF row \in selected THEN selected \ affected ELSE selected \cup affected
      BY <2>4 DEF toggle
    <3> HIDE DEF affected
    <3>3. selected' \subseteq Rows
      BY <1>2, <2>1, <3>1, <3>2 DEF RowsTypeOK
    <3> QED
      BY <1>2, <2>4, <3>3 DEF RowsTypeOK, toggle
  <2>5. CASE toggleAll
    BY <1>2, <2>1, <2>5 DEF RowsTypeOK, toggleAll, AllToggled
  <2>6. CASE clear
    BY <1>2, <2>6 DEF RowsTypeOK, clear
  <2>7. CASE RowsReset
    BY <2>7, RowAssumption DEF RowsTypeOK, RowsReset
  <2>8. CASE UNCHANGED rowVars
    BY <1>2, <2>8 DEF RowsTypeOK, rowVars
  <2> QED
    BY <1>2, <2>2, <2>3, <2>4, <2>5, <2>6, <2>7, <2>8 DEF RowsNext
<1> QED
  BY <1>1, <1>2

ScreenInv == DumpInv /\ RowsTypeOK /\ DumpTypes /\ screen \in ScreenNames

LEMMA ScreenTypesHold ==
    /\ Init => RowsTypeOK /\ DumpTypes /\ screen \in ScreenNames
    /\ DumpInv /\ RowsTypeOK /\ DumpTypes /\ screen \in ScreenNames /\ [Next]_vars
          => RowsTypeOK' /\ DumpTypes' /\ screen' \in ScreenNames
<1>1. Init => RowsTypeOK /\ DumpTypes /\ screen \in ScreenNames
  BY RowTypesHold, DumpTypesHold DEF Init, ScreenNames
<1>2. ASSUME DumpInv, RowsTypeOK, DumpTypes, screen \in ScreenNames, [Next]_vars
      PROVE  RowsTypeOK' /\ DumpTypes' /\ screen' \in ScreenNames
  <2>1. RowsTypeOK'
    BY <1>2, RowsSteps, RowTypesHold
  <2>2. DumpTypes'
    BY <1>2, DumpSteps, DumpTypesHold
  <2>3. screen' \in ScreenNames
    BY <1>2 DEF Next, Navigate, Import, Loading, Table, Page, Picker, screenVars, vars
  <2> QED
    BY <2>1, <2>2, <2>3
<1> QED
  BY <1>1, <1>2

LEMMA ScreenInvariant == Spec => []ScreenInv
<1>1. Init => ScreenInv
  BY ScreenTypesHold, DumpInvHolds DEF Init, ScreenInv
<1>2. ASSUME ScreenInv, [Next]_vars
      PROVE  ScreenInv'
  BY <1>2, ScreenTypesHold, DumpSteps, DumpInvHolds DEF ScreenInv
<1> QED
  BY <1>1, <1>2, PTL DEF Spec

(* Every variable of the pages has its type, for any rows, dumps, panels,   *)
(* slots and ranges.                                                        *)
THEOREM ScreensTypes == Spec => []TypeOK
<1>1. PanelInv /\ TimeInv /\ LoaderInv /\ ScreenInv => TypeOK
  BY LoaderInvTypes DEF TypeOK, PanelInv, TimeInv, DumpTypes, ScreenInv
<1> QED
  BY <1>1, PanelInvariant, TimeInvariant, LoaderInvariant, ScreenInvariant, PTL
=============================================================================
