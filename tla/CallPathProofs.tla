--------------------------- MODULE CallPathProofs ---------------------------
(***************************************************************************)
(* Theorems about CallPath, for every set of calls and arguments, every    *)
(* scope limits a policy may have, every window, TTL and budget.           *)
(***************************************************************************)
EXTENDS CallPath, FiniteSetTheorems, TLAPS

USE CallPathAssumption, GuardrailAssumption

-----------------------------------------------------------------------------
(* Windows. *)

LEMMA RecentFinite ==
    ASSUME NEW places, IsFiniteSet(places), NEW t, NEW span
    PROVE  /\ IsFiniteSet(Recent(places, t, span))
           /\ Taken(places, t, span) \in Nat
<1>1. Recent(places, t, span) \subseteq places
  BY DEF Recent
<1>2. QED
  BY <1>1, FS_Subset, FS_CardinalityType DEF Taken

LEMMA NotedFinite ==
    ASSUME NEW places, IsFiniteSet(places), NEW c, NEW t, NEW span
    PROVE  IsFiniteSet(Noted(places, c, t, span))
BY RecentFinite, FS_AddElement DEF Noted

LEMMA ScopesNotedFinite ==
    ASSUME NEW rules \in Seq(Nat), NEW places, IsFiniteSet(places), NEW c, NEW t
    PROVE  IsFiniteSet(ScopesNoted(rules, places, c, t))
<1> DEFINE P == Passing(rules, places, t)
           New == {Place(c, i, t) : i \in P}
           f == [i \in P |-> Place(c, i, t)]
<1>1. IsFiniteSet(P)
  <2>1. P \subseteq 1..Len(rules) /\ Len(rules) \in Nat
    BY DEF Passing
  <2>2. IsFiniteSet(1..Len(rules))
    BY <2>1, FS_Interval
  <2>3. QED
    BY <2>1, <2>2, FS_Subset
<1>2. f \in Surjection(P, New)
  BY DEF Surjection
<1>3. IsFiniteSet(New)
  BY <1>1, <1>2, FS_Surjection
<1>4. QED
  BY <1>3, RecentFinite, FS_Union DEF ScopesNoted

LEMMA OneMore ==
    ASSUME NEW S, IsFiniteSet(S), NEW x, NEW T \in SUBSET (S \cup {x})
    PROVE  /\ IsFiniteSet(T) /\ Cardinality(T) \in Nat
           /\ Cardinality(T) <= Cardinality(S) + 1
<1>1. IsFiniteSet(S \cup {x})
  BY FS_AddElement
<1>2. /\ Cardinality(S) \in Nat /\ Cardinality(S \cup {x}) \in Nat
      /\ \/ Cardinality(S \cup {x}) = Cardinality(S)
         \/ Cardinality(S \cup {x}) = Cardinality(S) + 1
  BY <1>1, FS_AddElement, FS_CardinalityType
<1>3. IsFiniteSet(T) /\ Cardinality(T) <= Cardinality(S \cup {x})
  BY <1>1, FS_Subset
<1>4. QED
  BY <1>2, <1>3, FS_CardinalityType

\* Calls that all hold a place in a window are at most as many as it counts.
LEMMA SeatsCount ==
    ASSUME NEW places, IsFiniteSet(places), NEW calls, NEW rule, NEW at,
           NEW t \in Nat, NEW span \in Nat,
           \A c \in calls : /\ at[c] \in Nat /\ t - span < at[c]
                            /\ Place(c, rule, at[c]) \in places
    PROVE  IsFiniteSet(calls) /\ Cardinality(calls) <= Taken(places, t, span)
<1> DEFINE f == [c \in calls |-> Place(c, rule, at[c])]
           R == Recent(places, t, span)
<1>1. f \in Injection(calls, R)
  BY DEF Injection, IsInjective, Recent, Place
<1>2. IsFiniteSet(R)
  BY RecentFinite
<1>3. QED
  BY <1>1, <1>2, FS_Injection DEF Taken

\* A place that counts stays when another call is noted.
LEMMA NotedKeeps ==
    ASSUME NEW places, NEW c, NEW t \in Nat, NEW span \in Nat \ {0}
    PROVE  /\ Place(c, 1, t) \in Noted(places, c, t, span)
           /\ \A d, rule : \A at \in Nat :
                 t - span < at /\ Place(d, rule, at) \in places
                   => Place(d, rule, at) \in Noted(places, c, t, span)
BY DEF Noted, Recent, Place

LEMMA ScopesNotedKeeps ==
    ASSUME NEW rules, NEW places, NEW c, NEW t \in Nat
    PROVE  /\ \A i \in Passing(rules, places, t) :
                 Place(c, i, t) \in ScopesNoted(rules, places, c, t)
           /\ \A d, rule : \A at \in Nat :
                 t - Window < at /\ Place(d, rule, at) \in places
                   => Place(d, rule, at) \in ScopesNoted(rules, places, c, t)
BY DEF ScopesNoted, Recent, Place

-----------------------------------------------------------------------------
(* Types. *)

LEMMA TypeInit == CallInit => CallTypeOK
BY DEF CallInit, CallTypeOK, Stages, Outputs, Unanswered

LEMMA EnterType ==
    ASSUME CallTypeOK, NEW c \in Call, NEW preflight \in BOOLEAN, NEW stop,
           Enter(c, preflight, stop)
    PROVE  CallTypeOK'
<1>1. CachedFor(arg[c]) \in Call \cup {Nobody}
  BY DEF CachedFor, CallTypeOK
<1>2. place' \in [Call -> Stages] /\ hit' \in [Call -> Call \cup {Nobody}]
  <2>1. \/ place' = [place EXCEPT ![c] = "judged"] /\ hit' = [hit EXCEPT ![c] = CachedFor(arg[c])]
        \/ place' = [place EXCEPT ![c] = "refused"] /\ hit' = hit
    BY DEF Enter
  <2>2. QED
    BY <1>1, <2>1 DEF CallTypeOK, Stages
<1>3. only' \in [Call -> BOOLEAN] /\ entered' \in [Call -> Nat]
  BY DEF CallTypeOK, Enter
<1>4. DOMAIN loopPlaces' = Arg
  BY DEF CallTypeOK, Enter
<1>5. UNCHANGED <<limits, tick, arg, left, output, answers, spent, meta, records>>
  BY DEF Enter
<1>6. QED
  BY <1>2, <1>3, <1>4, <1>5 DEF CallTypeOK

LEMMA ObservedType ==
    ASSUME CallTypeOK, NEW c \in Call, NEW from \in Call \cup {Nobody}, Observed(c, from)
    PROVE  /\ records' \subseteq [of : Call, from : Call \cup {Nobody}]
           /\ meta' \in Call \cup {Nobody}
BY DEF CallTypeOK, Observed

LEMMA TypeStep == CallTypeOK /\ [CallNext]_callVars => CallTypeOK'
<1> SUFFICES ASSUME CallTypeOK, [CallNext]_callVars PROVE CallTypeOK'
  OBVIOUS
<1>1. CASE Tick
  BY <1>1 DEF Tick, CallTypeOK, windows
<1>2. ASSUME NEW c \in Call, NEW preflight \in BOOLEAN, NEW stop, Enter(c, preflight, stop)
      PROVE  CallTypeOK'
  BY <1>2, EnterType
<1>3. ASSUME NEW c \in Call, NEW blocked \in BOOLEAN, Judge(c, blocked) PROVE CallTypeOK'
  <2>1. place' \in [Call -> Stages]
    BY <1>3 DEF Judge, CallTypeOK, Stages
  <2>2. Observed(c, meta) \/ UNCHANGED <<records, meta>>
    BY <1>3 DEF Judge
  <2>3. /\ records' \subseteq [of : Call, from : Call \cup {Nobody}]
        /\ meta' \in Call \cup {Nobody}
    BY <2>2, ObservedType DEF CallTypeOK
  <2>4. QED
    BY <1>3, <2>1, <2>3 DEF Judge, CallTypeOK, windows
<1>4. ASSUME NEW c \in Call, ToolFails(c) PROVE CallTypeOK'
  <2>1. Observed(c, meta) /\ place' \in [Call -> Stages]
    BY <1>4 DEF ToolFails, CallTypeOK, Stages
  <2>2. QED
    BY <1>4, <2>1, ObservedType DEF ToolFails, CallTypeOK, windows
<1>5. ASSUME NEW c \in Call, NEW out \in Outputs, ToolReturns(c, out)
      PROVE  CallTypeOK'
  BY <1>5 DEF ToolReturns, CallTypeOK, Stages, windows
<1>6. ASSUME NEW c \in Call, Withhold(c) PROVE CallTypeOK'
  BY <1>6 DEF Withhold, CallTypeOK, Stages, windows
<1>7. ASSUME NEW c \in Call, Finish(c) PROVE CallTypeOK'
  <2>1. /\ place' \in [Call -> Stages] /\ left' \in [Call -> Nat] /\ spent' \in Nat
        /\ answers' \in [Arg -> [of : Call \cup {Nobody}, at : Nat]]
    BY <1>7 DEF Finish, CallTypeOK, Stages
  <2>2. /\ records' \subseteq [of : Call, from : Call \cup {Nobody}]
        /\ meta' \in Call \cup {Nobody}
    <3>1. \/ meta' = c /\ UNCHANGED records
          \/ meta' = Nobody /\ UNCHANGED records
          \/ Observed(c, c) \/ Observed(c, Nobody)
      BY <1>7 DEF Finish, Stashed
    <3>2. QED
      BY <3>1, ObservedType DEF CallTypeOK
  <2>3. QED
    BY <1>7, <2>1, <2>2 DEF Finish, CallTypeOK, windows
<1>8. CASE UNCHANGED callVars
  BY <1>8 DEF callVars, CallTypeOK, windows
<1>9. QED
  BY <1>1, <1>2, <1>3, <1>4, <1>5, <1>6, <1>7, <1>8 DEF CallNext

\* Every variable of the call path keeps its type.
THEOREM CallTypes == CallSpec => []CallTypeOK
BY TypeInit, TypeStep, PTL DEF CallSpec

-----------------------------------------------------------------------------
(* The windows hold. *)

WindowInv == CallTypeOK /\ PlacesAreHeld /\ WindowsHold

LEMMA WindowInit == CallInit => WindowInv
<1> SUFFICES ASSUME CallInit PROVE WindowInv
  OBVIOUS
<1>1. CallTypeOK
  BY TypeInit
<1>2. Begun = {} /\ Admitted = {} /\ IsFiniteSet({}) /\ Cardinality({}) = 0
  BY FS_EmptySet DEF CallInit, Begun, Admitted
<1>3. \A t, span : Within(t, span) = {}
  BY <1>2 DEF Within
<1>4. PlacesAreHeld
  BY <1>2 DEF CallInit, PlacesAreHeld, Seated
<1>5. limits \in Seq(Nat)
  BY <1>1 DEF CallTypeOK
<1>6. \A i \in DOMAIN limits : limits[i] \in Nat
  BY <1>5
<1>7. \A t, a : Alike(t, a) = {}
  BY <1>3 DEF Alike
<1>8. WindowsHold
  <2> SUFFICES ASSUME NEW t \in 0..tick
               PROVE  /\ \A i \in DOMAIN limits : Cardinality(Within(t, Window)) <= limits[i]
                      /\ Cardinality(Within(t, Window)) <= CategoryLimit
                      /\ \A a \in Arg : Cardinality(Alike(t, a)) <= MaxRepeats
    BY DEF WindowsHold
  <2>1. /\ Cardinality(Within(t, Window)) = 0
        /\ \A a \in Arg : Cardinality(Alike(t, a)) = 0
    BY <1>2, <1>3, <1>7
  <2>2. QED
    BY <1>6, <2>1
<1>9. QED
  BY <1>1, <1>4, <1>8 DEF WindowInv

\* What counts in a window is finite, and a smaller set of calls is no larger.
LEMMA WithinFinite ==
    ASSUME PlacesAreHeld, NEW t, NEW span
    PROVE  /\ IsFiniteSet(Within(t, span))
           /\ \A S \in SUBSET Within(t, span) :
                 IsFiniteSet(S) /\ Cardinality(S) <= Cardinality(Within(t, span))
           /\ \A S : IsFiniteSet(S) => Cardinality(S) \in Nat
<1>1. Within(t, span) \subseteq Begun
  BY DEF Within, Admitted, Begun
<1>2. QED
  BY <1>1, FS_Subset, FS_CardinalityType DEF PlacesAreHeld

\* Once let in, a call only ever leaves the windows.
LEMMA WindowLater ==
    ASSUME WindowInv, CallTypeOK', Admitted' \subseteq Admitted, Begun' = Begun,
           UNCHANGED <<limits, tick, entered, arg, windows>>
    PROVE  WindowInv'
<1>1. PlacesAreHeld'
  BY DEF WindowInv, PlacesAreHeld, Seated, windows
<1>2. ASSUME NEW t, NEW span
      PROVE  /\ Within(t, span)' \in SUBSET Within(t, span)
             /\ IsFiniteSet(Within(t, span))
  BY WithinFinite DEF Within, WindowInv
<1>4. ASSUME NEW t, NEW a
      PROVE  Alike(t, a)' \in SUBSET Alike(t, a) /\ IsFiniteSet(Alike(t, a))
  <2>1. Alike(t, a) \in SUBSET Within(t, LoopWindow)
    BY DEF Alike
  <2>2. Alike(t, a)' \in SUBSET Alike(t, a)
    BY <1>2 DEF Alike
  <2>3. QED
    BY <1>2, <2>1, <2>2, FS_Subset
<1>3. \A i \in DOMAIN limits : limits[i] \in Nat
  <2>1. limits \in Seq(Nat)
    BY DEF WindowInv, CallTypeOK
  <2>2. QED
    BY <2>1
<1>5. WindowsHold'
  <2> SUFFICES ASSUME NEW t \in 0..tick
               PROVE  /\ \A i \in DOMAIN limits : Cardinality(Within(t, Window)') <= limits[i]
                      /\ Cardinality(Within(t, Window)') <= CategoryLimit
                      /\ \A a \in Arg : Cardinality(Alike(t, a)') <= MaxRepeats
    BY DEF WindowsHold
  <2>1. /\ \A i \in DOMAIN limits : Cardinality(Within(t, Window)) <= limits[i]
        /\ Cardinality(Within(t, Window)) <= CategoryLimit
        /\ \A a \in Arg : Cardinality(Alike(t, a)) <= MaxRepeats
    BY DEF WindowInv, WindowsHold
  <2>2. /\ Cardinality(Within(t, Window)') <= Cardinality(Within(t, Window))
        /\ Cardinality(Within(t, Window)) \in Nat /\ Cardinality(Within(t, Window)') \in Nat
    BY <1>2, FS_Subset, FS_CardinalityType
  <2>3. ASSUME NEW a \in Arg
        PROVE  Cardinality(Alike(t, a)') <= MaxRepeats
    <3>1. /\ Cardinality(Alike(t, a)') <= Cardinality(Alike(t, a))
          /\ Cardinality(Alike(t, a)) \in Nat /\ Cardinality(Alike(t, a)') \in Nat
      BY <1>4, FS_Subset, FS_CardinalityType
    <3>2. QED
      BY <2>1, <3>1
  <2>4. QED
    BY <1>3, <2>1, <2>2, <2>3
<1>6. QED
  BY <1>1, <1>5 DEF WindowInv

LEMMA WindowTick == WindowInv /\ Tick => WindowInv'
<1> SUFFICES ASSUME WindowInv, Tick PROVE WindowInv'
  OBVIOUS
<1>0. CallTypeOK'
  BY TypeStep DEF WindowInv, CallNext
<1>1. /\ tick' = tick + 1 /\ tick \in Nat /\ entered \in [Call -> Nat]
      /\ UNCHANGED <<limits, place, entered, arg, windows>>
  BY DEF Tick, WindowInv, CallTypeOK
<1>2. Begun' = Begun /\ Admitted' = Admitted
  BY <1>1 DEF Begun, Admitted
<1>3. \A c \in Begun : entered[c] <= tick
  BY DEF WindowInv, PlacesAreHeld
<1>4. Begun \subseteq Call /\ Admitted \subseteq Call
  BY DEF Begun, Admitted
<1>5. PlacesAreHeld'
  <2>1. ASSUME NEW places, NEW calls \in SUBSET Call, NEW rule, NEW span \in Nat,
               Seated(places, calls, rule, span)
        PROVE  \A c \in calls : tick' - span < entered[c] =>
                                   Place(c, rule, entered[c]) \in places
    BY <1>1, <2>1 DEF Seated
  <2>2. \A i \in DOMAIN limits : Seated(scopePlaces, Admitted, i, Window)'
    BY <1>1, <1>2, <1>4, <2>1 DEF WindowInv, PlacesAreHeld, Seated, windows
  <2>3. Seated(categoryPlaces, Admitted, 1, Window)'
    BY <1>1, <1>2, <1>4, <2>1 DEF WindowInv, PlacesAreHeld, Seated, windows
  <2>4. \A a \in Arg : Seated(loopPlaces[a], {c \in Admitted : arg[c] = a}, 1, LoopWindow)'
    BY <1>1, <1>2, <1>4, <2>1 DEF WindowInv, PlacesAreHeld, Seated, windows
  <2>5. \A c \in Begun : entered[c] <= tick'
    BY <1>1, <1>3, <1>4
  <2>6. QED
    BY <1>1, <1>2, <2>2, <2>3, <2>4, <2>5 DEF WindowInv, PlacesAreHeld, windows
<1>6. ASSUME NEW t \in 0..tick, NEW span PROVE Within(t, span)' = Within(t, span)
  BY <1>1, <1>2 DEF Within
<1>7. ASSUME NEW t, t = tick + 1, NEW span \in Nat
      PROVE  Within(t, span)' \subseteq Within(tick, span)
  <2>1. ASSUME NEW c \in Admitted, tick + 1 - span < entered[c]
        PROVE  tick - span < entered[c] /\ entered[c] <= tick
    <3>1. c \in Begun /\ entered[c] \in Nat
      BY <1>1, <1>4 DEF Admitted, Begun
    <3>2. QED
      BY <1>1, <1>3, <2>1, <3>1
  <2>2. QED
    BY <1>1, <1>2, <1>7, <2>1 DEF Within
<1>8. \A i \in DOMAIN limits : limits[i] \in Nat
  <2>1. limits \in Seq(Nat)
    BY DEF WindowInv, CallTypeOK
  <2>2. QED
    BY <2>1
<1>9. WindowsHold'
  <2> SUFFICES ASSUME NEW t \in 0..tick'
               PROVE  /\ \A i \in DOMAIN limits : Cardinality(Within(t, Window)') <= limits[i]
                      /\ Cardinality(Within(t, Window)') <= CategoryLimit
                      /\ \A a \in Arg : Cardinality(Alike(t, a)') <= MaxRepeats
    BY <1>1 DEF WindowsHold
  <2>1. PICK T \in 0..tick : /\ Within(t, Window)' \subseteq Within(T, Window)
                              /\ Within(t, LoopWindow)' \subseteq Within(T, LoopWindow)
    <3>1. CASE t = tick'
      <4>1. tick \in 0..tick
        BY <1>1
      <4>2. QED
        BY <1>1, <1>7, <3>1, <4>1
    <3>2. CASE t # tick'
      <4>1. t \in 0..tick
        BY <1>1, <3>2
      <4>2. QED
        BY <1>6, <4>1
    <3>3. QED
      BY <3>1, <3>2
  <2>3. /\ \A i \in DOMAIN limits : Cardinality(Within(T, Window)) <= limits[i]
        /\ Cardinality(Within(T, Window)) <= CategoryLimit
        /\ \A a \in Arg : Cardinality(Alike(T, a)) <= MaxRepeats
    BY <2>1 DEF WindowInv, WindowsHold
  <2>4. /\ Cardinality(Within(t, Window)') \in Nat /\ Cardinality(Within(T, Window)) \in Nat
        /\ Cardinality(Within(t, Window)') <= Cardinality(Within(T, Window))
    BY <2>1, WithinFinite DEF WindowInv
  <2>5. ASSUME NEW a \in Arg
        PROVE  Cardinality(Alike(t, a)') <= MaxRepeats
    <3>1. Alike(t, a)' \in SUBSET Alike(T, a)
      BY <1>1, <2>1 DEF Alike
    <3>2. Alike(T, a) \in SUBSET Within(T, LoopWindow)
      BY DEF Alike
    <3>3. IsFiniteSet(Alike(T, a))
      BY <3>2, WithinFinite DEF WindowInv
    <3>4. /\ Cardinality(Alike(t, a)') <= Cardinality(Alike(T, a))
          /\ Cardinality(Alike(t, a)') \in Nat /\ Cardinality(Alike(T, a)) \in Nat
      BY <3>1, <3>3, FS_Subset, FS_CardinalityType
    <3>5. QED
      BY <2>3, <3>4
  <2>6. QED
    BY <1>1, <1>8, <2>3, <2>4, <2>5
<1>10. QED
  BY <1>0, <1>5, <1>9 DEF WindowInv

\* The one step that adds calls to the windows.
LEMMA WindowEnter ==
    ASSUME WindowInv, NEW c \in Call, NEW preflight \in BOOLEAN, NEW stop,
           Enter(c, preflight, stop)
    PROVE  WindowInv'
<1> DEFINE In == place'[c] = "judged"
<1>1. /\ tick \in Nat /\ entered \in [Call -> Nat] /\ arg \in [Call -> Arg]
      /\ place \in [Call -> Stages] /\ DOMAIN loopPlaces = Arg
      /\ limits \in Seq(Nat) /\ Window \in Nat \ {0} /\ LoopWindow \in Nat \ {0}
  BY DEF WindowInv, CallTypeOK
<1>2. CallTypeOK'
  BY EnterType DEF WindowInv
<1>3. /\ place[c] = "idle" /\ entered' = [entered EXCEPT ![c] = tick]
      /\ UNCHANGED <<limits, tick, arg>>
      /\ \A d \in Call : d # c => place'[d] = place[d]
      /\ place'[c] \in {"judged", "refused"}
  BY <1>1 DEF Enter
<1>4. Begun' = Begun \cup {c}
  BY <1>1, <1>3 DEF Begun
<1>5. Admitted' = IF In THEN Admitted \cup {c} ELSE Admitted
  BY <1>1, <1>3 DEF Admitted
<1>6. c \notin Begun /\ c \notin Admitted /\ Admitted \subseteq Begun /\ Begun \subseteq Call
  BY <1>3 DEF Begun, Admitted
<1>7. In => /\ Passing(limits, scopePlaces, tick) = DOMAIN limits
            /\ scopePlaces' = ScopesNoted(limits, scopePlaces, c, tick)
            /\ CategoryHasRoom(categoryPlaces, tick)
            /\ categoryPlaces' = Noted(categoryPlaces, c, tick, Window)
            /\ LoopHasRoom(loopPlaces[arg[c]], tick)
            /\ loopPlaces' = [loopPlaces EXCEPT ![arg[c]] = Noted(@, c, tick, LoopWindow)]
  BY <1>1 DEF Enter
<1>8. /\ scopePlaces' \in {scopePlaces, ScopesNoted(limits, scopePlaces, c, tick)}
      /\ categoryPlaces' \in {categoryPlaces, Noted(categoryPlaces, c, tick, Window)}
      /\ loopPlaces' \in {loopPlaces,
                          [loopPlaces EXCEPT ![arg[c]] = Noted(@, c, tick, LoopWindow)]}
  BY DEF Enter
<1>9. \A d \in Begun : entered[d] <= tick
  BY DEF WindowInv, PlacesAreHeld
<1> HIDE DEF In
<1>10. PlacesAreHeld'
  <2>1. IsFiniteSet(Begun') /\ \A d \in Begun' : entered'[d] <= tick'
    BY <1>1, <1>3, <1>4, <1>6, <1>9, FS_AddElement DEF WindowInv, PlacesAreHeld
  <2>2. IsFiniteSet(scopePlaces') /\ IsFiniteSet(categoryPlaces')
    BY <1>1, <1>8, ScopesNotedFinite, NotedFinite DEF WindowInv, PlacesAreHeld
  <2>3. \A a \in Arg : IsFiniteSet(loopPlaces'[a])
    BY <1>1, <1>8, NotedFinite DEF WindowInv, PlacesAreHeld
  <2>4. ASSUME NEW i \in DOMAIN limits PROVE Seated(scopePlaces, Admitted, i, Window)'
    <3> SUFFICES ASSUME NEW d \in Admitted', tick - Window < entered'[d]
                 PROVE  Place(d, i, entered'[d]) \in scopePlaces'
      BY <1>3 DEF Seated
    <3>1. CASE d = c
      <4>1. In /\ entered'[d] = tick
        BY <1>1, <1>3, <1>5, <1>6, <3>1
      <4>2. QED
        BY <1>1, <1>7, <3>1, <4>1, ScopesNotedKeeps
    <3>2. CASE d # c
      <4>1. d \in Admitted /\ entered'[d] = entered[d] /\ entered[d] \in Nat
        BY <1>1, <1>3, <1>5, <1>6, <3>2
      <4>2. Place(d, i, entered[d]) \in scopePlaces
        BY <4>1 DEF WindowInv, PlacesAreHeld, Seated
      <4>3. QED
        BY <1>1, <1>8, <4>1, <4>2, ScopesNotedKeeps
    <3>3. QED
      BY <3>1, <3>2
  <2>5. Seated(categoryPlaces, Admitted, 1, Window)'
    <3> SUFFICES ASSUME NEW d \in Admitted', tick - Window < entered'[d]
                 PROVE  Place(d, 1, entered'[d]) \in categoryPlaces'
      BY <1>3 DEF Seated
    <3>1. CASE d = c
      <4>1. In /\ entered'[d] = tick
        BY <1>1, <1>3, <1>5, <1>6, <3>1
      <4>2. QED
        BY <1>1, <1>7, <3>1, <4>1, NotedKeeps
    <3>2. CASE d # c
      <4>1. d \in Admitted /\ entered'[d] = entered[d] /\ entered[d] \in Nat
        BY <1>1, <1>3, <1>5, <1>6, <3>2
      <4>2. Place(d, 1, entered[d]) \in categoryPlaces
        BY <4>1 DEF WindowInv, PlacesAreHeld, Seated
      <4>3. QED
        BY <1>1, <1>8, <4>1, <4>2, NotedKeeps
    <3>3. QED
      BY <3>1, <3>2
  <2>6. ASSUME NEW a \in Arg
        PROVE  Seated(loopPlaces[a], {d \in Admitted : arg[d] = a}, 1, LoopWindow)'
    <3> SUFFICES ASSUME NEW d \in Admitted', arg[d] = a, tick - LoopWindow < entered'[d]
                 PROVE  Place(d, 1, entered'[d]) \in loopPlaces'[a]
      BY <1>3 DEF Seated
    <3>1. CASE d = c
      <4>1. In /\ entered'[d] = tick
        BY <1>1, <1>3, <1>5, <1>6, <3>1
      <4>2. loopPlaces'[a] = Noted(loopPlaces[a], c, tick, LoopWindow)
        BY <1>1, <1>7, <3>1, <4>1
      <4>3. QED
        BY <1>1, <3>1, <4>1, <4>2, NotedKeeps
    <3>2. CASE d # c
      <4>1. d \in Admitted /\ entered'[d] = entered[d] /\ entered[d] \in Nat
        BY <1>1, <1>3, <1>5, <1>6, <3>2
      <4>2. Place(d, 1, entered[d]) \in loopPlaces[a]
        BY <4>1 DEF WindowInv, PlacesAreHeld, Seated
      <4>3. loopPlaces'[a] \in {loopPlaces[a], Noted(loopPlaces[a], c, tick, LoopWindow)}
        BY <1>1, <1>8
      <4>4. QED
        BY <1>1, <4>1, <4>2, <4>3, NotedKeeps
    <3>3. QED
      BY <3>1, <3>2
  <2>7. QED
    BY <1>3, <2>1, <2>2, <2>3, <2>4, <2>5, <2>6 DEF PlacesAreHeld
<1>11. ASSUME NEW t \in 0..tick, NEW span
       PROVE  /\ Within(t, span)' \subseteq Within(t, span) \cup {c}
              /\ ~In \/ t # tick => Within(t, span)' \subseteq Within(t, span)
  BY <1>1, <1>3, <1>5, <1>6 DEF Within
<1>12. ASSUME NEW places, IsFiniteSet(places), NEW rule, NEW span \in Nat, NEW calls,
              \A d \in calls : d \in Within(tick, span) /\ Place(d, rule, entered[d]) \in places
       PROVE  Cardinality(calls) <= Taken(places, tick, span)
  <2>1. \A d \in calls : entered[d] \in Nat /\ tick - span < entered[d]
    BY <1>1, <1>6, <1>12 DEF Within
  <2>2. QED
    BY <1>1, <1>12, <2>1, SeatsCount
<1>13. ASSUME NEW t \in 0..tick
       PROVE  /\ \A i \in DOMAIN limits : Cardinality(Within(t, Window)) <= limits[i]
              /\ Cardinality(Within(t, Window)) <= CategoryLimit
              /\ \A a \in Arg : Cardinality(Alike(t, a)) <= MaxRepeats
  BY DEF WindowInv, WindowsHold
<1>14. \A i \in DOMAIN limits : limits[i] \in Nat
  BY <1>1
<1>15. IsFiniteSet(Begun) /\ Within(tick, Window) \subseteq Admitted
       /\ \A t, span : Within(t, span) \subseteq Begun
  BY <1>6 DEF WindowInv, PlacesAreHeld, Within
<1>16. ASSUME NEW t \in 0..tick
       PROVE  /\ \A i \in DOMAIN limits : Cardinality(Within(t, Window)') <= limits[i]
              /\ Cardinality(Within(t, Window)') <= CategoryLimit
  <2>1. /\ IsFiniteSet(Within(t, Window)) /\ Cardinality(Within(t, Window)) \in Nat
        /\ Within(t, Window)' \in SUBSET (Within(t, Window) \cup {c})
    BY <1>11, <1>15, WithinFinite DEF WindowInv
  <2>2. CASE ~In \/ t # tick
    <3>1. Within(t, Window)' \in SUBSET Within(t, Window)
      BY <1>11, <2>2
    <3>2. /\ Cardinality(Within(t, Window)') <= Cardinality(Within(t, Window))
          /\ Cardinality(Within(t, Window)') \in Nat
      BY <2>1, <3>1, FS_Subset, FS_CardinalityType
    <3>3. QED
      BY <1>13, <1>14, <2>1, <3>2
  <2>3. CASE In /\ t = tick
    <3>1. /\ Cardinality(Within(t, Window)') \in Nat
          /\ Cardinality(Within(t, Window)') <= Cardinality(Within(t, Window)) + 1
      BY <2>1, OneMore
    <3>2. ASSUME NEW i \in DOMAIN limits
          PROVE  Cardinality(Within(t, Window)') <= limits[i]
      <4>1. \A d \in Within(tick, Window) : Place(d, i, entered[d]) \in scopePlaces
        BY DEF WindowInv, PlacesAreHeld, Seated, Within
      <4>2. Cardinality(Within(tick, Window)) <= Taken(scopePlaces, tick, Window)
        BY <1>1, <1>12, <4>1 DEF WindowInv, PlacesAreHeld
      <4>3. i \in Nat /\ i >= 1 /\ i \in 1..i
        BY <1>1
      <4>4. Taken(scopePlaces, tick, Window) + i <= limits[i]
        BY <1>7, <2>3, <4>3 DEF Passing
      <4>5. Taken(scopePlaces, tick, Window) \in Nat
        BY RecentFinite DEF WindowInv, PlacesAreHeld
      <4>6. Cardinality(Within(t, Window)) = Cardinality(Within(tick, Window))
        BY <2>3
      <4>7. Cardinality(Within(t, Window)) + 1 <= limits[i] /\ limits[i] \in Nat
        BY <1>14, <2>1, <4>2, <4>3, <4>4, <4>5, <4>6
      <4>8. QED
        BY <2>1, <3>1, <4>7
    <3>3. Cardinality(Within(t, Window)') <= CategoryLimit
      <4>1. \A d \in Within(tick, Window) : Place(d, 1, entered[d]) \in categoryPlaces
        BY DEF WindowInv, PlacesAreHeld, Seated, Within
      <4>2. Cardinality(Within(tick, Window)) <= Taken(categoryPlaces, tick, Window)
        BY <1>1, <1>12, <4>1 DEF WindowInv, PlacesAreHeld
      <4>3. Taken(categoryPlaces, tick, Window) < CategoryLimit
        BY <1>7, <2>3 DEF CategoryHasRoom, Room
      <4>4. Taken(categoryPlaces, tick, Window) \in Nat
        BY RecentFinite DEF WindowInv, PlacesAreHeld
      <4>5. QED
        BY <2>1, <2>3, <3>1, <4>2, <4>3, <4>4
    <3>4. QED
      BY <3>2, <3>3
  <2>4. QED
    BY <2>2, <2>3
<1>17. ASSUME NEW t \in 0..tick, NEW a \in Arg
       PROVE  Cardinality(Alike(t, a)') <= MaxRepeats
  <2>1. /\ IsFiniteSet(Alike(t, a)) /\ Cardinality(Alike(t, a)) \in Nat
        /\ Cardinality(Alike(t, a)) <= MaxRepeats
    <3>1. Alike(t, a) \in SUBSET Within(t, LoopWindow)
      BY DEF Alike
    <3>2. QED
      BY <1>13, <3>1, WithinFinite DEF WindowInv
  <2>2. CASE ~In \/ t # tick \/ arg[c] # a
    <3>1. Alike(t, a)' \in SUBSET Alike(t, a)
      BY <1>3, <1>11, <2>2 DEF Alike
    <3>2. /\ Cardinality(Alike(t, a)') <= Cardinality(Alike(t, a))
          /\ Cardinality(Alike(t, a)') \in Nat
      BY <2>1, <3>1, FS_Subset, FS_CardinalityType
    <3>3. QED
      BY <2>1, <3>2
  <2>3. CASE In /\ t = tick /\ arg[c] = a
    <3>1. Alike(t, a)' \in SUBSET (Alike(t, a) \cup {c})
      BY <1>3, <1>11 DEF Alike
    <3>2. /\ Cardinality(Alike(t, a)') \in Nat
          /\ Cardinality(Alike(t, a)') <= Cardinality(Alike(t, a)) + 1
      BY <2>1, <3>1, OneMore
    <3>3. \A d \in Alike(tick, a) :
             d \in Within(tick, LoopWindow) /\ Place(d, 1, entered[d]) \in loopPlaces[a]
      BY DEF WindowInv, PlacesAreHeld, Seated, Alike, Within
    <3>4. Cardinality(Alike(tick, a)) <= Taken(loopPlaces[a], tick, LoopWindow)
      BY <1>1, <1>12, <3>3 DEF WindowInv, PlacesAreHeld
    <3>5. Taken(loopPlaces[a], tick, LoopWindow) < MaxRepeats
      BY <1>7, <2>3 DEF LoopHasRoom, Room
    <3>6. Taken(loopPlaces[a], tick, LoopWindow) \in Nat
      BY RecentFinite DEF WindowInv, PlacesAreHeld
    <3>7. Cardinality(Alike(t, a)) = Cardinality(Alike(tick, a))
      BY <2>3
    <3>8. Cardinality(Alike(t, a)) + 1 <= MaxRepeats
      BY <2>1, <3>4, <3>5, <3>6, <3>7
    <3>9. QED
      BY <2>1, <3>2, <3>8
  <2>4. QED
    BY <2>2, <2>3
<1>18. WindowsHold'
  BY <1>3, <1>16, <1>17 DEF WindowsHold
<1>19. QED
  BY <1>2, <1>10, <1>18 DEF WindowInv

LEMMA WindowStep == WindowInv /\ [CallNext]_callVars => WindowInv'
<1> SUFFICES ASSUME WindowInv, [CallNext]_callVars PROVE WindowInv'
  OBVIOUS
<1>0. CallTypeOK' /\ place \in [Call -> Stages]
  BY TypeStep DEF WindowInv, CallTypeOK
<1>1. ASSUME NEW c \in Call, NEW p, p # "idle", place[c] \notin {"idle", "refused"},
             place' = [place EXCEPT ![c] = p],
             UNCHANGED <<limits, tick, entered, arg, windows>>
      PROVE  WindowInv'
  <2>1. Begun' = Begun /\ Admitted' \subseteq Admitted
    BY <1>0, <1>1 DEF Begun, Admitted
  <2>2. QED
    BY <1>0, <1>1, <2>1, WindowLater
<1>2. CASE Tick
  BY <1>2, WindowTick
<1>3. ASSUME NEW c \in Call, NEW preflight \in BOOLEAN, NEW stop, Enter(c, preflight, stop)
      PROVE  WindowInv'
  BY <1>3, WindowEnter
<1>4. ASSUME NEW c \in Call, NEW blocked \in BOOLEAN, Judge(c, blocked) PROVE WindowInv'
  BY <1>1, <1>4 DEF Judge
<1>5. ASSUME NEW c \in Call, ToolFails(c) PROVE WindowInv'
  BY <1>1, <1>5 DEF ToolFails
<1>6. ASSUME NEW c \in Call, NEW out, ToolReturns(c, out) PROVE WindowInv'
  BY <1>1, <1>6 DEF ToolReturns
<1>7. ASSUME NEW c \in Call, Withhold(c) PROVE WindowInv'
  BY <1>1, <1>7 DEF Withhold
<1>8. ASSUME NEW c \in Call, Finish(c) PROVE WindowInv'
  BY <1>1, <1>8 DEF Finish
<1>9. CASE UNCHANGED callVars
  <2>1. Begun' = Begun /\ Admitted' = Admitted
    BY <1>9 DEF callVars, Begun, Admitted
  <2>2. QED
    BY <1>0, <1>9, <2>1, WindowLater DEF callVars
<1>10. QED
  BY <1>2, <1>3, <1>4, <1>5, <1>6, <1>7, <1>8, <1>9 DEF CallNext

\* However calls overlap, are refused half-way or only ask, no window ever lets
\* more of them through than its limit (supervisor.py:360-368,
\* deterministic.py:168-179, 213-222).
THEOREM WindowsAlwaysHold == CallSpec => []WindowsHold
<1>1. WindowInv => WindowsHold
  BY DEF WindowInv
<1>2. QED
  BY WindowInit, WindowStep, <1>1, PTL DEF CallSpec

-----------------------------------------------------------------------------
(* An answered call is not run again. *)

AnswerInv == CallTypeOK /\ AnswersAreKept /\ MissesAreExcused

LEMMA AnswerInit == CallInit => AnswerInv
<1> SUFFICES ASSUME CallInit PROVE AnswerInv
  OBVIOUS
<1>1. CallTypeOK
  BY TypeInit
<1>2. (\A c \in Call : place[c] = "idle") /\ (\A a \in Arg : answers[a].of = Nobody)
  BY DEF CallInit, Unanswered
<1>3. QED
  BY <1>1, <1>2 DEF AnswerInv, AnswersAreKept, MissesAreExcused

\* A call that goes on, short of its end, disturbs no answer.
LEMMA AnswerMove ==
    ASSUME AnswerInv, CallTypeOK', NEW c \in Call, NEW stage,
           place[c] \notin {"idle", "refused", "finished"}, stage \notin {"idle", "finished"},
           place' = [place EXCEPT ![c] = stage],
           \A d \in Call : d # c => output'[d] = output[d],
           UNCHANGED <<tick, arg, entered, left, hit, answers>>,
           stage \notin {"refused", "judged", "cleared", "cached"} => hit[c] = Nobody
    PROVE  AnswerInv'
<1>1. place \in [Call -> Stages]
  BY DEF AnswerInv, CallTypeOK
<1>2. \A d \in Call : place'[d] = "finished" <=> place[d] = "finished"
  BY <1>1
<1>3. \A d, e \in Call : Answering(d, e)' <=> Answering(d, e)
  BY <1>2 DEF Answering
<1>4. AnswersAreKept'
  <2>1. \A a \in Arg : answers[a].of \in Call \cup {Nobody}
    BY DEF AnswerInv, CallTypeOK
  <2>2. QED
    BY <1>2, <2>1 DEF AnswerInv, AnswersAreKept
<1>5. MissesAreExcused'
  <2> SUFFICES ASSUME NEW e \in Call
               PROVE  /\ place'[e] # "idle" => entered[e] <= tick
                      /\ place'[e] \notin {"idle", "refused", "judged", "cleared", "cached"}
                            => hit[e] = Nobody
                      /\ place'[e] \notin {"idle", "refused"} /\ hit[e] = Nobody =>
                            \A d \in Call : Answering(d, e)' =>
                               \E f \in Call : /\ place'[f] = "finished"
                                               /\ Redacted[arg[f]] = arg[e]
                                               /\ output'[f] = "none"
    BY DEF MissesAreExcused
  <2>1. /\ place[e] # "idle" => entered[e] <= tick
        /\ place[e] \notin {"idle", "refused", "judged", "cleared", "cached"} => hit[e] = Nobody
        /\ place[e] \notin {"idle", "refused"} /\ hit[e] = Nobody =>
              \A d \in Call : Answering(d, e) =>
                 \E f \in Call : place[f] = "finished" /\ Redacted[arg[f]] = arg[e]
                                 /\ output[f] = "none"
    BY DEF AnswerInv, MissesAreExcused
  <2>2. /\ place'[e] # "idle" => place[e] # "idle"
        /\ place'[e] \notin {"idle", "refused"} => place[e] \notin {"idle", "refused"}
    BY <1>1
  <2>3. place'[e] \notin {"idle", "refused", "judged", "cleared", "cached"} => hit[e] = Nobody
    BY <1>1, <2>1
  <2>4. ASSUME NEW f \in Call, place[f] = "finished", output[f] = "none"
        PROVE  place'[f] = "finished" /\ output'[f] = "none"
    BY <1>2, <2>4
  <2>5. QED
    BY <1>3, <2>1, <2>2, <2>3, <2>4
<1>6. QED
  BY <1>4, <1>5 DEF AnswerInv

\* A call that misses an answer young enough was offered an output of None.
LEMMA AnswerEnter ==
    ASSUME AnswerInv, NEW c \in Call, NEW preflight \in BOOLEAN, NEW stop,
           Enter(c, preflight, stop)
    PROVE  AnswerInv'
<1>1. CallTypeOK'
  BY EnterType DEF AnswerInv
<1>2. /\ place \in [Call -> Stages] /\ entered \in [Call -> Nat] /\ tick \in Nat
      /\ left \in [Call -> Nat] /\ hit \in [Call -> Call \cup {Nobody}] /\ arg \in [Call -> Arg]
      /\ answers \in [Arg -> [of : Call \cup {Nobody}, at : Nat]]
  BY DEF AnswerInv, CallTypeOK
<1>3. /\ place[c] = "idle" /\ entered' = [entered EXCEPT ![c] = tick]
      /\ \/ place' = [place EXCEPT ![c] = "judged"] /\ hit' = [hit EXCEPT ![c] = CachedFor(arg[c])]
         \/ place' = [place EXCEPT ![c] = "refused"] /\ UNCHANGED hit
      /\ UNCHANGED <<tick, arg, left, output, answers>>
  BY DEF Enter
<1>4. \A d \in Call : place'[d] = "finished" <=> place[d] = "finished"
  BY <1>2, <1>3
<1>5. AnswersAreKept'
  BY <1>2, <1>3, <1>4 DEF AnswerInv, AnswersAreKept
<1>6. \A d, e \in Call : e # c => (Answering(d, e)' <=> Answering(d, e))
  BY <1>2, <1>3, <1>4 DEF Answering
<1>7. ASSUME NEW d \in Call, Answering(d, c)', place'[c] = "judged", hit'[c] = Nobody
      PROVE  \E e \in Call : place[e] = "finished" /\ Redacted[arg[e]] = arg[c]
                             /\ output[e] = "none"
  <2> DEFINE kept == answers[arg[c]]
  <2>1. /\ place[d] = "finished" /\ arg[d] = arg[c] /\ Redacted[arg[c]] = arg[c]
        /\ tick - left[d] < Ttl
    BY <1>2, <1>3, <1>4, <1>7 DEF Answering
  <2>2. /\ kept.of # Nobody /\ left[d] <= kept.at
    BY <2>1 DEF AnswerInv, AnswersAreKept
  <2>3. kept \in [of : Call \cup {Nobody}, at : Nat]
    BY <1>2
  <2>4. tick - kept.at < Ttl
    BY <1>2, <2>1, <2>2, <2>3
  <2>5. CachedFor(arg[c]) = Nobody
    BY <1>2, <1>3, <1>7
  <2>6. output[kept.of] = "none"
    BY <1>2, <2>2, <2>3, <2>4, <2>5 DEF CachedFor
  <2>7. place[kept.of] = "finished" /\ Redacted[arg[kept.of]] = arg[c]
    BY <1>2, <2>2 DEF AnswerInv, AnswersAreKept
  <2>8. QED
    BY <2>2, <2>3, <2>6, <2>7
<1>8. MissesAreExcused'
  <2> SUFFICES ASSUME NEW e \in Call
               PROVE  /\ place'[e] # "idle" => entered'[e] <= tick
                      /\ place'[e] \notin {"idle", "refused", "judged", "cleared", "cached"}
                            => hit'[e] = Nobody
                      /\ place'[e] \notin {"idle", "refused"} /\ hit'[e] = Nobody =>
                            \A d \in Call : Answering(d, e)' =>
                               \E f \in Call : /\ place'[f] = "finished"
                                               /\ Redacted[arg[f]] = arg[e]
                                               /\ output[f] = "none"
    BY <1>3 DEF MissesAreExcused
  <2>1. CASE e = c
    <3>1. entered'[c] = tick /\ place'[c] \in {"judged", "refused"}
      BY <1>2, <1>3
    <3>2. QED
      BY <1>2, <1>4, <1>7, <2>1, <3>1
  <2>2. CASE e # c
    <3>1. place'[e] = place[e] /\ entered'[e] = entered[e] /\ hit'[e] = hit[e]
      BY <1>2, <1>3, <2>2
    <3>2. QED
      BY <1>4, <1>6, <2>2, <3>1 DEF AnswerInv, MissesAreExcused
  <2>3. QED
    BY <2>1, <2>2
<1>9. QED
  BY <1>1, <1>5, <1>8 DEF AnswerInv

\* A call that ends now answers none that is already under way.
LEMMA AnswerFinish ==
    ASSUME AnswerInv, CallTypeOK', NEW c \in Call, Finish(c)
    PROVE  AnswerInv'
<1>1. /\ place \in [Call -> Stages] /\ entered \in [Call -> Nat] /\ tick \in Nat
      /\ left \in [Call -> Nat] /\ hit \in [Call -> Call \cup {Nobody}] /\ arg \in [Call -> Arg]
      /\ answers \in [Arg -> [of : Call \cup {Nobody}, at : Nat]]
      /\ Redacted \in [Arg -> Arg] /\ Nobody \notin Call
  BY DEF AnswerInv, CallTypeOK
<1>2. /\ place[c] = "reviewed" /\ place' = [place EXCEPT ![c] = "finished"]
      /\ left' = [left EXCEPT ![c] = tick]
      /\ answers' = [answers EXCEPT ![Redacted[arg[c]]] = [of |-> c, at |-> tick]]
      /\ UNCHANGED <<tick, arg, entered, hit, output>>
  BY DEF Finish
<1>3. \A d \in Call : place'[d] = "finished" <=> (place[d] = "finished" \/ d = c)
  BY <1>1, <1>2
<1>4. AnswersAreKept'
  <2>1. ASSUME NEW a \in Arg, answers'[a].of # Nobody
        PROVE  /\ place'[answers'[a].of] = "finished" /\ Redacted[arg[answers'[a].of]] = a
    <3>1. CASE a = Redacted[arg[c]]
      BY <1>1, <1>2, <3>1
    <3>2. CASE a # Redacted[arg[c]]
      <4>1. answers'[a] = answers[a] /\ answers[a].of \in Call
        BY <1>1, <1>2, <2>1, <3>2
      <4>2. QED
        BY <1>3, <2>1, <4>1 DEF AnswerInv, AnswersAreKept
    <3>3. QED
      BY <3>1, <3>2
  <2>2. ASSUME NEW d \in Call, place'[d] = "finished"
        PROVE  LET kept == answers'[Redacted[arg[d]]]
               IN  kept.of # Nobody /\ left'[d] <= kept.at /\ left'[d] <= tick
    <3>1. left'[d] <= tick /\ (d # c => place[d] = "finished" /\ left'[d] = left[d])
      BY <1>1, <1>2, <1>3, <2>2 DEF AnswerInv, AnswersAreKept
    <3>2. CASE Redacted[arg[d]] = Redacted[arg[c]]
      BY <1>1, <1>2, <3>1, <3>2
    <3>3. CASE Redacted[arg[d]] # Redacted[arg[c]]
      <4>1. d # c /\ Redacted[arg[d]] \in Arg
        BY <1>1, <3>3
      <4>2. answers'[Redacted[arg[d]]] = answers[Redacted[arg[d]]]
        BY <1>1, <1>2, <3>3, <4>1
      <4>3. QED
        BY <3>1, <4>1, <4>2 DEF AnswerInv, AnswersAreKept
    <3>4. QED
      BY <3>2, <3>3
  <2>3. QED
    BY <1>2, <2>1, <2>2 DEF AnswersAreKept
<1>5. ASSUME NEW d \in Call, NEW e \in Call, Answering(d, e)', entered[e] <= tick
      PROVE  Answering(d, e)
  <2>1. d # c
    BY <1>1, <1>2, <1>5 DEF Answering
  <2>2. QED
    BY <1>1, <1>2, <1>3, <1>5, <2>1 DEF Answering
<1>6. MissesAreExcused'
  <2> SUFFICES ASSUME NEW e \in Call
               PROVE  /\ place'[e] # "idle" => entered[e] <= tick
                      /\ place'[e] \notin {"idle", "refused", "judged", "cleared", "cached"}
                            => hit[e] = Nobody
                      /\ place'[e] \notin {"idle", "refused"} /\ hit[e] = Nobody =>
                            \A d \in Call : Answering(d, e)' =>
                               \E f \in Call : /\ place'[f] = "finished"
                                               /\ Redacted[arg[f]] = arg[e]
                                               /\ output[f] = "none"
    BY <1>2 DEF MissesAreExcused
  <2>1. /\ place[e] # "idle" => entered[e] <= tick
        /\ place[e] \notin {"idle", "refused", "judged", "cleared", "cached"} => hit[e] = Nobody
        /\ place[e] \notin {"idle", "refused"} /\ hit[e] = Nobody =>
              \A d \in Call : Answering(d, e) =>
                 \E f \in Call : place[f] = "finished" /\ Redacted[arg[f]] = arg[e]
                                 /\ output[f] = "none"
    BY DEF AnswerInv, MissesAreExcused
  <2>2. place'[e] = place[e] \/ (e = c /\ place[e] = "reviewed" /\ place'[e] = "finished")
    BY <1>1, <1>2
  <2>3. QED
    BY <1>3, <1>5, <2>1, <2>2
<1>7. QED
  BY <1>4, <1>6 DEF AnswerInv

LEMMA AnswerStep == AnswerInv /\ [CallNext]_callVars => AnswerInv'
<1> SUFFICES ASSUME AnswerInv, [CallNext]_callVars PROVE AnswerInv'
  OBVIOUS
<1>0. CallTypeOK' /\ CallTypeOK
  BY TypeStep DEF AnswerInv
<1>1. CASE Tick
  <2>1. /\ tick' = tick + 1 /\ tick \in Nat /\ entered \in [Call -> Nat] /\ left \in [Call -> Nat]
        /\ UNCHANGED <<place, arg, entered, left, hit, output, answers>>
    BY <1>0, <1>1 DEF Tick, CallTypeOK
  <2>2. AnswersAreKept'
    BY <2>1 DEF AnswerInv, AnswersAreKept
  <2>3. \A d, e \in Call : Answering(d, e)' <=> Answering(d, e)
    BY <2>1 DEF Answering
  <2>4. MissesAreExcused'
    BY <2>1, <2>3 DEF AnswerInv, MissesAreExcused
  <2>5. QED
    BY <1>0, <2>2, <2>4 DEF AnswerInv
<1>2. ASSUME NEW c \in Call, NEW preflight \in BOOLEAN, NEW stop, Enter(c, preflight, stop)
      PROVE  AnswerInv'
  BY <1>2, AnswerEnter
<1>3. ASSUME NEW c \in Call, NEW blocked \in BOOLEAN, Judge(c, blocked) PROVE AnswerInv'
  <2>1. PICK stage \in {"cached", "refused", "cleared", "running"} :
           place' = [place EXCEPT ![c] = stage] /\ (stage = "running" => hit[c] = Nobody)
    BY <1>3 DEF Judge
  <2>2. place[c] = "judged" /\ UNCHANGED <<tick, arg, entered, left, hit, answers, output>>
    BY <1>3 DEF Judge
  <2>3. QED
    BY <1>0, <2>1, <2>2, AnswerMove
<1>4. ASSUME NEW c \in Call, ToolFails(c) PROVE AnswerInv'
  <2>1. hit[c] = Nobody
    BY <1>4 DEF ToolFails, AnswerInv, MissesAreExcused
  <2>2. QED
    BY <1>0, <1>4, <2>1, AnswerMove DEF ToolFails
<1>5. ASSUME NEW c \in Call, NEW out, ToolReturns(c, out) PROVE AnswerInv'
  <2>1. hit[c] = Nobody
    BY <1>5 DEF ToolReturns, AnswerInv, MissesAreExcused
  <2>2. \A d \in Call : d # c => output'[d] = output[d]
    BY <1>0, <1>5 DEF ToolReturns, CallTypeOK
  <2>3. QED
    BY <1>0, <1>5, <2>1, <2>2, AnswerMove DEF ToolReturns
<1>6. ASSUME NEW c \in Call, Withhold(c) PROVE AnswerInv'
  <2>1. hit[c] = Nobody
    BY <1>6 DEF Withhold, AnswerInv, MissesAreExcused
  <2>2. QED
    BY <1>0, <1>6, <2>1, AnswerMove DEF Withhold
<1>7. ASSUME NEW c \in Call, Finish(c) PROVE AnswerInv'
  BY <1>0, <1>7, AnswerFinish
<1>8. CASE UNCHANGED callVars
  <2>1. UNCHANGED <<tick, place, arg, entered, left, hit, output, answers>>
    BY <1>8 DEF callVars
  <2>2. QED
    BY <1>0, <2>1 DEF AnswerInv, AnswersAreKept, MissesAreExcused, Answering
<1>9. QED
  BY <1>1, <1>2, <1>3, <1>4, <1>5, <1>6, <1>7, <1>8 DEF CallNext

\* A call whose arguments redaction leaves alone and which was answered less than
\* a TTL ago is not run again, whatever other calls did meanwhile
\* (supervisor.py:671-674, deterministic.py:258-276).
THEOREM AnsweredIsNeverRerun == CallSpec => []AnsweredIsNotRerun
<1>1. AnswerInv => AnsweredIsNotRerun
  BY DEF AnswerInv, MissesAreExcused, Answering, AnsweredIsNotRerun
<1>2. QED
  BY AnswerInit, AnswerStep, <1>1, PTL DEF CallSpec

-----------------------------------------------------------------------------
(* Tokens are attributed. *)

TokenInv == CallTypeOK /\ TokensAreRecorded /\ TokensAreAttributed

LEMMA TokenInit == CallInit => TokenInv
<1> SUFFICES ASSUME CallInit PROVE TokenInv
  OBVIOUS
<1>1. Reported = {} /\ records = {} /\ spent = 0
  BY DEF CallInit, Reported
<1>2. {r.of : r \in {x \in records : x.from # Nobody}} = {}
  BY <1>1
<1>3. {c \in Reported : output[c] = "costly"} = {}
  BY <1>1
<1>4. TokensAreAttributed
  BY <1>1, <1>2, <1>3, FS_EmptySet DEF TokensAreAttributed
<1>5. QED
  BY <1>1, <1>4, TypeInit, FS_EmptySet DEF CallInit, TokenInv, TokensAreRecorded

\* A call that goes on, and leaves the books alone.
LEMMA TokenMove ==
    ASSUME TokenInv, CallTypeOK', UNCHANGED <<spent, meta, records>>,
           \A c \in Call : place[c] \in {"cached", "failed", "finished"} =>
                               place'[c] = place[c] /\ output'[c] = output[c],
           \A c \in Call : place'[c] = "finished" => place[c] = "finished"
    PROVE  TokenInv'
<1>1. \A r \in records : r.of \in Call
  BY DEF TokenInv, CallTypeOK
<1>2. Reported' = Reported
  BY DEF Reported, Charged
<1>3. {c \in Reported' : output'[c] = "costly"} = {c \in Reported : output[c] = "costly"}
  BY <1>2 DEF Reported
<1>4. TokensAreAttributed'
  BY <1>2, <1>3 DEF TokenInv, TokensAreAttributed
<1>5. QED
  BY <1>1, <1>2, <1>4 DEF TokenInv, TokensAreRecorded

\* A call's only record: it takes the call's own tokens if the output reported
\* them apart, and none otherwise.
LEMMA TokenRecord ==
    ASSUME TokenInv, CallTypeOK', NEW c \in Call, NEW from \in {c, Nobody}, Observed(c, from),
           place[c] \in {"judged", "running", "reviewed"},
           place'[c] \in {"cached", "failed", "finished"},
           \A d \in Call : d # c => place'[d] = place[d],
           UNCHANGED output,
           from = c <=> place'[c] = "finished" /\ output[c] = "costly",
           spent' = IF place'[c] = "finished" /\ Charged(c) THEN spent + 1 ELSE spent
    PROVE  TokenInv'
<1> DEFINE r == [of |-> c, from |-> from]
           costly == {d \in Reported : output[d] = "costly"}
           paid == {y.of : y \in {x \in records : x.from # Nobody}}
<1>1. records' = records \cup {r} /\ meta' = Nobody
  BY DEF Observed
<1>2. \A x \in records : x.of \in Call /\ place[x.of] \in {"cached", "failed", "finished"}
  BY DEF TokenInv, CallTypeOK, TokensAreRecorded
<1>3. /\ IsFiniteSet(Reported) /\ c \notin Reported /\ spent \in Nat /\ Nobody \notin Call
      /\ Cardinality(Reported) \in Nat
  BY FS_CardinalityType DEF TokenInv, TokensAreRecorded, CallTypeOK, Reported
<1>4. Reported' = IF place'[c] = "finished" /\ Charged(c) THEN Reported \cup {c} ELSE Reported
  BY DEF Reported, Charged
<1>5. costly' = IF from = c THEN costly \cup {c} ELSE costly
  <2>1. \A d \in Call : d \in costly' <=> d \in Reported' /\ output[d] = "costly"
    OBVIOUS
  <2>2. from = c => Reported' = Reported \cup {c} /\ output[c] = "costly"
    BY <1>4 DEF Charged
  <2>3. from # c => Reported' = Reported \/ (Reported' = Reported \cup {c} /\ output[c] # "costly")
    BY <1>4
  <2>4. QED
    BY <2>2, <2>3
<1>6. {y.of : y \in {x \in records' : x.from # Nobody}} = IF from = c THEN paid \cup {c} ELSE paid
  <2>1. CASE from = c
    <3>1. {x \in records' : x.from # Nobody} = {x \in records : x.from # Nobody} \cup {r}
      BY <1>1, <1>3, <2>1
    <3>2. r.of = c
      OBVIOUS
    <3> HIDE DEF r
    <3>3. QED
      BY <2>1, <3>1, <3>2
  <2>2. CASE from = Nobody
    <3>1. {x \in records' : x.from # Nobody} = {x \in records : x.from # Nobody}
      BY <1>1, <2>2
    <3>2. from # c
      BY <1>3, <2>2
    <3>3. QED
      BY <3>1, <3>2
  <2>3. QED
    BY <2>1, <2>2
<1>7. IsFiniteSet(Reported') /\ Cardinality(Reported') =
         IF place'[c] = "finished" /\ Charged(c) THEN Cardinality(Reported) + 1
         ELSE Cardinality(Reported)
  BY <1>3, <1>4, FS_AddElement
<1>8. TokensAreRecorded'
  <2>1. \A x \in records' : place'[x.of] \in {"cached", "failed", "finished"}
    BY <1>1, <1>2
  <2>2. QED
    BY <1>1, <1>7, <2>1 DEF TokensAreRecorded
<1>9. TokensAreAttributed'
  <2> SUFFICES ASSUME spent' <= TokenBudget
               PROVE  /\ \A x \in records' : x.from \in {x.of, Nobody}
                      /\ {y.of : y \in {x \in records' : x.from # Nobody}} = costly'
                      /\ spent' = Cardinality(Reported')
    BY DEF TokensAreAttributed
  <2>1. spent <= TokenBudget
    BY <1>3
  <2>2. /\ \A x \in records : x.from \in {x.of, Nobody}
        /\ paid = costly
        /\ spent = Cardinality(Reported)
    BY <2>1 DEF TokenInv, TokensAreAttributed
  <2>3. \A x \in records' : x.from \in {x.of, Nobody}
    BY <1>1, <2>2
  <2>4. spent' = Cardinality(Reported')
    BY <1>7, <2>2
  <2>5. QED
    BY <1>5, <1>6, <2>2, <2>3, <2>4
<1>10. QED
  BY <1>8, <1>9 DEF TokenInv

\* Past the budget only the records themselves are promised.
LEMMA TokenOver ==
    ASSUME TokenInv, CallTypeOK', spent' > TokenBudget, NEW c \in Call, NEW from,
           UNCHANGED records \/ records' = records \cup {[of |-> c, from |-> from]},
           place'[c] \in {"cached", "failed", "finished"},
           \A d \in Call : d # c => place'[d] = place[d],
           UNCHANGED output
    PROVE  TokenInv'
<1>1. \A x \in records : x.of \in Call /\ place[x.of] \in {"cached", "failed", "finished"}
  BY DEF TokenInv, CallTypeOK, TokensAreRecorded
<1>2. IsFiniteSet(Reported')
  <2>1. IsFiniteSet(Reported \cup {c})
    BY FS_AddElement DEF TokenInv, TokensAreRecorded
  <2>2. Reported' \in SUBSET (Reported \cup {c})
    BY DEF Reported, Charged
  <2>3. QED
    BY <2>1, <2>2, FS_Subset
<1>3. \A x \in records' : place'[x.of] \in {"cached", "failed", "finished"}
  BY <1>1
<1>4. spent' \in Nat
  BY DEF CallTypeOK
<1>5. ~(spent' <= TokenBudget)
  BY <1>4
<1>6. QED
  BY <1>2, <1>3, <1>5 DEF TokenInv, TokensAreRecorded, TokensAreAttributed

LEMMA TokenStep == TokenInv /\ [CallNext]_callVars => TokenInv'
<1> SUFFICES ASSUME TokenInv, [CallNext]_callVars PROVE TokenInv'
  OBVIOUS
<1>0. CallTypeOK' /\ CallTypeOK
  BY TypeStep DEF TokenInv
<1>t. /\ place \in [Call -> Stages] /\ spent \in Nat
      /\ spent <= TokenBudget \/ spent > TokenBudget
      /\ spent <= TokenBudget => meta = Nobody
  BY <1>0 DEF CallTypeOK, TokenInv, TokensAreRecorded
<1>a. ASSUME NEW c \in Call, NEW stage \in {"cached", "failed"},
             place[c] \in {"judged", "running"}, place' = [place EXCEPT ![c] = stage],
             Observed(c, meta), UNCHANGED <<spent, output>>
      PROVE  TokenInv'
  <2>1. place'[c] = stage /\ \A d \in Call : d # c => place'[d] = place[d]
    BY <1>t, <1>a
  <2>2. CASE spent <= TokenBudget
    <3>1. meta = Nobody /\ Nobody # c /\ stage # "finished"
      BY <1>t, <2>2
    <3>2. QED
      BY <1>0, <1>a, <2>1, <3>1, TokenRecord
  <2>3. CASE spent > TokenBudget
    BY <1>0, <1>a, <2>1, <2>3, TokenOver DEF Observed
  <2>4. QED
    BY <1>t, <2>2, <2>3
<1>1. CASE Tick
  BY <1>0, <1>t, <1>1, TokenMove DEF Tick
<1>2. ASSUME NEW c \in Call, NEW preflight \in BOOLEAN, NEW stop, Enter(c, preflight, stop)
      PROVE  TokenInv'
  <2>1. \A d \in Call : place[d] \in {"cached", "failed", "finished"} =>
                                place'[d] = place[d] /\ output'[d] = output[d]
    BY <1>t, <1>2 DEF Enter
  <2>2. QED
    BY <1>0, <1>t, <1>2, <2>1, TokenMove DEF Enter
<1>3. ASSUME NEW c \in Call, NEW blocked \in BOOLEAN, Judge(c, blocked) PROVE TokenInv'
  <2>1. CASE ~blocked /\ ~only[c] /\ hit[c] # Nobody
    BY <1>3, <1>a, <2>1 DEF Judge
  <2>2. CASE ~(~blocked /\ ~only[c] /\ hit[c] # Nobody)
    <3>1. \A d \in Call : place[d] \in {"cached", "failed", "finished"} =>
                                  place'[d] = place[d] /\ output'[d] = output[d]
      BY <1>t, <1>3, <2>2 DEF Judge
    <3>2. UNCHANGED <<spent, meta, records>>
      BY <1>3, <2>2 DEF Judge
    <3>3. \A d \in Call : place'[d] = "finished" => place[d] = "finished"
      BY <1>t, <1>3, <2>2 DEF Judge
    <3>4. QED
      BY <1>0, <3>1, <3>2, <3>3, TokenMove
  <2>3. QED
    BY <2>1, <2>2
<1>4. ASSUME NEW c \in Call, ToolFails(c) PROVE TokenInv'
  BY <1>4, <1>a DEF ToolFails
<1>5. ASSUME NEW c \in Call, NEW out, ToolReturns(c, out) PROVE TokenInv'
  <2>1. \A d \in Call : place[d] \in {"cached", "failed", "finished"} =>
                                place'[d] = place[d] /\ output'[d] = output[d]
    BY <1>t, <1>5 DEF ToolReturns
  <2>2. \A d \in Call : place'[d] = "finished" => place[d] = "finished"
    BY <1>t, <1>5 DEF ToolReturns
  <2>3. QED
    BY <1>0, <1>5, <2>1, <2>2, TokenMove DEF ToolReturns
<1>6. ASSUME NEW c \in Call, Withhold(c) PROVE TokenInv'
  <2>1. \A d \in Call : place[d] \in {"cached", "failed", "finished"} =>
                                place'[d] = place[d] /\ output'[d] = output[d]
    BY <1>t, <1>6 DEF Withhold
  <2>2. \A d \in Call : place'[d] = "finished" => place[d] = "finished"
    BY <1>t, <1>6 DEF Withhold
  <2>3. QED
    BY <1>0, <1>6, <2>1, <2>2, TokenMove DEF Withhold
<1>7. ASSUME NEW c \in Call, Finish(c) PROVE TokenInv'
  <2>1. /\ place[c] = "reviewed" /\ place'[c] = "finished"
        /\ \A d \in Call : d # c => place'[d] = place[d]
        /\ UNCHANGED output /\ c # Nobody
        /\ spent' = IF Charged(c) THEN spent + 1 ELSE spent
    BY <1>t, <1>7 DEF Finish
  <2>2. CASE ~(Charged(c) /\ spent' > TokenBudget)
    <3>1. Observed(c, Stashed(c))
      BY <1>7, <2>2 DEF Finish
    <3>2. Stashed(c) \in {c, Nobody} /\ (Stashed(c) = c <=> output[c] = "costly")
      BY <2>1 DEF Stashed
    <3>3. QED
      BY <1>0, <2>1, <3>1, <3>2, TokenRecord
  <2>3. CASE Charged(c) /\ spent' > TokenBudget
    <3>1. UNCHANGED records
      BY <1>7, <2>3 DEF Finish
    <3>2. QED
      BY <1>0, <2>1, <2>3, <3>1, TokenOver
  <2>4. QED
    BY <2>2, <2>3
<1>8. CASE UNCHANGED callVars
  BY <1>0, <1>t, <1>8, TokenMove DEF callVars
<1>9. QED
  BY <1>1, <1>2, <1>3, <1>4, <1>5, <1>6, <1>7, <1>8 DEF CallNext

\* Until the budget is exceeded, each record charges a call its own output's
\* input and output tokens or none, every output that reported them so is on
\* record, and the budget counts these and the legacy ones
\* (supervisor.py:694-719, 721-756, 1027-1045).
THEOREM TokensAreTheirs == CallSpec => []TokensAreAttributed
<1>1. TokenInv => TokensAreAttributed
  BY DEF TokenInv
<1>2. QED
  BY TokenInit, TokenStep, <1>1, PTL DEF CallSpec
=============================================================================
