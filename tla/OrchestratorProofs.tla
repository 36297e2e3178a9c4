------------------------- MODULE OrchestratorProofs -------------------------
(***************************************************************************)
(* The orchestrator proved for every set of layers, controls and notes and *)
(* every budget: a session makes one draft, a call is tried once, and the  *)
(* screen shows the draft at the generation the next call will name, as    *)
(* long as no answer is adopted in another session than asked for it.      *)
(***************************************************************************)
EXTENDS Orchestrator, SequenceTheorems, WellFoundedInduction, TLAPS

Wired == {"calling", "refreshing", "reading", "inverting"}

HistoryCapture == [session : Sessions, before : Seq(State), target : State]

\* The head of the queue is what the stage is about, and only it has a request.
StageMatchesHead ==
    /\ stage # "idle" => queue # <<>> /\ action \in Captures
    /\ stage \in {"calling", "refreshing"} => First.kind = "call"
    /\ stage \in {"reading", "inverting"} => First.kind = "history"
    /\ stage # "idle" /\ First.kind = "history" => action \in HistoryCapture
    /\ reply # None => request # None

\* Until the screen moves, the history still offers what the head captured.
CaptureHolds ==
    stage # "idle" /\ First.kind = "history" /\ action.session = setupGeneration
    => \/ /\ undo = action.before
          /\ CanMove(First.direction) /\ Peek(First.direction) = action.target
       \/ Len(undo) > Len(action.before)

\* Nothing belongs to a session still to come, and what belongs to the current
\* one finds it attached; a draft has a session and a generation.
SessionsInOrder ==
    /\ live # None => setupGeneration # 0
    /\ stage # "idle" => /\ action.session <= setupGeneration
                         /\ action.session = setupGeneration => live # None
    /\ \A c \in creates : /\ c.session <= setupGeneration
                          /\ c.session = setupGeneration => live # None
    /\ draftId # None => live # None /\ generation # None
    /\ agent = "attached" => draftId # None
    /\ told # None => agent = "attached" /\ told.id = draftId

\* No session has two creations in flight.
OneInFlight == \A c, d \in creates : c.session = d.session => c = d

\* A revision of a draft as the server keeps it.
Stored(d) ==
    /\ d.id \in 1..Len(store)
    /\ d.generation \in 1..Len(store[d.id])
    /\ d.body = store[d.id][d.generation]

\* Every draft somebody names is the server's, and every answer a revision of it.
DraftsStored ==
    /\ \A d \in 1..Len(store) : store[d] # <<>>
    /\ draftId # None => draftId \in 1..Len(store)
    /\ request # None => request.id \in 1..Len(store)
    /\ reply # None /\ reply.ok => Stored(reply.draft) /\ reply.draft.id = request.id
    /\ \A c \in creates : c.reply # None /\ c.reply.ok => Stored(c.reply.draft)
    /\ told # None => Stored(told)

IsCall(i) == queue[i].kind = "call"

\* Every call was given its own number, and is queued or deferred once.
CallsNumbered ==
    /\ used["call"] <= Budget["call"]
    /\ \A i \in 1..Len(queue) : IsCall(i) => queue[i].id \in 1..used["call"]
    /\ \A i \in 1..Len(deferred) : deferred[i].id \in 1..used["call"]
    /\ \A i, j \in 1..Len(queue) :
         IsCall(i) /\ IsCall(j) /\ queue[i].id = queue[j].id => i = j
    /\ \A i, j \in 1..Len(deferred) : deferred[i].id = deferred[j].id => i = j
    /\ \A i \in 1..Len(queue), j \in 1..Len(deferred) :
         IsCall(i) => queue[i].id # deferred[j].id

\* Only the head can have been sent; what waits behind it was never tried.
WaitingUntried ==
    /\ \A i \in 1..Len(queue) :
         IsCall(i) /\ (i # 1 \/ stage \notin {"calling", "refreshing"}) => tries[queue[i].id] = 0
    /\ \A i \in 1..Len(deferred) : tries[deferred[i].id] = 0
    /\ \A id \in DOMAIN tries : id > used["call"] => tries[id] = 0

IInv ==
    /\ TypeOK
    /\ StageMatchesHead
    /\ CaptureHolds
    /\ SessionsInOrder
    /\ OneCreation
    /\ OneInFlight
    /\ DraftsStored
    /\ CallsNumbered
    /\ WaitingUntried
    /\ TriedOnce

\* The request of the attached session is about its draft.
RequestOfSession == stage \in Wired /\ action.session = setupGeneration => draftId = request.id

ScreenInv == RequestOfSession /\ ScreenIsDraft

-----------------------------------------------------------------------------
(* Recursion over a sequence *)

\* The least-number principle: what holds at 0 and goes on holding holds.
LEMMA Least ==
    ASSUME NEW T, T \subseteq Nat, T # {}
    PROVE  \E x \in T : \A y \in T : x <= y
  <1> DEFINE R == OpToRel(<, Nat)
  <1>1. IsWellFoundedOn(R, Nat)
    BY NatLessThanWellFounded
  <1>2. R = {pair \in Nat \X Nat : pair[1] < pair[2]}
    BY DEF OpToRel
  <1> HIDE DEF R
  <1>3. PICK x \in T : \A y \in T : <<y, x>> \notin R
    BY <1>1, WFMin
  <1>4. \A y \in T : ~(y < x)
    BY <1>2, <1>3
  <1> QED
    BY <1>4

\* f starts at start and takes the steps up to N.
Follows(f, N, start, step) == f[0] = start /\ \A n \in 1..N : f[n] = step[n][f[n - 1]]

\* A function on 0..N is given by its start and its steps.
LEMMA Recursion ==
    ASSUME NEW N \in Nat, NEW S, NEW start \in S, NEW step \in [1..N -> [S -> S]]
    PROVE  \E f \in [0..N -> S] : Follows(f, N, start, step)
  <1> DEFINE Reaches(f, m) == f[0] = start /\ \A n \in 1..m : f[n] = step[n][f[n - 1]]
             Stuck == {m \in 0..N : ~ \E f \in [0..m -> S] : Reaches(f, m)}
  <1>1. Stuck = {}
    <2> SUFFICES ASSUME Stuck # {} PROVE FALSE
      OBVIOUS
    <2> DEFINE stuck == Stuck
    <2>0. stuck \subseteq Nat /\ stuck # {}
      OBVIOUS
    <2> HIDE DEF stuck
    <2>1. PICK m \in stuck : \A k \in stuck : m <= k
      BY <2>0, Least
    <2>2. m \in 0..N /\ ~ \E f \in [0..m -> S] : Reaches(f, m)
      BY DEF stuck
    <2>3. CASE m = 0
      <3> DEFINE f == [i \in 0..0 |-> start]
      <3>1. f \in [0..m -> S] /\ f[0] = start
        BY <2>3
      <3>2. Reaches(f, m)
        BY <2>3, <3>1
      <3> QED
        BY <2>2, <3>1, <3>2
    <2>4. CASE m # 0
      <3>0. m - 1 \in 0..N /\ ~(m <= m - 1)
        BY <2>2, <2>4
      <3>1. m - 1 \in 0..N /\ m - 1 \notin Stuck
        BY <2>1, <3>0 DEF stuck
      <3>2. PICK g \in [0..m - 1 -> S] : Reaches(g, m - 1)
        BY <3>1
      <3> DEFINE f == [i \in 0..m |-> IF i = m THEN step[m][g[m - 1]] ELSE g[i]]
      <3>3. m \in 1..N /\ g[m - 1] \in S /\ step[m][g[m - 1]] \in S
        BY <2>2, <2>4
      <3>4. f \in [0..m -> S]
        <4>1. \A i \in 0..m : i # m => i \in 0..m - 1
          BY <2>2
        <4> QED
          BY <3>3, <4>1
      <3>5. f[0] = start
        BY <2>2, <2>4, <3>2
      <3>6. ASSUME NEW n \in 1..m
            PROVE  f[n] = step[n][f[n - 1]]
        <4>1. n - 1 \in 0..m - 1 /\ n - 1 # m /\ n - 1 \in 0..m /\ n \in 0..m
          BY <2>2
        <4>2. f[n - 1] = g[n - 1]
          BY <4>1
        <4>3. CASE n = m
          BY <4>1, <4>2, <4>3
        <4>4. CASE n # m
          <5>1. n \in 1..m - 1
            BY <2>2, <4>4
          <5> QED
            BY <3>2, <4>1, <4>2, <4>4, <5>1
        <4> QED
          BY <4>3, <4>4
      <3> HIDE DEF f
      <3> QED
        BY <2>2, <3>4, <3>5, <3>6
    <2> QED
      BY <2>3, <2>4
  <1>2. N \in 0..N
    OBVIOUS
  <1> QED
    BY <1>1, <1>2 DEF Follows

\* What the filter's recursion computes, one element after the other.
LEMMA PickedSteps ==
    ASSUME NEW T, NEW calls \in Seq(T), NEW wanted
    PROVE  \E p \in [0..Len(calls) -> Seq(T)] :
             /\ Picked(calls, wanted) = p[Len(calls)]
             /\ p[0] = <<>>
             /\ \A n \in 1..Len(calls) :
                  p[n] = IF n \in wanted THEN Append(p[n - 1], calls[n]) ELSE p[n - 1]
  <1> DEFINE start == <<>>
             N == Len(calls)
             S == Seq(T)
             P(f) == f = [n \in 0..N |-> IF n = 0 THEN <<>>
                                         ELSE IF n \in wanted THEN Append(f[n - 1], calls[n])
                                         ELSE f[n - 1]]
             step == [n \in 1..N |-> [s \in Seq(T) |->
                        IF n \in wanted THEN Append(s, calls[n]) ELSE s]]
  <1>1. N \in Nat /\ start \in S /\ step \in [1..N -> [S -> S]]
    <2>1. N \in Nat /\ \A n \in 1..N : calls[n] \in T
      OBVIOUS
    <2> QED
      BY <2>1
  <1> HIDE DEF start, N, step, S
  <1>2. PICK f \in [0..N -> S] : Follows(f, N, start, step)
    BY <1>1, Recursion
  <1>3. \A n \in 1..N : f[n] = IF n \in wanted THEN Append(f[n - 1], calls[n]) ELSE f[n - 1]
    <2>1. \A n \in 1..N : n - 1 \in 0..N
      BY <1>1
    <2> QED
      BY <1>2, <2>1 DEF step, S, Follows
  <1>4. P(f)
    <2>1. \A n \in 0..N : n # 0 => n \in 1..N
      BY <1>1
    <2> QED
      BY <1>2, <1>3, <2>1 DEF start, Follows
  <1> DEFINE p == CHOOSE g : P(g)
  <1>5. Picked(calls, wanted) = p[N]
    BY DEF Picked, N
  <1>6. P(p)
    BY <1>4
  <1> HIDE DEF p
  <1>7. /\ DOMAIN p = 0..N /\ p = [n \in 0..N |-> p[n]] /\ p[0] = <<>>
        /\ \A n \in 1..N : p[n] = IF n \in wanted THEN Append(p[n - 1], calls[n]) ELSE p[n - 1]
    <2>1. 0 \in 0..N /\ \A n \in 1..N : n \in 0..N /\ n # 0
      BY <1>1
    <2> QED
      BY <1>6, <2>1
  <1>8. \A n \in 0..N : p[n] \in Seq(T)
    <2> DEFINE Untyped == {n \in 0..N : p[n] \notin Seq(T)}
    <2> SUFFICES ASSUME Untyped # {} PROVE FALSE
      OBVIOUS
    <2>1. Untyped \subseteq Nat
      OBVIOUS
    <2> HIDE DEF Untyped
    <2>2. PICK n \in Untyped : \A k \in Untyped : n <= k
      BY <2>1, Least
    <2>3. n \in 0..N /\ p[n] \notin Seq(T)
      BY DEF Untyped
    <2>4. n # 0
      <3>1. p[0] = <<>> /\ <<>> \in Seq(T)
        BY <1>7
      <3> QED
        BY <2>3, <3>1
    <2>5. n \in 1..N /\ n - 1 \in 0..N /\ ~(n <= n - 1)
      BY <1>1, <2>3, <2>4
    <2>6. p[n - 1] \in Seq(T) /\ calls[n] \in T
      BY <2>2, <2>5 DEF Untyped, N
    <2>7. Append(p[n - 1], calls[n]) \in Seq(T)
      BY <2>6
    <2>8. p[n] = Append(p[n - 1], calls[n]) \/ p[n] = p[n - 1]
      BY <1>7, <2>5
    <2> QED
      BY <2>3, <2>6, <2>7, <2>8
  <1>9. p \in [0..N -> Seq(T)]
    BY <1>7, <1>8
  <1> QED
    BY <1>5, <1>7, <1>9 DEF N

\* The elements of s stand at the positions at of calls, no two at the same.
Selects(s, calls, wanted, n, at) ==
    /\ at \in [1..Len(s) -> 1..n]
    /\ \A i \in 1..Len(s) : at[i] \in wanted /\ s[i] = calls[at[i]]
    /\ \A i, j \in 1..Len(s) : at[i] = at[j] => i = j

\* One more element of the sequence goes on the end, or is passed over.
LEMMA SelectsOneMore ==
    ASSUME NEW T, NEW calls \in Seq(T), NEW wanted, NEW n \in 1..Len(calls), NEW s \in Seq(T),
           NEW at, Selects(s, calls, wanted, n - 1, at)
    PROVE  /\ n \in wanted => \E b : Selects(Append(s, calls[n]), calls, wanted, n, b)
           /\ \E b : Selects(s, calls, wanted, n, b)
  <1>1. n \in Nat /\ n - 1 \in Nat /\ Len(s) \in Nat /\ \A i \in 1..n - 1 : i \in 1..n /\ i # n
    OBVIOUS
  <1>2. Selects(s, calls, wanted, n, at)
    BY <1>1 DEF Selects
  <1>3. ASSUME n \in wanted
        PROVE  \E b : Selects(Append(s, calls[n]), calls, wanted, n, b)
    <2> DEFINE L == Len(s)
               r == Append(s, calls[n])
               b == [i \in 1..L + 1 |-> IF i = L + 1 THEN n ELSE at[i]]
    <2>1. calls[n] \in T /\ r \in Seq(T) /\ Len(r) = L + 1 /\ r[L + 1] = calls[n]
          /\ \A i \in 1..L : r[i] = s[i]
      OBVIOUS
    <2>2. \A i \in 1..L + 1 : i = L + 1 \/ i \in 1..L
      BY <1>1
    <2>3. L + 1 \in 1..L + 1 /\ \A i \in 1..L : i \in 1..L + 1 /\ i # L + 1
      BY <1>1
    <2>4. b[L + 1] = n /\ \A i \in 1..L : b[i] = at[i]
      BY <2>3
    <2>5. b \in [1..L + 1 -> 1..n]
      BY <1>1, <2>2 DEF Selects
    <2> HIDE DEF b, L, r
    <2>6. \A i \in 1..L : at[i] # n /\ at[i] \in wanted /\ s[i] = calls[at[i]]
      BY <1>1 DEF Selects, L
    <2>7. \A i \in 1..L + 1 : b[i] \in wanted /\ r[i] = calls[b[i]]
      BY <1>3, <2>1, <2>2, <2>4, <2>6
    <2>8. \A i, j \in 1..L + 1 : b[i] = b[j] => i = j
      <3>1. \A i, j \in 1..L : at[i] = at[j] => i = j
        BY DEF Selects, L
      <3> QED
        BY <2>2, <2>4, <2>6, <3>1
    <2>9. Selects(r, calls, wanted, n, b)
      BY <2>1, <2>5, <2>7, <2>8 DEF Selects
    <2> QED
      BY <2>9 DEF r
  <1> QED
    BY <1>2, <1>3

\* A filter returns elements of the sequence, each from a wanted place of its own.
LEMMA PickedSelects ==
    ASSUME NEW T, NEW calls \in Seq(T), NEW wanted
    PROVE  /\ Picked(calls, wanted) \in Seq(T)
           /\ \E at : Selects(Picked(calls, wanted), calls, wanted, Len(calls), at)
  <1> DEFINE N == Len(calls)
  <1>1. PICK p \in [0..N -> Seq(T)] :
          /\ Picked(calls, wanted) = p[N]
          /\ p[0] = <<>>
          /\ \A n \in 1..N : p[n] = IF n \in wanted THEN Append(p[n - 1], calls[n]) ELSE p[n - 1]
    BY PickedSteps
  <1>2. N \in Nat /\ N \in 0..N
    OBVIOUS
  <1> HIDE DEF N
  <1> DEFINE Unselected == {n \in 0..N : ~ \E at : Selects(p[n], calls, wanted, n, at)}
  <1>3. Unselected = {}
    <2> SUFFICES ASSUME Unselected # {} PROVE FALSE
      OBVIOUS
    <2>1. Unselected \subseteq Nat
      OBVIOUS
    <2> HIDE DEF Unselected
    <2>2. PICK n \in Unselected : \A k \in Unselected : n <= k
      BY <2>1, Least
    <2>3. n \in 0..N /\ ~ \E at : Selects(p[n], calls, wanted, n, at)
      BY DEF Unselected
    <2>4. n # 0
      <3>1. ASSUME n = 0 PROVE FALSE
        <4>1. Len(p[n]) = 0
          BY <1>1, <3>1
        <4>2. Selects(p[n], calls, wanted, n, <<>>)
          <5>1. 1..Len(p[n]) = {} /\ <<>> \in [1..Len(p[n]) -> 1..n]
            BY <4>1
          <5> QED
            BY <5>1 DEF Selects
        <4> QED
          BY <2>3, <4>2
      <3> QED
        BY <3>1
    <2>5. n \in 1..N /\ n - 1 \in 0..N /\ ~(n <= n - 1)
      BY <1>2, <2>3, <2>4
    <2>6. PICK at : Selects(p[n - 1], calls, wanted, n - 1, at)
      BY <2>2, <2>5 DEF Unselected
    <2>7. p[n - 1] \in Seq(T)
      BY <1>1, <2>5
    <2>8. /\ n \in wanted => \E b : Selects(Append(p[n - 1], calls[n]), calls, wanted, n, b)
          /\ \E b : Selects(p[n - 1], calls, wanted, n, b)
      BY <2>5, <2>6, <2>7, SelectsOneMore DEF N
    <2>9. p[n] = IF n \in wanted THEN Append(p[n - 1], calls[n]) ELSE p[n - 1]
      BY <1>1, <2>5
    <2> QED
      BY <2>3, <2>8, <2>9
  <1>4. \E at : Selects(p[N], calls, wanted, N, at)
    BY <1>2, <1>3
  <1> QED
    BY <1>1, <1>2, <1>4 DEF N

\* The same for the revisions the reducer makes of the calls that waited.
LEMMA LandedGrows ==
    ASSUME NEW us \in Seq(State), us # <<>>, NEW calls \in Seq(Calls)
    PROVE  Landed(us, calls) \in Seq(State) /\ Landed(us, calls) # <<>>
  <1> DEFINE N == Len(calls)
             S == Seq(State) \ {<<>>}
             P(f) == f = [n \in 0..N |->
                            IF n = 0 THEN us
                            ELSE IF Valid(Last(f[n - 1]), calls[n].command)
                            THEN Append(f[n - 1], Applied(Last(f[n - 1]), calls[n].command))
                            ELSE f[n - 1]]
             step == [n \in 1..N |-> [s \in S |->
                        IF Valid(Last(s), calls[n].command)
                        THEN Append(s, Applied(Last(s), calls[n].command)) ELSE s]]
  <1>0. N \in Nat /\ \A n \in 1..N : calls[n].command \in Commands
    <2>1. N \in Nat /\ \A n \in 1..N : calls[n] \in Calls
      OBVIOUS
    <2> QED
      BY <2>1 DEF Calls
  <1>1. \A s \in S, c \in Commands : Append(s, Applied(Last(s), c)) \in S
    <2> SUFFICES ASSUME NEW s \in S, NEW c \in Commands PROVE Append(s, Applied(Last(s), c)) \in S
      OBVIOUS
    <2>1. Last(s) \in State
      BY DEF Last
    <2>2. Applied(Last(s), c) \in State
      BY <2>1 DEF Applied, State, Commands
    <2> QED
      BY <2>2
  <1>2. us \in S /\ step \in [1..N -> [S -> S]]
    BY <1>0, <1>1
  <1> HIDE DEF N, step, S
  <1>3. PICK f \in [0..N -> S] : Follows(f, N, us, step)
    BY <1>0, <1>2, Recursion
  <1>4. \A n \in 1..N : n - 1 \in 0..N /\ n \in 0..N /\ n # 0
    BY <1>0
  <1>5. \A n \in 1..N : f[n] = IF Valid(Last(f[n - 1]), calls[n].command)
                               THEN Append(f[n - 1], Applied(Last(f[n - 1]), calls[n].command))
                               ELSE f[n - 1]
    BY <1>3, <1>4 DEF step, Follows
  <1>6. P(f)
    <2>1. \A n \in 0..N : n # 0 => n \in 1..N
      BY <1>0
    <2> QED
      BY <1>3, <1>5, <2>1 DEF Follows
  <1> DEFINE p == CHOOSE g : P(g)
  <1>7. Landed(us, calls) = p[N]
    BY DEF Landed, N
  <1>8. P(p)
    BY <1>6
  <1> HIDE DEF p
  <1>9. p[0] = us /\ \A n \in 1..N : p[n] = IF Valid(Last(p[n - 1]), calls[n].command)
                               THEN Append(p[n - 1], Applied(Last(p[n - 1]), calls[n].command))
                               ELSE p[n - 1]
    <2>1. 0 \in 0..N
      BY <1>0
    <2> QED
      BY <1>4, <1>8, <2>1
  <1> DEFINE Untyped == {n \in 0..N : p[n] \notin S}
  <1>10. Untyped = {}
    <2> SUFFICES ASSUME Untyped # {} PROVE FALSE
      OBVIOUS
    <2>1. Untyped \subseteq Nat
      OBVIOUS
    <2> HIDE DEF Untyped
    <2>2. PICK n \in Untyped : \A k \in Untyped : n <= k
      BY <2>1, Least
    <2>3. n \in 0..N /\ p[n] \notin S
      BY DEF Untyped
    <2>4. n # 0
      BY <1>2, <1>9, <2>3
    <2>5. n \in 1..N /\ n - 1 \in 0..N /\ ~(n <= n - 1)
      BY <1>0, <2>3, <2>4
    <2>6. p[n - 1] \in S
      BY <2>2, <2>5 DEF Untyped
    <2>7. p[n] = Append(p[n - 1], Applied(Last(p[n - 1]), calls[n].command)) \/ p[n] = p[n - 1]
      BY <1>9, <2>5
    <2> QED
      BY <1>0, <1>1, <2>3, <2>5, <2>6, <2>7
  <1>11. p[N] \in S
    BY <1>0, <1>10
  <1> QED
    BY <1>7, <1>11 DEF S

-----------------------------------------------------------------------------
(* Compositions and the history *)

\* What the operators of a composition return.
LEMMA CompositionTypes ==
    /\ Empty \in State
    /\ \A s \in State : ToBody(s) \in Body
    /\ \A s \in State, c \in Commands : Applied(s, c) \in State
    /\ \A s \in State, b \in Body : FromBody(b, s) \in State
    /\ \A s \in State, n \in Notes : [s EXCEPT !.notes = @ \union {n}] \in State
  <1>1. Empty \in State
    BY DEF Empty, State
  <1>2. ASSUME NEW s \in State PROVE ToBody(s) \in Body
    <2> DEFINE ks == IF s.controls = {} THEN Unset ELSE s.controls
    <2>1. s.layers \in SUBSET Layers /\ s.controls \in SUBSET Controls
      BY DEF State
    <2>2. ks \in (SUBSET Controls) \union {Unset}
      <3>1. CASE s.controls = {}
        BY <3>1
      <3>2. CASE s.controls # {}
        BY <2>1, <3>2
      <3> QED
        BY <3>1, <3>2
    <2>3. ToBody(s) = [layers |-> s.layers, controls |-> ks]
      BY DEF ToBody
    <2> HIDE DEF ks
    <2> QED
      BY <2>1, <2>2, <2>3 DEF Body
  <1>3. \A s \in State, c \in Commands : Applied(s, c) \in State
    BY DEF Applied, State, Commands
  <1>4. ASSUME NEW s \in State, NEW b \in Body PROVE FromBody(b, s) \in State
    <2> DEFINE ks == IF b.controls = Unset THEN s.controls ELSE b.controls
    <2>1. /\ s.controls \in SUBSET Controls /\ b.layers \in SUBSET Layers
          /\ b.controls \in (SUBSET Controls) \union {Unset}
      BY DEF State, Body
    <2>2. ks \in SUBSET Controls
      <3>1. CASE b.controls = Unset
        BY <2>1, <3>1
      <3>2. CASE b.controls # Unset
        BY <2>1, <3>2
      <3> QED
        BY <3>1, <3>2
    <2>3. FromBody(b, s) = [s EXCEPT !.layers = b.layers, !.controls = ks]
      BY DEF FromBody
    <2> HIDE DEF ks
    <2> QED
      BY <2>1, <2>2, <2>3 DEF State
  <1>5. \A s \in State, n \in Notes : [s EXCEPT !.notes = @ \union {n}] \in State
    BY DEF State
  <1> QED
    BY <1>1, <1>2, <1>3, <1>4, <1>5

\* What a draft writes into a composition it reads back, and writes no more.
LEMMA ReadsBack ==
    ASSUME NEW s \in State, NEW t \in State, NEW b \in Body
    PROVE  /\ FromBody(b, FromBody(b, s)) = FromBody(b, s)
           /\ ToBody(s) = ToBody(t) => s.layers = t.layers /\ s.controls = t.controls
           /\ ToBody(FromBody(b, Empty)) = ToBody(t) => FromBody(b, t) = t
           /\ FromBody(b, s) = s /\ s.layers = t.layers /\ s.controls = t.controls
              => FromBody(b, t) = t
  <1>1. FromBody(b, FromBody(b, s)) = FromBody(b, s)
    BY DEF FromBody, State, Body
  <1>2. ToBody(s) = ToBody(t) => s.layers = t.layers /\ s.controls = t.controls
    BY UnsetAssumption DEF ToBody, State
  <1>3. ASSUME ToBody(FromBody(b, Empty)) = ToBody(t)
        PROVE  FromBody(b, t) = t
    <2> DEFINE e == FromBody(b, Empty)
    <2>1. e.layers = b.layers /\ e.controls = IF b.controls = Unset THEN {} ELSE b.controls
      BY DEF FromBody, Empty
    <2>2. e \in State
      BY CompositionTypes
    <2> HIDE DEF e
    <2>3. e.layers = t.layers /\ e.controls = t.controls
      BY <1>3, <2>2, UnsetAssumption DEF ToBody, State, e
    <2> QED
      BY <2>1, <2>3 DEF FromBody, State, Body
  <1>4. FromBody(b, s) = s /\ s.layers = t.layers /\ s.controls = t.controls => FromBody(b, t) = t
    BY DEF FromBody, State, Body
  <1> QED
    BY <1>1, <1>2, <1>3, <1>4

\* All of a sequence but its last element.
LEMMA FrontFacts ==
    ASSUME NEW S, NEW s \in Seq(S), s # <<>>
    PROVE  Front(s) \in Seq(S) /\ Len(Front(s)) = Len(s) - 1
  <1> DEFINE f == SubSeq(s, 1, Len(s) - 1)
  <1>1. Len(s) \in Nat \ {0} /\ Len(s) - 1 \in Int
    BY LenProperties, EmptySeq
  <1>2. f \in Seq(S) /\ Len(f) = IF 1 <= Len(s) - 1 THEN Len(s) - 1 ELSE 0
    BY <1>1, SubSeqProperties
  <1> HIDE DEF f
  <1>3. Len(f) = Len(s) - 1
    BY <1>1, <1>2
  <1> QED
    BY <1>2, <1>3 DEF Front, f

LEMMA LastType ==
    ASSUME NEW S, NEW s \in Seq(S), s # <<>>
    PROVE  Last(s) \in S
  BY DEF Last

HistoryType == undo \in Seq(State) /\ undo # <<>> /\ redo \in Seq(State)

\* The history and what it offers are made of states of the composition.
LEMMA HistoryElements ==
    ASSUME HistoryType
    PROVE  /\ Screen \in State
           /\ \A direction \in {"undo", "redo"} : CanMove(direction) => Peek(direction) \in State
  <1>1. Screen \in State
    BY LastType DEF HistoryType, Screen
  <1>2. ASSUME Len(undo) > 1 PROVE Last(Front(undo)) \in State
    <2>1. Front(undo) \in Seq(State) /\ Len(Front(undo)) = Len(undo) - 1
      BY FrontFacts DEF HistoryType
    <2>2. Front(undo) # <<>>
      BY <1>2, <2>1 DEF HistoryType
    <2> QED
      BY <2>1, <2>2, LastType
  <1>3. redo # <<>> => Last(redo) \in State
    BY LastType DEF HistoryType
  <1> QED
    BY <1>1, <1>2, <1>3 DEF CanMove, Peek

\* A new revision becomes the screen, and the history grows.
LEMMA PushEffect ==
    ASSUME HistoryType, NEW s \in State, Push(s)
    PROVE  HistoryType' /\ Screen' = s /\ Len(undo') = Len(undo) + 1
  BY DEF HistoryType, Push, Screen, Last

\* The composition the cursor moves to becomes the screen.
LEMMA MoveEffect ==
    ASSUME HistoryType, NEW direction \in {"undo", "redo"}, CanMove(direction), Move(direction)
    PROVE  HistoryType' /\ Screen' = Peek(direction)
  <1>1. CASE direction = "undo"
    <2>1. Len(undo) > 1 /\ undo' = Front(undo) /\ redo' = Append(redo, Screen)
      BY <1>1 DEF CanMove, Move
    <2>4. Front(undo) \in Seq(State) /\ Len(Front(undo)) = Len(undo) - 1
      BY FrontFacts DEF HistoryType
    <2>5. Screen \in State
      BY HistoryElements
    <2>6. undo' \in Seq(State) /\ undo' # <<>> /\ redo' \in Seq(State)
      BY <2>1, <2>4, <2>5 DEF HistoryType
    <2> QED
      BY <1>1, <2>1, <2>6 DEF HistoryType, Screen, Peek
  <1>2. CASE direction # "undo"
    <2>1. redo # <<>> /\ undo' = Append(undo, Last(redo)) /\ redo' = Front(redo)
      BY <1>2 DEF CanMove, Move
    <2>2. Last(redo) \in State
      BY <2>1, LastType DEF HistoryType
    <2>3. Front(redo) \in Seq(State)
      BY <2>1, FrontFacts DEF HistoryType
    <2>4. undo' \in Seq(State) /\ undo' # <<>> /\ Last(undo') = Last(redo)
      BY <2>1, <2>2 DEF HistoryType, Last
    <2> QED
      BY <1>2, <2>1, <2>3, <2>4 DEF HistoryType, Screen, Peek
  <1> QED
    BY <1>1, <1>2

\* The screen shows the body; the revision is kept where nothing differs.
LEMMA ShowEffect ==
    ASSUME HistoryType, NEW b \in Body, Show(b)
    PROVE  /\ HistoryType'
           /\ FromBody(b, Screen') = Screen'
           /\ UNCHANGED historyVars \/ Len(undo') = Len(undo) + 1
  <1>1. Screen \in State /\ FromBody(b, Screen) \in State
    BY HistoryElements, CompositionTypes
  <1>2. CASE FromBody(b, Screen) = Screen
    BY <1>2 DEF Show, historyVars, HistoryType, Screen
  <1>3. CASE FromBody(b, Screen) # Screen
    <2>1. Push(FromBody(b, Screen))
      BY <1>3 DEF Show
    <2>2. HistoryType' /\ Screen' = FromBody(b, Screen) /\ Len(undo') = Len(undo) + 1
      BY <1>1, <2>1, PushEffect
    <2> QED
      BY <1>1, <2>2, ReadsBack
  <1> QED
    BY <1>2, <1>3

-----------------------------------------------------------------------------
(* What a step does to the history, the queue, the creations and the store *)

LEMMA InvType ==
    ASSUME TypeOK
    PROVE  HistoryType
  BY DEF TypeOK, HistoryType

\* The elements of the queue and of the deferred calls.
LEMMA TaskFacts ==
    /\ \A t \in Tasks : t.kind = "call" => t \in Calls
    /\ \A t \in Tasks : t.kind # "call" => t.kind = "history" /\ t.direction \in {"undo", "redo"}
    /\ \A t \in Calls : t \in Tasks /\ t.kind = "call" /\ t.id \in Nat /\ t.command \in Commands
    /\ \A c \in Commands, i \in Nat : Call(i, c) \in Calls
    /\ \A d \in {"undo", "redo"} : History(d) \in Tasks
  BY DEF Tasks, Calls, Call, History

\* A waiting answer is an answer, and a request a request.
LEMMA ReplyFacts ==
    /\ \A r \in Replies : r.ok => r.draft \in Draft
    /\ \A d \in Draft : d.id \in Nat /\ d.generation \in Nat /\ d.body \in Body
    /\ \A d \in Draft : [ok |-> TRUE, draft |-> d] \in Replies
    /\ \A b \in BOOLEAN : Refusal(b) \in Replies /\ ~Refusal(b).ok
  BY DEF Replies, Draft, Refusal

\* One of the four things a step does to the history.
HistoryMoves ==
    \/ UNCHANGED historyVars
    \/ \E s \in State : Push(s)
    \/ /\ queue # <<>> /\ First.kind = "history" /\ CanMove(First.direction)
       /\ Move(First.direction) /\ Leave
    \/ /\ undo' = Landed(undo, deferred) /\ redo' \in {redo, <<>>}
       /\ live' = None /\ setupGeneration' = setupGeneration + 1

LEMMA ShowMoves ==
    ASSUME TypeOK, NEW b \in Body, Show(b)
    PROVE  HistoryMoves
  <1>1. FromBody(b, Screen) \in State
    BY InvType, HistoryElements, CompositionTypes
  <1> QED
    BY <1>1 DEF Show, HistoryMoves

LEMMA HeadFacts ==
    ASSUME IInv, queue # <<>>
    PROVE  /\ First \in Tasks /\ First = queue[1] /\ 1 \in 1..Len(queue)
           /\ Tail(queue) \in Seq(Tasks) /\ Len(Tail(queue)) = Len(queue) - 1
           /\ \A i \in 1..Len(Tail(queue)) : i + 1 \in 1..Len(queue) /\ Tail(queue)[i] = queue[i + 1]
  BY DEF IInv, TypeOK, First

\* A capture of the head's history action is what the cursor would move to.
LEMMA CaptureFacts ==
    ASSUME IInv, stage \in {"reading", "inverting"}, action.session = setupGeneration,
           undo = action.before
    PROVE  CanMove(First.direction) /\ Peek(First.direction) = action.target
  <1>1. First.kind = "history" /\ action \in HistoryCapture
    BY DEF IInv, StageMatchesHead
  <1>2. Len(undo) \in Nat /\ ~(Len(undo) > Len(action.before))
    BY DEF IInv, TypeOK
  <1> QED
    BY <1>1, <1>2 DEF IInv, CaptureHolds

\* A step leaves the history and its captured move alone, or moves it as follows.
LEMMA NextMovesHistory ==
    ASSUME IInv, Next
    PROVE  HistoryMoves
  <1> USE DEF IInv
  <1>0. TypeOK /\ HistoryType /\ Screen \in State
    BY InvType, HistoryElements
  <1>1. ASSUME NEW c \in Commands, ApplyLocal(c) PROVE HistoryMoves
    BY <1>0, <1>1, CompositionTypes DEF ApplyLocal, HistoryMoves
  <1>2. ASSUME NEW n \in Notes, Annotate(n) PROVE HistoryMoves
    BY <1>0, <1>2, CompositionTypes DEF Annotate, HistoryMoves
  <1>3. CASE FinishCall \/ FinishRefresh
    <2>1. reply.draft.body \in Body /\ Show(reply.draft.body)
      BY <1>0, <1>3, ReplyFacts DEF FinishCall, FinishRefresh, Answered, Adopt, TypeOK
    <2> QED
      BY <1>0, <2>1, ShowMoves
  <1>4. CASE MoveLocally
    <2>1. queue # <<>> /\ First.kind = "history"
      BY <1>4 DEF MoveLocally, IdleHistory, Idle
    <2> QED
      BY <1>4, <2>1 DEF MoveLocally, HistoryMoves
  <1>5. CASE MoveUnseen
    <2>1. queue # <<>> /\ First.kind = "history"
      BY <1>5 DEF MoveUnseen, StageMatchesHead
    <2>2. CanMove(First.direction)
      BY <1>5, CaptureFacts DEF MoveUnseen, Undisturbed
    <2> QED
      BY <1>5, <2>1, <2>2 DEF MoveUnseen, HistoryMoves
  <1>6. CASE FinishHistory
    <2>1. queue # <<>> /\ First.kind = "history"
      BY <1>6 DEF FinishHistory, StageMatchesHead
    <2>2. CASE undo = action.before /\ ToBody(FromBody(reply.draft.body, Empty)) = ToBody(action.target)
      <3>1. CanMove(First.direction)
        BY <1>6, <2>2, CaptureFacts DEF FinishHistory
      <3> QED
        BY <1>6, <2>1, <2>2, <3>1 DEF FinishHistory, HistoryMoves
    <2>3. CASE ~(undo = action.before
                 /\ ToBody(FromBody(reply.draft.body, Empty)) = ToBody(action.target))
      <3>1. reply.draft.body \in Body /\ Show(reply.draft.body)
        BY <1>0, <1>6, <2>3, ReplyFacts DEF FinishHistory, Answered, TypeOK
      <3> QED
        BY <1>0, <3>1, ShowMoves
    <2> QED
      BY <2>2, <2>3
  <1>7. ASSUME NEW c \in creates, CreateAdopted(c) PROVE HistoryMoves
    <2>1. c.reply.draft.body \in Body /\ Show(c.reply.draft.body)
      BY <1>0, <1>7, ReplyFacts DEF CreateAdopted, TypeOK, Creations
    <2> QED
      BY <1>0, <2>1, ShowMoves
  <1>8. CASE AcceptServerDraft
    <2>1. told.body \in Body /\ Show(told.body)
      BY <1>0, <1>8, ReplyFacts DEF AcceptServerDraft, TypeOK
    <2> QED
      BY <1>0, <2>1, ShowMoves
  <1>9. CASE Disable \/ AgentSetupFails
    <2>1. DetachLiveSession
      BY <1>9 DEF Disable, AgentSetupFails
    <2> QED
      BY <2>1 DEF DetachLiveSession, HistoryMoves
  <1>10. ASSUME NEW c \in Commands, QueueCall(c) PROVE HistoryMoves
    BY <1>10 DEF QueueCall, HistoryMoves
  <1>11. ASSUME NEW d \in {"undo", "redo"}, QueueHistory(d) PROVE HistoryMoves
    BY <1>11 DEF QueueHistory, HistoryMoves
  <1>12. ASSUME NEW c \in creates, CreateRejected(c) \/ ServerCreates(c) \/ LoseCreation(c)
         PROVE  HistoryMoves
    BY <1>12 DEF CreateRejected, ServerCreates, LoseCreation, HistoryMoves
  <1>13. ASSUME NEW l \in Layers, AgentAdds(l) \/ \E d \in 1..Len(store) : OtherAdds(d, l)
         PROVE  HistoryMoves
    BY <1>13 DEF AgentAdds, OtherAdds, HistoryMoves
  <1>14. CASE AttachLiveSession \/ RejectCall \/ StartCall \/ ConflictCall \/ FailCall
    BY <1>14 DEF AttachLiveSession, RejectCall, StartCall, ConflictCall, FailCall, HistoryMoves
  <1>15. CASE StartHistory \/ SendInverse \/ AbandonHistory
    BY <1>15 DEF StartHistory, SendInverse, AbandonHistory, HistoryMoves
  <1>16. CASE ServerReads \/ ServerRuns \/ LoseMessage
    BY <1>16 DEF ServerReads, ServerRuns, LoseMessage, HistoryMoves
  <1> QED
    BY <1>1, <1>2, <1>3, <1>4, <1>5, <1>6, <1>7, <1>8, <1>9, <1>10, <1>11, <1>12, <1>13, <1>14,
       <1>15, <1>16 DEF Next, Use, Run, Respond, Others

\* So the history keeps its type.
LEMMA HistoryKeeps ==
    ASSUME IInv, HistoryMoves
    PROVE  HistoryType'
  <1>0. TypeOK /\ HistoryType
    BY InvType DEF IInv
  <1>1. CASE UNCHANGED historyVars
    BY <1>0, <1>1 DEF HistoryType, historyVars
  <1>2. ASSUME NEW s \in State, Push(s) PROVE HistoryType'
    BY <1>0, <1>2, PushEffect
  <1>3. CASE /\ queue # <<>> /\ First.kind = "history" /\ CanMove(First.direction)
             /\ Move(First.direction) /\ Leave
    <2>1. First.direction \in {"undo", "redo"}
      BY <1>3, HeadFacts, TaskFacts
    <2> QED
      BY <1>0, <1>3, <2>1, MoveEffect
  <1>4. CASE undo' = Landed(undo, deferred) /\ redo' \in {redo, <<>>}
    <2>1. undo' \in Seq(State) /\ undo' # <<>>
      BY <1>0, <1>4, LandedGrows DEF TypeOK
    <2>2. redo' \in Seq(State)
      <3>1. <<>> \in Seq(State)
        OBVIOUS
      <3> QED
        BY <1>0, <1>4, <3>1 DEF HistoryType
    <2> QED
      BY <2>1, <2>2 DEF HistoryType
  <1> QED
    BY <1>1, <1>2, <1>3, <1>4 DEF HistoryMoves

-----------------------------------------------------------------------------
(* Types *)

\* The messages on the wire.
LEMMA MessageFacts ==
    /\ \A t \in Calls, d, g \in Nat : ToolCall(t, d, g) \in Requests
    /\ \A d \in Nat : GetDraft(d) \in Requests
    /\ \A c \in Commands, d, g \in Nat :
         [op |-> "tool", id |-> d, generation |-> g, command |-> c] \in Requests
    /\ \A r \in Requests : r # None /\ r.id \in Nat
    /\ \A r \in Requests : r.op = "tool" => r.generation \in Nat /\ r.command \in Commands
    /\ \A r \in Replies : r # None
    /\ \A n \in Nat : n # None
    /\ \A d \in Draft : d # None
  BY NoneAssumption DEF Requests, ToolCall, GetDraft, Calls

\* What a head captured when its work began.
LEMMA CaptureTypes ==
    /\ \A g \in Sessions : [session |-> g] \in Captures
    /\ \A c \in HistoryCapture : c \in Captures /\ c.before \in Seq(State) /\ c.target \in State
    /\ \A c \in Captures : c.session \in Sessions
    /\ \A g \in Sessions, b \in Seq(State), t \in State :
         [session |-> g, before |-> b, target |-> t] \in HistoryCapture
  BY DEF Captures, HistoryCapture

LEMMA CreationFacts ==
    /\ \A g \in Sessions, s \in State : Creation(g, s) \in Creations
    /\ \A c \in Creations : c.session \in Sessions /\ c.body \in Body
    /\ \A c \in Creations : c.reply # None => c.reply \in Replies
    /\ \A c \in Creations, r \in Replies : [c EXCEPT !.reply = r] \in Creations
  BY CompositionTypes DEF Creation, Creations

\* A revision the server stores.
LEMMA ServerTypes ==
    ASSUME IInv
    PROVE  /\ \A b \in Body, c \in Commands : ServerApplied(b, c) \in Body
           /\ \A b \in Body, l \in Layers : WithLayer(b, l) \in Body
           /\ \A d \in 1..Len(store) : /\ store[d] \in Seq(Body) /\ Len(store[d]) \in Nat
                                       /\ Last(store[d]) \in Body /\ Read(d) \in Draft
  <1>1. ASSUME NEW b \in Body, NEW c \in Commands PROVE ServerApplied(b, c) \in Body
    <2> DEFINE s == Applied(FromBody(b, Empty), c)
               ks == IF c.op \in {"addControl", "removeControl"} THEN s.controls ELSE b.controls
    <2>1. s \in State
      BY CompositionTypes
    <2>2. ServerApplied(b, c) = [layers |-> s.layers, controls |-> ks]
      BY DEF ServerApplied
    <2> HIDE DEF s
    <2>3. /\ s.layers \in SUBSET Layers /\ s.controls \in SUBSET Controls
          /\ b.controls \in (SUBSET Controls) \union {Unset}
      BY <2>1 DEF State, Body
    <2>4. ks \in (SUBSET Controls) \union {Unset}
      BY <2>3
    <2> HIDE DEF ks
    <2> QED
      BY <2>2, <2>3, <2>4 DEF Body
  <1>2. \A b \in Body, l \in Layers : WithLayer(b, l) \in Body
    BY DEF Body, WithLayer
  <1>3. ASSUME NEW d \in 1..Len(store)
        PROVE  /\ store[d] \in Seq(Body) /\ Len(store[d]) \in Nat
               /\ Last(store[d]) \in Body /\ Read(d) \in Draft
    <2>1. store[d] \in Seq(Body) /\ store[d] # <<>> /\ d \in Nat
      BY DEF IInv, TypeOK, DraftsStored
    <2>2. Len(store[d]) \in Nat /\ Last(store[d]) \in Body
      BY <2>1, LastType
    <2> QED
      BY <2>1, <2>2 DEF Read, Draft
  <1> QED
    BY <1>1, <1>2, <1>3

SessionType ==
    /\ live \in {None, setupGeneration} /\ setupGeneration \in Nat
    /\ setup \in {None, live} /\ creates \subseteq Creations
    /\ draftId \in Nat \union {None} /\ generation \in Nat \union {None}

\* An attached session has a number of its own.
LEMMA AttachedFacts ==
    ASSUME IInv, live # None
    PROVE  live = setupGeneration /\ setupGeneration \in Sessions
  BY DEF IInv, TypeOK, SessionsInOrder, Sessions

\* #ensureDraft: the session has a creation in flight, this one or its own.
LEMMA EnsureEffect ==
    ASSUME IInv, live # None, EnsureDraft, UNCHANGED <<sessionVars, draftVars>>
    PROVE  SessionType'
  <1>1. Screen \in State
    BY InvType, HistoryElements DEF IInv
  <1>2. Creation(live, Screen) \in Creations
    BY <1>1, AttachedFacts, CreationFacts
  <1>3. creates \union {Creation(live, Screen)} \subseteq Creations
    BY <1>2 DEF IInv, TypeOK
  <1> QED
    BY <1>3 DEF EnsureDraft, SessionType, IInv, TypeOK, sessionVars, draftVars, creationVars

\* The session, its draft, its creations and its agent keep their types.
LEMMA SessionKeeps ==
    ASSUME IInv, Next
    PROVE  SessionType'
  <1> USE DEF IInv
  <1>0. TypeOK /\ SessionType /\ Screen \in State
    BY InvType, HistoryElements DEF TypeOK, SessionType
  <1>1. ASSUME UNCHANGED <<sessionVars, draftVars, creationVars>> PROVE SessionType'
    BY <1>0, <1>1 DEF SessionType, sessionVars, draftVars, creationVars
  <1>2. CASE StartCall
    <2>1. live # None /\ UNCHANGED <<sessionVars, draftVars>>
      BY <1>2 DEF StartCall
    <2>2. UNCHANGED creationVars \/ EnsureDraft
      BY <1>2 DEF StartCall
    <2> QED
      BY <1>1, <2>1, <2>2, EnsureEffect
  <1>3. CASE StartHistory
    <2>1. live # None /\ UNCHANGED <<sessionVars, draftVars>>
      BY <1>3 DEF StartHistory
    <2>2. UNCHANGED creationVars \/ EnsureDraft
      BY <1>3 DEF StartHistory
    <2> QED
      BY <1>1, <2>1, <2>2, EnsureEffect
  <1>4. CASE FinishCall \/ FinishRefresh \/ FinishHistory
    <2>1. generation' = reply.draft.generation /\ UNCHANGED <<sessionVars, draftId, creationVars>>
      BY <1>4 DEF FinishCall, FinishRefresh, FinishHistory, Adopt
    <2>2. reply.draft.generation \in Nat
      BY <1>0, <1>4, ReplyFacts DEF FinishCall, FinishRefresh, FinishHistory, Answered, TypeOK
    <2> QED
      BY <1>0, <2>1, <2>2 DEF SessionType, sessionVars, creationVars
  <1>5. ASSUME NEW c \in creates, CreateAdopted(c) PROVE SessionType'
    <2>1. c.reply.draft.id \in Nat /\ c.reply.draft.generation \in Nat
      BY <1>0, <1>5, ReplyFacts DEF CreateAdopted, TypeOK, Creations
    <2> QED
      BY <1>0, <1>5, <2>1 DEF CreateAdopted, SessionType, sessionVars
  <1>6. ASSUME NEW c \in creates, CreateRejected(c) PROVE SessionType'
    BY <1>0, <1>6 DEF CreateRejected, SessionType, sessionVars, draftVars
  <1>7. CASE AttachLiveSession
    <2>1. setupGeneration' \in Sessions /\ live' = setupGeneration'
      BY <1>0, <1>7 DEF AttachLiveSession, SessionType, Sessions
    <2>2. Creation(live', Screen) \in Creations
      BY <1>0, <2>1, CreationFacts
    <2> HIDE DEF IInv
    <2> QED
      BY <1>0, <1>7, <2>1, <2>2 DEF AttachLiveSession, SessionType, Sessions
  <1>8. CASE Disable \/ AgentSetupFails
    <2>1. DetachLiveSession
      BY <1>8 DEF Disable, AgentSetupFails
    <2> QED
      BY <1>0, <2>1 DEF DetachLiveSession, SessionType
  <1>9. CASE AcceptServerDraft
    <2>1. told.id \in Nat /\ told.generation \in Nat
      BY <1>0, <1>9, ReplyFacts DEF AcceptServerDraft, TypeOK
    <2> QED
      BY <1>0, <1>9, <2>1 DEF AcceptServerDraft, SessionType, sessionVars, creationVars
  <1>10. ASSUME NEW c \in creates, ServerCreates(c) PROVE SessionType'
    <2> DEFINE d == [id |-> Len(store) + 1, generation |-> 1, body |-> c.body]
    <2>1. c \in Creations /\ Len(store) + 1 \in Nat
      BY <1>0 DEF TypeOK
    <2>2. d \in Draft
      BY <2>1, CreationFacts DEF Draft
    <2>3. creates' = (creates \ {c}) \union {[c EXCEPT !.reply = [ok |-> TRUE, draft |-> d]]}
      BY <1>10 DEF ServerCreates
    <2> HIDE DEF d
    <2>4. [c EXCEPT !.reply = [ok |-> TRUE, draft |-> d]] \in Creations
      BY <2>1, <2>2, ReplyFacts, CreationFacts
    <2>5. UNCHANGED <<sessionVars, draftVars, setup>>
      BY <1>10 DEF ServerCreates
    <2> QED
      BY <1>0, <2>3, <2>4, <2>5 DEF SessionType, sessionVars, draftVars
  <1>11. ASSUME NEW c \in creates, LoseCreation(c) PROVE SessionType'
    <2>1. [c EXCEPT !.reply = Refusal(FALSE)] \in Creations
      BY <1>0, ReplyFacts, CreationFacts DEF TypeOK
    <2> QED
      BY <1>0, <1>11, <2>1 DEF LoseCreation, SessionType, sessionVars, draftVars
  <1>12. ASSUME NEW c \in Commands, QueueCall(c) \/ ApplyLocal(c) PROVE SessionType'
    BY <1>1, <1>12 DEF QueueCall, ApplyLocal
  <1>13. ASSUME NEW n \in Notes, Annotate(n) PROVE SessionType'
    BY <1>1, <1>13 DEF Annotate
  <1>14. ASSUME NEW d \in {"undo", "redo"}, QueueHistory(d) PROVE SessionType'
    BY <1>1, <1>14 DEF QueueHistory
  <1>15. ASSUME NEW l \in Layers, AgentAdds(l) \/ \E d \in 1..Len(store) : OtherAdds(d, l)
         PROVE  SessionType'
    BY <1>1, <1>15 DEF AgentAdds, OtherAdds
  <1>16. CASE RejectCall \/ ConflictCall \/ FailCall \/ MoveLocally \/ MoveUnseen
    BY <1>1, <1>16 DEF RejectCall, ConflictCall, FailCall, MoveLocally, MoveUnseen
  <1>17. CASE SendInverse \/ AbandonHistory \/ ServerReads \/ ServerRuns \/ LoseMessage
    BY <1>1, <1>17 DEF SendInverse, AbandonHistory, ServerReads, ServerRuns, LoseMessage
  <1> HIDE DEF IInv
  <1> QED
    BY <1>2, <1>3, <1>4, <1>5, <1>6, <1>7, <1>8, <1>9, <1>10, <1>11, <1>12, <1>13, <1>14, <1>15,
       <1>16, <1>17 DEF Next, Use, Run, Respond, Others

QueueType ==
    /\ queue \in Seq(Tasks)
    /\ stage \in {"idle", "creating", "calling", "refreshing", "reading", "inverting"}
    /\ action \in Captures \union {None}
    /\ deferred \in Seq(Calls)
    /\ request \in Requests \union {None} /\ reply \in Replies \union {None}
    /\ request # None <=> stage \in Wired

HeadInv == QueueType /\ StageMatchesHead

LEMMA HeadHolds ==
    ASSUME IInv
    PROVE  HeadInv
  BY DEF IInv, TypeOK, QueueType, HeadInv, Wired

\* Nothing awaits: the next task may start.
LEMMA IdleKeeps ==
    ASSUME queue' \in Seq(Tasks), deferred' \in Seq(Calls), stage' = "idle", action' = None,
           request' = None, reply' = None
    PROVE  HeadInv'
  BY DEF HeadInv, QueueType, StageMatchesHead, Wired

LEMMA LeaveKeeps ==
    ASSUME IInv, queue # <<>>, Leave, deferred' = deferred,
           Hangup \/ (UNCHANGED wireVars /\ stage \notin Wired)
    PROVE  HeadInv'
  <1>1. queue' \in Seq(Tasks)
    BY HeadFacts DEF Leave
  <1>2. request' = None /\ reply' = None
    BY HeadHolds DEF HeadInv, QueueType, StageMatchesHead, Hangup, wireVars
  <1>3. deferred' \in Seq(Calls)
    BY DEF IInv, TypeOK
  <1> QED
    BY <1>1, <1>2, <1>3, IdleKeeps DEF Leave

\* The head sends a request and awaits its answer.
LEMMA SendKeeps ==
    ASSUME IInv, queue # <<>>, NEW s \in Wired, NEW a \in Captures, NEW r \in Requests,
           Await(s, a), Send(r), deferred' = deferred,
           IF s \in {"calling", "refreshing"} THEN First.kind = "call"
           ELSE First.kind = "history" /\ a \in HistoryCapture
    PROVE  HeadInv'
  <1>1. queue' = queue /\ stage' = s /\ action' = a /\ request' = r /\ reply' = None
        /\ First' = First
    BY DEF Await, Send, First
  <1>2. r # None
    BY MessageFacts
  <1>3. QueueType'
    BY <1>1, <1>2, HeadHolds DEF HeadInv, QueueType, Wired
  <1>4. StageMatchesHead'
    BY <1>1, <1>2 DEF StageMatchesHead, Wired
  <1> QED
    BY <1>3, <1>4 DEF HeadInv

\* The head awaits the creation it shares.
LEMMA WaitKeeps ==
    ASSUME IInv, queue # <<>>, stage = "idle", NEW a \in Captures,
           Await("creating", a), UNCHANGED wireVars, deferred' = deferred,
           First.kind = "history" => a \in HistoryCapture
    PROVE  HeadInv'
  <1>1. queue' = queue /\ stage' = "creating" /\ action' = a /\ request' = request /\ reply' = reply
        /\ First' = First
    BY DEF Await, First, wireVars
  <1>2. QueueType'
    BY <1>1, HeadHolds DEF HeadInv, QueueType, Wired
  <1>3. StageMatchesHead'
    BY <1>1, HeadHolds DEF HeadInv, StageMatchesHead
  <1> QED
    BY <1>2, <1>3 DEF HeadInv

\* A task joins the queue, or only the answer changes.
LEMMA EnqueueKeeps ==
    ASSUME IInv, NEW t \in Tasks, queue' = Append(queue, t) \/ queue' = queue,
           UNCHANGED <<stage, action, request>>, deferred' \in Seq(Calls),
           reply' = reply \/ (request # None /\ reply' \in Replies)
    PROVE  HeadInv' /\ (queue # <<>> => First' = First)
  <1>1. queue \in Seq(Tasks) /\ QueueType /\ StageMatchesHead
    BY HeadHolds DEF HeadInv, QueueType
  <1>2. queue' \in Seq(Tasks)
    BY <1>1
  <1>3. queue # <<>> => queue' # <<>> /\ First' = First
    BY <1>1 DEF First
  <1>4. QueueType'
    BY <1>1, <1>2 DEF QueueType, Wired
  <1>5. StageMatchesHead'
    BY <1>1, <1>3 DEF StageMatchesHead
  <1> QED
    BY <1>3, <1>4, <1>5 DEF HeadInv

\* No two calls have the same number.
Distinct(calls) == \A i, j \in 1..Len(calls) : calls[i].id = calls[j].id => i = j

\* The controls whose layer is there and those that go on waiting are two parts
\* of the ones that waited.
LEMMA SplitFacts ==
    ASSUME NEW calls \in Seq(Calls), NEW s
    PROVE  /\ Ready(calls, s) \in Seq(Calls) /\ Waiting(calls, s) \in Seq(Calls)
           /\ \A i \in 1..Len(Ready(calls, s)) :
                \E k \in 1..Len(calls) : Ready(calls, s)[i] = calls[k]
           /\ \A i \in 1..Len(Waiting(calls, s)) :
                \E k \in 1..Len(calls) : Waiting(calls, s)[i] = calls[k]
           /\ Distinct(calls)
              => /\ Distinct(Ready(calls, s)) /\ Distinct(Waiting(calls, s))
                 /\ \A i \in 1..Len(Ready(calls, s)), j \in 1..Len(Waiting(calls, s)) :
                      Ready(calls, s)[i].id # Waiting(calls, s)[j].id
  <1> DEFINE N == Len(calls)
             W == Resolving(calls, s)
             V == 1..Len(calls) \ Resolving(calls, s)
             r == Ready(calls, s)
             w == Waiting(calls, s)
  <1>1. r \in Seq(Calls) /\ \E at : Selects(r, calls, W, N, at)
    BY PickedSelects DEF Ready
  <1>2. w \in Seq(Calls) /\ \E at : Selects(w, calls, V, N, at)
    BY PickedSelects DEF Waiting
  <1>3. \A k \in V : k \notin W
    OBVIOUS
  <1> HIDE DEF N, W, V, r, w
  <1>4. PICK a : Selects(r, calls, W, N, a)
    BY <1>1
  <1>5. PICK b : Selects(w, calls, V, N, b)
    BY <1>2
  <1>6. /\ \A i \in 1..Len(r) : a[i] \in 1..N /\ a[i] \in W /\ r[i] = calls[a[i]]
        /\ \A i, j \in 1..Len(r) : a[i] = a[j] => i = j
    BY <1>4 DEF Selects
  <1>7. /\ \A i \in 1..Len(w) : b[i] \in 1..N /\ b[i] \in V /\ w[i] = calls[b[i]]
        /\ \A i, j \in 1..Len(w) : b[i] = b[j] => i = j
    BY <1>5 DEF Selects
  <1>8. ASSUME Distinct(calls)
        PROVE  /\ Distinct(r) /\ Distinct(w)
               /\ \A i \in 1..Len(r), j \in 1..Len(w) : r[i].id # w[j].id
    <2>0. \A k, m \in 1..N : calls[k].id = calls[m].id => k = m
      BY <1>8 DEF Distinct, N
    <2>1. Distinct(r)
      BY <1>6, <2>0, SMTT(30) DEF Distinct
    <2>2. Distinct(w)
      BY <1>7, <2>0, SMTT(30) DEF Distinct
    <2>3. ASSUME NEW i \in 1..Len(r), NEW j \in 1..Len(w), r[i].id = w[j].id PROVE FALSE
      <3>1. a[i] = b[j]
        BY <1>6, <1>7, <2>0, <2>3
      <3> QED
        BY <1>3, <1>6, <1>7, <3>1
    <2> QED
      BY <2>1, <2>2, <2>3
  <1> QED
    BY <1>1, <1>2, <1>6, <1>7, <1>8 DEF r, w, N

\* The queue, its head and the stage agree after every step.
LEMMA HeadKeeps ==
    ASSUME IInv, Next
    PROVE  HeadInv'
  <1>0. /\ HeadInv /\ TypeOK /\ HistoryType /\ Screen \in State /\ setupGeneration \in Nat
        /\ deferred \in Seq(Calls) /\ queue \in Seq(Tasks)
        /\ deferred' = deferred => deferred' \in Seq(Calls)
    BY HeadHolds, InvType, HistoryElements DEF IInv, TypeOK
  <1>1. ASSUME UNCHANGED <<queueVars, deferred, request>>,
               reply' = reply \/ (request # None /\ reply' \in Replies)
        PROVE  HeadInv'
    <2>1. History("undo") \in Tasks
      BY TaskFacts
    <2> QED
      BY <1>0, <1>1, <2>1, EnqueueKeeps DEF queueVars
  <1>2. ASSUME NEW c \in Commands, QueueCall(c) PROVE HeadInv'
    <2>1. used'["call"] \in Nat
      BY <1>0, <1>2 DEF QueueCall, Spend, TypeOK, Operations
    <2>2. Call(used'["call"], c) \in Calls /\ Call(used'["call"], c) \in Tasks
      BY <2>1, TaskFacts
    <2>3. \/ queue' = Append(queue, Call(used'["call"], c)) /\ deferred' = deferred
          \/ queue' = queue /\ deferred' = Append(deferred, Call(used'["call"], c))
      BY <1>2 DEF QueueCall
    <2>4. deferred' \in Seq(Calls)
      BY <1>0, <2>2, <2>3
    <2>5. UNCHANGED <<stage, action, request, reply>>
      BY <1>2 DEF QueueCall, wireVars
    <2> QED
      BY <2>2, <2>3, <2>4, <2>5, EnqueueKeeps
  <1>3. ASSUME NEW d \in {"undo", "redo"}, QueueHistory(d) PROVE HeadInv'
    <2>1. History(d) \in Tasks
      BY TaskFacts
    <2>2. queue' = Append(queue, History(d)) /\ UNCHANGED <<stage, action, request, reply, deferred>>
      BY <1>3 DEF QueueHistory, wireVars
    <2> QED
      BY <1>0, <2>1, <2>2, EnqueueKeeps
  <1>4. CASE RejectCall \/ MoveLocally
    <2>1. queue # <<>> /\ stage = "idle" /\ Leave /\ deferred' = deferred /\ UNCHANGED wireVars
      BY <1>4 DEF RejectCall, MoveLocally, IdleCall, IdleHistory, Idle
    <2> QED
      BY <2>1, LeaveKeeps DEF Wired
  <1>5. CASE StartCall
    <2>1. /\ queue # <<>> /\ stage = "idle" /\ First.kind = "call" /\ deferred' = deferred
          /\ live # None
      BY <1>5 DEF StartCall, IdleCall, Idle
    <2>2. [session |-> setupGeneration] \in Captures /\ [session |-> live] \in Captures
      BY <2>1, AttachedFacts, CaptureTypes
    <2>3. CASE DraftKnown
      <3>1. Await("calling", [session |-> setupGeneration]) /\ Send(ToolCall(First, draftId, generation))
        BY <1>5, <2>3 DEF StartCall
      <3>2. ToolCall(First, draftId, generation) \in Requests
        <4>1. First \in Calls
          BY <2>1, HeadFacts, TaskFacts
        <4>2. draftId \in Nat /\ generation \in Nat
          BY <1>0, <2>3 DEF DraftKnown, TypeOK
        <4> QED
          BY <4>1, <4>2, MessageFacts
      <3> QED
        BY <2>1, <2>2, <3>1, <3>2, SendKeeps DEF Wired
    <2>4. CASE ~DraftKnown
      <3>1. Await("creating", [session |-> live]) /\ UNCHANGED wireVars
        BY <1>5, <2>4 DEF StartCall
      <3> QED
        BY <2>1, <2>2, <3>1, WaitKeeps
    <2> QED
      BY <2>3, <2>4
  <1>6. CASE FinishCall
    <2>1. /\ queue # <<>> /\ stage' = "idle" /\ action' = None /\ request' = None /\ reply' = None
          /\ \/ queue' = Tail(queue) /\ deferred' = deferred
             \/ /\ queue' = Ready(deferred, Last(undo')) \o Tail(queue)
                /\ deferred' = Waiting(deferred, Last(undo'))
      BY <1>0, <1>6 DEF FinishCall, HeadInv, StageMatchesHead, Hangup
    <2>2. Tail(queue) \in Seq(Tasks)
      BY <2>1, HeadFacts
    <2>3. CASE queue' = Tail(queue) /\ deferred' = deferred
      BY <1>0, <2>1, <2>2, <2>3, IdleKeeps
    <2>4. CASE /\ queue' = Ready(deferred, Last(undo')) \o Tail(queue)
               /\ deferred' = Waiting(deferred, Last(undo'))
      <3> DEFINE s == Last(undo')
                 r == Ready(deferred, s)
                 w == Waiting(deferred, s)
      <3>1. r \in Seq(Calls) /\ w \in Seq(Calls)
        BY <1>0, SplitFacts
      <3>2. queue' = r \o Tail(queue) /\ deferred' = w
        BY <2>4
      <3> HIDE DEF r, w
      <3>3. r \in Seq(Tasks)
        BY <3>1, TaskFacts
      <3>4. r \o Tail(queue) \in Seq(Tasks)
        BY <2>2, <3>3
      <3> QED
        BY <2>1, <3>1, <3>2, <3>4, IdleKeeps
    <2> QED
      BY <2>1, <2>3, <2>4
  <1>7. CASE ConflictCall
    <2>1. /\ queue # <<>> /\ First.kind = "call" /\ deferred' = deferred
          /\ Await("refreshing", [session |-> setupGeneration]) /\ Send(GetDraft(draftId))
      BY <1>0, <1>7 DEF ConflictCall, HeadInv, StageMatchesHead
    <2>2. draftId \in Nat /\ live # None
      BY <1>0, <1>7 DEF ConflictCall, TypeOK, IInv, SessionsInOrder
    <2>3. [session |-> setupGeneration] \in Captures /\ GetDraft(draftId) \in Requests
      BY <2>2, AttachedFacts, CaptureTypes, MessageFacts
    <2> QED
      BY <2>1, <2>3, SendKeeps DEF Wired
  <1>8. CASE FinishRefresh \/ FailCall \/ MoveUnseen \/ AbandonHistory \/ FinishHistory
    <2>1. stage # "idle" /\ Leave /\ Hangup /\ deferred' = deferred
      BY <1>8 DEF FinishRefresh, FailCall, MoveUnseen, AbandonHistory, FinishHistory
    <2>2. queue # <<>>
      BY <1>0, <2>1 DEF HeadInv, StageMatchesHead
    <2> QED
      BY <2>1, <2>2, LeaveKeeps
  <1>9. CASE StartHistory
    <2>1. /\ queue # <<>> /\ stage = "idle" /\ First.kind = "history" /\ deferred' = deferred
          /\ live # None
      BY <1>9 DEF StartHistory, IdleHistory, Idle
    <2> DEFINE captured == [session |-> setupGeneration, before |-> undo,
                            target |-> Peek(First.direction)]
    <2>2. CASE ~CanMove(First.direction)
      <3>1. Leave /\ UNCHANGED wireVars
        BY <1>9, <2>2 DEF StartHistory
      <3> QED
        BY <2>1, <3>1, LeaveKeeps DEF Wired
    <2>3. ASSUME CanMove(First.direction) PROVE captured \in Captures /\ captured \in HistoryCapture
      <3>1. First.direction \in {"undo", "redo"}
        BY <2>1, HeadFacts, TaskFacts
      <3>2. Peek(First.direction) \in State
        BY <1>0, <2>3, <3>1, HistoryElements
      <3>3. undo \in Seq(State)
        BY <1>0 DEF HistoryType
      <3> QED
        BY <2>1, <3>2, <3>3, AttachedFacts, CaptureTypes
    <2>4. CASE CanMove(First.direction) /\ DraftKnown
      <3>1. Await("reading", captured) /\ Send(GetDraft(draftId))
        BY <1>9, <2>4 DEF StartHistory
      <3>2. GetDraft(draftId) \in Requests
        BY <1>0, <2>4, MessageFacts DEF DraftKnown, TypeOK
      <3> HIDE DEF captured
      <3> QED
        BY <2>1, <2>3, <2>4, <3>1, <3>2, SendKeeps DEF Wired
    <2>5. CASE CanMove(First.direction) /\ ~DraftKnown
      <3>1. Await("creating", captured) /\ UNCHANGED wireVars
        BY <1>9, <2>5 DEF StartHistory
      <3> HIDE DEF captured
      <3> QED
        BY <2>1, <2>3, <2>5, <3>1, WaitKeeps
    <2> QED
      BY <2>2, <2>4, <2>5
  <1>10. CASE SendInverse
    <2>1. /\ queue # <<>> /\ First.kind = "history" /\ deferred' = deferred
          /\ action \in HistoryCapture /\ Await("inverting", action) /\ request \in Requests
          /\ reply.draft \in Draft
      BY <1>0, <1>10, ReplyFacts DEF SendInverse, HeadInv, QueueType, StageMatchesHead, Answered, Wired
    <2>2. PICK c \in Commands :
            Send([op |-> "tool", id |-> request.id, generation |-> reply.draft.generation, command |-> c])
      BY <1>10 DEF SendInverse, Inverses
    <2>3. [op |-> "tool", id |-> request.id, generation |-> reply.draft.generation, command |-> c]
            \in Requests
      BY <2>1, ReplyFacts, MessageFacts
    <2> QED
      BY <2>1, <2>2, <2>3, SendKeeps, CaptureTypes DEF Wired
  <1>11. ASSUME NEW c \in creates, CreateAdopted(c) PROVE HeadInv'
    <2>0. /\ deferred' = deferred /\ live # None /\ c.reply.draft \in Draft
      BY <1>0, <1>11, ReplyFacts DEF CreateAdopted, TypeOK, Creations
    <2>1. CASE stage = "creating" /\ action.session = c.session
      <3>1. queue # <<>> /\ action \in Captures
        BY <1>0, <2>1 DEF HeadInv, StageMatchesHead
      <3>2. CASE First.kind = "call"
        <4>1. Await("calling", [session |-> setupGeneration])
              /\ Send(ToolCall(First, c.reply.draft.id, c.reply.draft.generation))
          BY <1>11, <2>1, <3>2 DEF CreateAdopted
        <4>2. First \in Calls
          BY <3>1, <3>2, HeadFacts, TaskFacts
        <4>3. /\ [session |-> setupGeneration] \in Captures
              /\ ToolCall(First, c.reply.draft.id, c.reply.draft.generation) \in Requests
          BY <2>0, <4>2, AttachedFacts, CaptureTypes, MessageFacts, ReplyFacts
        <4> QED
          BY <2>0, <3>1, <3>2, <4>1, <4>3, SendKeeps DEF Wired
      <3>3. CASE First.kind # "call"
        <4>1. First.kind = "history"
          BY <3>1, <3>3, HeadFacts, TaskFacts
        <4>2. Await("reading", action) /\ Send(GetDraft(c.reply.draft.id))
          BY <1>11, <2>1, <3>3 DEF CreateAdopted
        <4>3. action \in HistoryCapture
          BY <1>0, <2>1, <4>1 DEF HeadInv, StageMatchesHead
        <4>4. GetDraft(c.reply.draft.id) \in Requests
          BY <2>0, MessageFacts, ReplyFacts
        <4> QED
          BY <2>0, <3>1, <4>1, <4>2, <4>3, <4>4, SendKeeps DEF Wired
      <3> QED
        BY <3>2, <3>3
    <2>2. CASE ~(stage = "creating" /\ action.session = c.session)
      <3>1. UNCHANGED <<queueVars, wireVars>>
        BY <1>11, <2>2 DEF CreateAdopted
      <3> QED
        BY <1>1, <2>0, <3>1 DEF wireVars
    <2> QED
      BY <2>1, <2>2
  <1>12. ASSUME NEW c \in creates, CreateRejected(c) PROVE HeadInv'
    <2>0. deferred' = deferred /\ UNCHANGED wireVars
      BY <1>12 DEF CreateRejected
    <2>1. CASE stage = "creating" /\ action.session = c.session
      <3>1. queue # <<>> /\ Leave
        BY <1>0, <1>12, <2>1 DEF CreateRejected, HeadInv, StageMatchesHead
      <3> QED
        BY <2>0, <2>1, <3>1, LeaveKeeps DEF Wired
    <2>2. CASE ~(stage = "creating" /\ action.session = c.session)
      <3>1. UNCHANGED queueVars
        BY <1>12, <2>2 DEF CreateRejected
      <3> QED
        BY <1>1, <2>0, <3>1 DEF wireVars
    <2> QED
      BY <2>1, <2>2
  <1>13. CASE Disable \/ AgentSetupFails
    <2>1. DetachLiveSession
      BY <1>13 DEF Disable, AgentSetupFails
    <2>2. UNCHANGED <<queue, stage, action, request, reply>> /\ deferred' \in Seq(Calls)
      BY <2>1 DEF DetachLiveSession, queueVars, wireVars
    <2>3. History("undo") \in Tasks
      BY TaskFacts
    <2> QED
      BY <2>2, <2>3, EnqueueKeeps
  <1>14. CASE ServerReads
    <2>1. /\ request # None /\ request.op = "get" /\ UNCHANGED <<queueVars, deferred, request>>
          /\ reply' = [ok |-> TRUE, draft |-> Read(request.id)]
      BY <1>14 DEF ServerReads, Unanswered
    <2>2. request.id \in 1..Len(store)
      BY <2>1 DEF IInv, DraftsStored
    <2>3. Read(request.id) \in Draft
      BY <2>2, ServerTypes
    <2> QED
      BY <1>1, <2>1, <2>3, ReplyFacts
  <1>15. CASE ServerRuns
    <2>1. request # None /\ request.op = "tool" /\ UNCHANGED <<queueVars, deferred, request>>
      BY <1>15 DEF ServerRuns, Unanswered
    <2>2. request.id \in 1..Len(store) /\ request \in Requests
      BY <1>0, <2>1 DEF IInv, DraftsStored, HeadInv, QueueType
    <2> DEFINE b == Last(store[request.id])
               d == [id |-> request.id, generation |-> request.generation + 1,
                     body |-> ServerApplied(b, request.command)]
    <2>3. b \in Body /\ request.id \in Nat /\ request.generation \in Nat /\ request.command \in Commands
      BY <2>1, <2>2, ServerTypes, MessageFacts
    <2>4. reply' \in {Refusal(TRUE), Refusal(FALSE), [ok |-> TRUE, draft |-> d]}
      BY <1>15 DEF ServerRuns
    <2> HIDE DEF b
    <2>5. ServerApplied(b, request.command) \in Body
      BY <2>3, ServerTypes
    <2>6. d \in Draft
      BY <2>3, <2>5 DEF Draft
    <2> HIDE DEF d
    <2>7. reply' \in Replies
      BY <2>4, <2>6, ReplyFacts
    <2> QED
      BY <1>1, <2>1, <2>7
  <1>16. CASE LoseMessage
    <2>1. UNCHANGED <<queueVars, deferred, request>> /\ reply' = Refusal(FALSE)
      BY <1>16 DEF LoseMessage
    <2>2. request # None
      BY <1>0, <1>16 DEF LoseMessage, Unanswered, Answered, HeadInv, StageMatchesHead
    <2> QED
      BY <1>1, <2>1, <2>2, ReplyFacts
  <1>17. ASSUME NEW c \in Commands, ApplyLocal(c) PROVE HeadInv'
    BY <1>1, <1>17 DEF ApplyLocal, wireVars
  <1>18. ASSUME NEW n \in Notes, Annotate(n) PROVE HeadInv'
    BY <1>1, <1>18 DEF Annotate, wireVars
  <1>19. ASSUME NEW l \in Layers, AgentAdds(l) \/ \E d \in 1..Len(store) : OtherAdds(d, l)
         PROVE  HeadInv'
    BY <1>1, <1>19 DEF AgentAdds, OtherAdds, wireVars
  <1>20. ASSUME NEW c \in creates, ServerCreates(c) \/ LoseCreation(c) PROVE HeadInv'
    BY <1>1, <1>20 DEF ServerCreates, LoseCreation, wireVars
  <1>21. CASE AttachLiveSession \/ AcceptServerDraft
    BY <1>1, <1>21 DEF AttachLiveSession, AcceptServerDraft, wireVars
  <1> QED
    BY <1>2, <1>3, <1>4, <1>5, <1>6, <1>7, <1>8, <1>9, <1>10, <1>11, <1>12, <1>13, <1>14, <1>15,
       <1>16, <1>17, <1>18, <1>19, <1>20, <1>21 DEF Next, Use, Run, Respond, Others

\* The server's drafts only grow: by a draft, or one of them by a revision.
StoreMoves ==
    \/ UNCHANGED store
    \/ \E b \in Body : store' = Append(store, <<b>>)
    \/ \E d \in 1..Len(store), b \in Body : store' = [store EXCEPT ![d] = Append(@, b)]

\* A step leaves the stored drafts alone, or makes or revises one.
LEMMA NextMovesStore ==
    ASSUME IInv, Next
    PROVE  StoreMoves
  <1>1. ASSUME NEW c \in creates, ServerCreates(c) PROVE StoreMoves
    <2>1. c.body \in Body
      BY CreationFacts DEF IInv, TypeOK
    <2> QED
      BY <1>1, <2>1 DEF ServerCreates, StoreMoves
  <1>2. CASE ServerRuns
    <2>1. /\ request # None /\ request.op = "tool"
          /\ \/ UNCHANGED store
             \/ store' = [store EXCEPT ![request.id] =
                            Append(@, ServerApplied(Last(store[request.id]), request.command))]
      BY <1>2 DEF ServerRuns, Unanswered
    <2>2. request.id \in 1..Len(store) /\ request \in Requests
      BY <2>1 DEF IInv, DraftsStored, TypeOK
    <2>3. ServerApplied(Last(store[request.id]), request.command) \in Body
      BY <2>1, <2>2, ServerTypes, MessageFacts
    <2> QED
      BY <2>1, <2>2, <2>3 DEF StoreMoves
  <1>3. ASSUME NEW l \in Layers, AgentAdds(l) PROVE StoreMoves
    <2>1. draftId \in 1..Len(store)
      BY <1>3 DEF AgentAdds, IInv, SessionsInOrder, DraftsStored
    <2>2. WithLayer(Last(store[draftId]), l) \in Body
      BY <2>1, ServerTypes
    <2>3. store' = [store EXCEPT ![draftId] =
                      Append(@, WithLayer(Last(store[draftId]), l))]
      BY <1>3 DEF AgentAdds
    <2> QED
      BY <2>1, <2>2, <2>3 DEF StoreMoves
  <1>4. ASSUME NEW d \in 1..Len(store), NEW l \in Layers, OtherAdds(d, l) PROVE StoreMoves
    <2>1. WithLayer(Last(store[d]), l) \in Body
      BY ServerTypes
    <2>2. store' = [store EXCEPT ![d] = Append(@, WithLayer(Last(store[d]), l))]
      BY <1>4 DEF OtherAdds
    <2> QED
      BY <2>1, <2>2 DEF StoreMoves
  <1>5. ASSUME NEW c \in Commands, QueueCall(c) \/ ApplyLocal(c) PROVE StoreMoves
    BY <1>5 DEF QueueCall, ApplyLocal, StoreMoves
  <1>6. ASSUME NEW n \in Notes, Annotate(n) PROVE StoreMoves
    BY <1>6 DEF Annotate, StoreMoves
  <1>7. ASSUME NEW d \in {"undo", "redo"}, QueueHistory(d) PROVE StoreMoves
    BY <1>7 DEF QueueHistory, StoreMoves
  <1>8. ASSUME NEW c \in creates, CreateAdopted(c) \/ CreateRejected(c) \/ LoseCreation(c)
        PROVE  StoreMoves
    BY <1>8 DEF CreateAdopted, CreateRejected, LoseCreation, StoreMoves
  <1>9. CASE AttachLiveSession \/ Disable \/ AgentSetupFails \/ AcceptServerDraft
    BY <1>9 DEF AttachLiveSession, Disable, AgentSetupFails, DetachLiveSession, AcceptServerDraft,
                StoreMoves
  <1>10. CASE RejectCall \/ StartCall \/ FinishCall \/ ConflictCall \/ FinishRefresh \/ FailCall
    BY <1>10 DEF RejectCall, StartCall, FinishCall, ConflictCall, FinishRefresh, FailCall, StoreMoves
  <1>11. CASE MoveLocally \/ StartHistory \/ MoveUnseen \/ SendInverse \/ AbandonHistory \/ FinishHistory
    BY <1>11 DEF MoveLocally, StartHistory, MoveUnseen, SendInverse, AbandonHistory, FinishHistory,
                 StoreMoves
  <1>12. CASE ServerReads \/ LoseMessage
    BY <1>12 DEF ServerReads, LoseMessage, StoreMoves
  <1> QED
    BY <1>1, <1>2, <1>3, <1>4, <1>5, <1>6, <1>7, <1>8, <1>9, <1>10, <1>11, <1>12
       DEF Next, Use, Run, Respond, Others

\* What is stored stays: a revision of a draft is never written over.
LEMMA StoreGrows ==
    ASSUME IInv, StoreMoves
    PROVE  /\ store' \in Seq(Seq(Body))
           /\ \A d \in 1..Len(store') : store'[d] # <<>>
           /\ \A d \in 1..Len(store) :
                /\ d \in 1..Len(store')
                /\ \A g \in 1..Len(store[d]) : g \in 1..Len(store'[d]) /\ store'[d][g] = store[d][g]
  <1>0. /\ store \in Seq(Seq(Body)) /\ Len(store) \in Nat
        /\ \A d \in 1..Len(store) : store[d] # <<>> /\ store[d] \in Seq(Body)
    BY DEF IInv, TypeOK, DraftsStored
  <1>1. CASE UNCHANGED store
    BY <1>0, <1>1
  <1>2. ASSUME NEW b \in Body, store' = Append(store, <<b>>)
        PROVE  /\ store' \in Seq(Seq(Body))
               /\ \A d \in 1..Len(store') : store'[d] # <<>>
               /\ \A d \in 1..Len(store) :
                    /\ d \in 1..Len(store')
                    /\ \A g \in 1..Len(store[d]) : g \in 1..Len(store'[d]) /\ store'[d][g] = store[d][g]
    <2>1. <<b>> \in Seq(Body) /\ <<b>> # <<>>
      OBVIOUS
    <2>2. /\ store' \in Seq(Seq(Body)) /\ Len(store') = Len(store) + 1
          /\ store'[Len(store) + 1] = <<b>> /\ \A d \in 1..Len(store) : store'[d] = store[d]
      BY <1>0, <1>2, <2>1
    <2>3. \A d \in 1..Len(store') : d \in 1..Len(store) \/ d = Len(store) + 1
      BY <1>0, <2>2
    <2>4. \A d \in 1..Len(store) : d \in 1..Len(store')
      BY <1>0, <2>2
    <2> QED
      BY <1>0, <2>1, <2>2, <2>3, <2>4
  <1>3. ASSUME NEW e \in 1..Len(store), NEW b \in Body, store' = [store EXCEPT ![e] = Append(@, b)]
        PROVE  /\ store' \in Seq(Seq(Body))
               /\ \A d \in 1..Len(store') : store'[d] # <<>>
               /\ \A d \in 1..Len(store) :
                    /\ d \in 1..Len(store')
                    /\ \A g \in 1..Len(store[d]) : g \in 1..Len(store'[d]) /\ store'[d][g] = store[d][g]
    <2> DEFINE r == Append(store[e], b)
    <2>0. store[e] \in Seq(Body)
      BY <1>0
    <2>1. /\ r \in Seq(Body) /\ r # <<>> /\ Len(r) = Len(store[e]) + 1 /\ Len(store[e]) \in Nat
          /\ \A g \in 1..Len(store[e]) : r[g] = store[e][g]
      BY <2>0
    <2>2. store' = [store EXCEPT ![e] = r]
      BY <1>3
    <2> HIDE DEF r
    <2>3. /\ store' \in Seq(Seq(Body)) /\ Len(store') = Len(store) /\ store'[e] = r
          /\ \A d \in 1..Len(store) : d # e => store'[d] = store[d]
      BY <1>0, <2>1, <2>2
    <2>4. \A g \in 1..Len(store[e]) : g \in 1..Len(r)
      BY <2>1
    <2> QED
      BY <1>0, <2>1, <2>3, <2>4
  <1> QED
    BY <1>1, <1>2, <1>3 DEF StoreMoves

RestType ==
    /\ agent \in {"none", "ensuring", "attached", "failed"}
    /\ told \in Draft \union {None}
    /\ crossed \in BOOLEAN
    /\ tries \in [1..Budget["call"] -> Nat]
    /\ used \in [Operations -> Nat]

LEMMA SpendType ==
    ASSUME used \in [Operations -> Nat], NEW op \in Operations, Spend(op)
    PROVE  /\ used' \in [Operations -> Nat] /\ used'[op] = used[op] + 1 /\ used[op] + 1 <= Budget[op]
           /\ \A o \in Operations : o # op => used'[o] = used[o]
  <1>1. Budget[op] \in Nat
    BY BudgetAssumption
  <1> QED
    BY <1>1 DEF Spend

\* The rest of the state keeps its type.
LEMMA RestKeeps ==
    ASSUME IInv, Next
    PROVE  RestType'
  <1>0. /\ TypeOK /\ RestType /\ used \in [Operations -> Nat]
        /\ {"call", "history", "session", "disturbance"} \subseteq Operations
    BY DEF IInv, TypeOK, RestType, Operations
  <1>1. ASSUME UNCHANGED <<agentVars, crossed, tries>>, UNCHANGED used \/ \E op \in Operations : Spend(op)
        PROVE  RestType'
    <2>1. used' \in [Operations -> Nat]
      BY <1>0, <1>1, SpendType
    <2> QED
      BY <1>0, <1>1, <2>1 DEF RestType, agentVars
  <1>2. ASSUME NEW id, Tried(id) PROVE tries' \in [1..Budget["call"] -> Nat]
    <2>1. tries \in [1..Budget["call"] -> Nat] /\ tries' = [tries EXCEPT ![id] = @ + 1]
      BY <1>0, <1>2 DEF RestType, Tried
    <2>2. CASE id \in 1..Budget["call"]
      BY <2>1, <2>2
    <2>3. CASE id \notin 1..Budget["call"]
      <3>1. tries' = tries
        BY <2>1, <2>3
      <3> QED
        BY <2>1, <3>1
    <2> QED
      BY <2>2, <2>3
  <1>3. ASSUME NEW c \in Commands, ApplyLocal(c) PROVE RestType'
    <2>1. used' \in [Operations -> Nat]
      BY <1>0, <1>3, SpendType DEF ApplyLocal
    <2> QED
      BY <1>0, <1>2, <1>3, <2>1 DEF ApplyLocal, RestType, agentVars
  <1>4. CASE StartCall
    <2>1. UNCHANGED <<agentVars, crossed, used>> /\ (UNCHANGED tries \/ Tried(First.id))
      BY <1>4 DEF StartCall
    <2> QED
      BY <1>0, <1>2, <2>1 DEF RestType, agentVars
  <1>5. CASE FinishCall \/ FinishRefresh
    <2>1. UNCHANGED <<agentVars, tries, used>> /\ crossed' \in BOOLEAN
      BY <1>0, <1>5 DEF FinishCall, FinishRefresh, Adopt, RestType
    <2> QED
      BY <1>0, <2>1 DEF RestType, agentVars
  <1>6. ASSUME NEW c \in creates, CreateAdopted(c) PROVE RestType'
    <2>1. /\ UNCHANGED <<told, crossed, used>> /\ (UNCHANGED tries \/ Tried(First.id))
          /\ agent' = IF agent = "ensuring" THEN "attached" ELSE agent
      BY <1>6 DEF CreateAdopted
    <2> QED
      BY <1>0, <1>2, <2>1 DEF RestType
  <1>7. ASSUME NEW c \in creates, CreateRejected(c) PROVE RestType'
    <2>1. /\ UNCHANGED <<told, crossed, used, tries>> /\ agent' \in {agent, "failed"}
      BY <1>7 DEF CreateRejected
    <2> QED
      BY <1>0, <2>1 DEF RestType
  <1>8. CASE AttachLiveSession
    <2>1. UNCHANGED <<crossed, tries>> /\ agent' \in {"none", "ensuring"} /\ told' = None
      BY <1>8 DEF AttachLiveSession
    <2>2. used' \in [Operations -> Nat]
      BY <1>0, <1>8, SpendType DEF AttachLiveSession
    <2> QED
      BY <1>0, <2>1, <2>2 DEF RestType
  <1>9. CASE Disable \/ AgentSetupFails
    <2>1. DetachLiveSession
      BY <1>9 DEF Disable, AgentSetupFails
    <2>2. used' \in [Operations -> Nat]
      BY <1>0, <1>9, SpendType DEF Disable, AgentSetupFails
    <2>3. UNCHANGED crossed /\ agent' = "none" /\ told' = None
      BY <2>1 DEF DetachLiveSession
    <2>4. tries' \in [1..Budget["call"] -> Nat]
      <3>1. tries' = [id \in DOMAIN tries |->
                   IF \E i \in DOMAIN deferred : deferred[i].id = id THEN tries[id] + 1 ELSE tries[id]]
        BY <2>1 DEF DetachLiveSession
      <3>2. DOMAIN tries = 1..Budget["call"] /\ \A id \in DOMAIN tries : tries[id] \in Nat
        BY <1>0 DEF RestType
      <3> QED
        BY <3>1, <3>2
    <2> QED
      BY <1>0, <2>2, <2>3, <2>4 DEF RestType
  <1>10. ASSUME NEW l \in Layers, AgentAdds(l) PROVE RestType'
    <2>1. used' \in [Operations -> Nat] /\ UNCHANGED <<agent, crossed, tries>>
      BY <1>0, <1>10, SpendType DEF AgentAdds
    <2>2. draftId \in 1..Len(store)
      BY <1>10 DEF AgentAdds, IInv, SessionsInOrder, DraftsStored
    <2> DEFINE b == WithLayer(Last(store[draftId]), l)
    <2>3. b \in Body /\ store[draftId] \in Seq(Body) /\ Len(store[draftId]) \in Nat
      BY <2>2, ServerTypes
    <2>4. Last(store'[draftId]) = b
      <3>1. store' = [store EXCEPT ![draftId] = Append(@, b)]
        BY <1>10 DEF AgentAdds
      <3> HIDE DEF b
      <3>2. store'[draftId] = Append(store[draftId], b)
        BY <1>0, <2>2, <3>1, SMTT(30) DEF TypeOK
      <3> QED
        BY <2>3, <3>2 DEF Last
    <2>5. told' = [id |-> draftId, generation |-> Len(store[draftId]) + 1, body |-> Last(store'[draftId])]
      BY <1>10 DEF AgentAdds
    <2> HIDE DEF b
    <2>6. told' \in Draft
      BY <2>2, <2>3, <2>4, <2>5 DEF Draft
    <2> QED
      BY <1>0, <2>1, <2>6 DEF RestType
  <1>11. CASE AcceptServerDraft
    <2>1. told' = None /\ UNCHANGED <<agent, crossed, tries, used>>
      BY <1>11 DEF AcceptServerDraft
    <2> QED
      BY <1>0, <2>1 DEF RestType
  <1>12. ASSUME NEW c \in Commands, QueueCall(c) PROVE RestType'
    BY <1>0, <1>1, <1>12 DEF QueueCall
  <1>13. ASSUME NEW n \in Notes, Annotate(n) PROVE RestType'
    BY <1>0, <1>1, <1>13 DEF Annotate
  <1>14. ASSUME NEW d \in {"undo", "redo"}, QueueHistory(d) PROVE RestType'
    BY <1>0, <1>1, <1>14 DEF QueueHistory
  <1>15. ASSUME NEW d \in 1..Len(store), NEW l \in Layers, OtherAdds(d, l) PROVE RestType'
    BY <1>0, <1>1, <1>15 DEF OtherAdds
  <1>16. ASSUME NEW c \in creates, ServerCreates(c) \/ LoseCreation(c) PROVE RestType'
    BY <1>0, <1>1, <1>16 DEF ServerCreates, LoseCreation
  <1>17. CASE RejectCall \/ ConflictCall \/ FailCall \/ MoveLocally \/ StartHistory
    BY <1>1, <1>17 DEF RejectCall, ConflictCall, FailCall, MoveLocally, StartHistory
  <1>18. CASE MoveUnseen \/ SendInverse \/ AbandonHistory \/ FinishHistory
    BY <1>1, <1>18 DEF MoveUnseen, SendInverse, AbandonHistory, FinishHistory
  <1>19. CASE ServerReads \/ ServerRuns \/ LoseMessage
    BY <1>0, <1>1, <1>19 DEF ServerReads, ServerRuns, LoseMessage
  <1> QED
    BY <1>3, <1>4, <1>5, <1>6, <1>7, <1>8, <1>9, <1>10, <1>11, <1>12, <1>13, <1>14, <1>15, <1>16,
       <1>17, <1>18, <1>19 DEF Next, Use, Run, Respond, Others

\* Every variable keeps its type.
LEMMA TypeKeeps ==
    ASSUME IInv, Next
    PROVE  TypeOK' /\ StageMatchesHead'
  <1>1. HistoryType' /\ SessionType' /\ HeadInv' /\ RestType'
    BY NextMovesHistory, HistoryKeeps, SessionKeeps, HeadKeeps, RestKeeps
  <1>2. store' \in Seq(Seq(Body))
    BY NextMovesStore, StoreGrows
  <1> QED
    BY <1>1, <1>2 DEF TypeOK, HistoryType, SessionType, HeadInv, QueueType, RestType, Wired

-----------------------------------------------------------------------------
(* The parts of the invariant, each over every step *)

\* What becomes of the head: it leaves or is a call, goes on with what it
\* captured, or starts to move the cursor.
HeadMoves ==
    \/ stage' = "idle"
    \/ /\ First'.kind = "call" /\ live # None /\ UNCHANGED sessionVars
       /\ action'.session = setupGeneration
    \/ /\ stage # "idle" /\ First' = First /\ action' = action
       /\ UNCHANGED sessionVars \/ setupGeneration' = setupGeneration + 1
    \/ /\ UNCHANGED <<historyVars, sessionVars, queue>> /\ live # None /\ CanMove(First.direction)
       /\ action' = [session |-> setupGeneration, before |-> undo, target |-> Peek(First.direction)]

LEMMA HeadStays ==
    ASSUME IInv, UNCHANGED <<stage, action>>,
           queue' = queue \/ (queue # <<>> => \E t \in Tasks : queue' = Append(queue, t)),
           UNCHANGED sessionVars \/ setupGeneration' = setupGeneration + 1
    PROVE  HeadMoves
  <1>1. ASSUME stage # "idle" PROVE First' = First
    <2>1. queue \in Seq(Tasks) /\ queue # <<>>
      BY <1>1 DEF IInv, TypeOK, StageMatchesHead
    <2>2. ASSUME NEW t \in Tasks, queue' = Append(queue, t) PROVE Head(queue') = Head(queue)
      BY <2>1, <2>2
    <2> QED
      BY <2>1, <2>2 DEF First
  <1> QED
    BY <1>1 DEF HeadMoves

\* A step leaves the head alone, or moves it as follows.
LEMMA NextMovesHead ==
    ASSUME IInv, Next
    PROVE  HeadMoves
  <1>1. ASSUME UNCHANGED <<sessionVars, queueVars>> PROVE HeadMoves
    BY <1>1, HeadStays DEF sessionVars, queueVars
  <1>2. ASSUME NEW c \in Commands, QueueCall(c) PROVE HeadMoves
    <2>1. used'["call"] \in Nat
      BY <1>2 DEF QueueCall, Spend, IInv, TypeOK, Operations
    <2>2. Call(used'["call"], c) \in Tasks
      BY <2>1, TaskFacts
    <2>3. /\ queue' = Append(queue, Call(used'["call"], c)) \/ queue' = queue
          /\ UNCHANGED <<stage, action, sessionVars>>
      BY <1>2 DEF QueueCall
    <2> QED
      BY <2>2, <2>3, HeadStays
  <1>3. ASSUME NEW d \in {"undo", "redo"}, QueueHistory(d) PROVE HeadMoves
    <2>1. History(d) \in Tasks
      BY TaskFacts
    <2>2. queue' = Append(queue, History(d)) /\ UNCHANGED <<stage, action, sessionVars>>
      BY <1>3 DEF QueueHistory
    <2> QED
      BY <2>1, <2>2, HeadStays
  <1>4. CASE RejectCall \/ MoveLocally \/ FinishCall \/ FinishRefresh \/ FailCall \/ MoveUnseen
             \/ AbandonHistory \/ FinishHistory
    BY <1>4 DEF RejectCall, MoveLocally, FinishCall, FinishRefresh, FailCall, MoveUnseen,
                AbandonHistory, FinishHistory, Leave, HeadMoves
  <1>5. CASE StartCall
    <2>1. /\ First.kind = "call" /\ queue' = queue /\ live # None /\ UNCHANGED sessionVars
          /\ action' \in {[session |-> setupGeneration], [session |-> live]}
      BY <1>5 DEF StartCall, IdleCall, Await
    <2>2. action'.session = setupGeneration
      BY <2>1, AttachedFacts
    <2> QED
      BY <2>1, <2>2 DEF HeadMoves, First
  <1>6. CASE ConflictCall
    <2>1. /\ First.kind = "call" /\ queue' = queue /\ live # None /\ UNCHANGED sessionVars
          /\ action' = [session |-> setupGeneration]
      BY <1>6 DEF ConflictCall, Await, IInv, StageMatchesHead, SessionsInOrder
    <2> QED
      BY <2>1 DEF HeadMoves, First
  <1>7. CASE StartHistory
    <2>1. CASE CanMove(First.direction)
      BY <1>7, <2>1 DEF StartHistory, Await, HeadMoves
    <2>2. CASE ~CanMove(First.direction)
      BY <1>7, <2>2 DEF StartHistory, Leave, HeadMoves
    <2> QED
      BY <2>1, <2>2
  <1>8. CASE SendInverse
    BY <1>8 DEF SendInverse, Await, HeadMoves, sessionVars, First
  <1>9. ASSUME NEW c \in creates, CreateAdopted(c) PROVE HeadMoves
    <2>1. CASE stage = "creating" /\ action.session = c.session /\ First.kind = "call"
      <3>1. /\ queue' = queue /\ live # None /\ UNCHANGED sessionVars
            /\ action' = [session |-> setupGeneration]
        BY <1>9, <2>1 DEF CreateAdopted, Await
      <3> QED
        BY <2>1, <3>1 DEF HeadMoves, First
    <2>2. CASE stage = "creating" /\ action.session = c.session /\ First.kind # "call"
      <3>1. queue' = queue /\ action' = action /\ UNCHANGED sessionVars
        BY <1>9, <2>2 DEF CreateAdopted, Await
      <3> QED
        BY <2>2, <3>1 DEF HeadMoves, First
    <2>3. CASE ~(stage = "creating" /\ action.session = c.session)
      <3>1. UNCHANGED <<sessionVars, queueVars>>
        BY <1>9, <2>3 DEF CreateAdopted
      <3> QED
        BY <1>1, <3>1
    <2> QED
      BY <2>1, <2>2, <2>3
  <1>10. ASSUME NEW c \in creates, CreateRejected(c) PROVE HeadMoves
    <2>1. UNCHANGED <<sessionVars, queueVars>> \/ Leave
      BY <1>10 DEF CreateRejected
    <2> QED
      BY <1>1, <2>1 DEF Leave, HeadMoves
  <1>11. CASE AttachLiveSession \/ Disable \/ AgentSetupFails
    <2>1. setupGeneration' = setupGeneration + 1 /\ UNCHANGED queueVars
      BY <1>11 DEF AttachLiveSession, Disable, AgentSetupFails, DetachLiveSession
    <2> QED
      BY <2>1, HeadStays DEF queueVars
  <1>12. ASSUME NEW c \in Commands, ApplyLocal(c) PROVE HeadMoves
    BY <1>1, <1>12 DEF ApplyLocal
  <1>13. ASSUME NEW n \in Notes, Annotate(n) PROVE HeadMoves
    BY <1>1, <1>13 DEF Annotate
  <1>14. ASSUME NEW l \in Layers, AgentAdds(l) \/ \E d \in 1..Len(store) : OtherAdds(d, l)
         PROVE  HeadMoves
    BY <1>1, <1>14 DEF AgentAdds, OtherAdds
  <1>15. ASSUME NEW c \in creates, ServerCreates(c) \/ LoseCreation(c) PROVE HeadMoves
    BY <1>1, <1>15 DEF ServerCreates, LoseCreation
  <1>16. CASE AcceptServerDraft \/ ServerReads \/ ServerRuns \/ LoseMessage
    BY <1>1, <1>16 DEF AcceptServerDraft, ServerReads, ServerRuns, LoseMessage
  <1> QED
    BY <1>2, <1>3, <1>4, <1>5, <1>6, <1>7, <1>8, <1>9, <1>10, <1>11, <1>12, <1>13, <1>14, <1>15,
       <1>16 DEF Next, Use, Run, Respond, Others

\* The history still offers what was captured, or it has grown since.
LEMMA CaptureKeeps ==
    ASSUME IInv, Next
    PROVE  CaptureHolds'
  <1>1. SUFFICES ASSUME stage' # "idle", First'.kind = "history", action'.session = setupGeneration'
        PROVE \/ /\ undo' = action'.before
                 /\ CanMove(First.direction)' /\ Peek(First.direction)' = action'.target
              \/ Len(undo') > Len(action'.before)
    BY DEF CaptureHolds
  <1>2. HeadMoves /\ HistoryMoves /\ HistoryType /\ StageMatchesHead' /\ setupGeneration \in Nat
    BY NextMovesHead, NextMovesHistory, InvType, TypeKeeps DEF IInv, TypeOK
  <1>3. CASE /\ stage # "idle" /\ First' = First /\ action' = action
             /\ UNCHANGED sessionVars \/ setupGeneration' = setupGeneration + 1
    <2>1. action.session <= setupGeneration /\ action.session \in Nat
      BY <1>3, CaptureTypes DEF IInv, SessionsInOrder, StageMatchesHead, Sessions
    <2>2. setupGeneration' = setupGeneration /\ action.session = setupGeneration
      BY <1>1, <1>2, <1>3, <2>1 DEF sessionVars
    <2>3. action \in HistoryCapture /\ action.before \in Seq(State)
      BY <1>1, <1>2, <1>3, CaptureTypes DEF StageMatchesHead
    <2>4. \/ /\ undo = action.before
             /\ CanMove(First.direction) /\ Peek(First.direction) = action.target
          \/ Len(undo) > Len(action.before)
      BY <1>1, <1>3, <2>2 DEF IInv, CaptureHolds
    <2>5. CASE UNCHANGED historyVars
      BY <1>3, <2>4, <2>5 DEF historyVars, CanMove, Peek, Screen
    <2>6. ASSUME NEW s \in State, Push(s) PROVE Len(undo') > Len(action'.before)
      <3>1. Len(undo') = Len(undo) + 1 /\ Len(undo) \in Nat /\ Len(action.before) \in Nat
        BY <1>2, <2>3, <2>6, PushEffect DEF HistoryType
      <3> QED
        BY <1>3, <2>4, <3>1
    <2>7. ~Leave
      BY <1>1 DEF Leave
    <2>8. setupGeneration' # setupGeneration + 1
      BY <1>2, <2>2
    <2> QED
      BY <1>2, <2>5, <2>6, <2>7, <2>8 DEF HistoryMoves
  <1>4. CASE /\ UNCHANGED <<historyVars, sessionVars, queue>> /\ live # None
             /\ CanMove(First.direction)
             /\ action' = [session |-> setupGeneration, before |-> undo, target |-> Peek(First.direction)]
    BY <1>4 DEF historyVars, CanMove, Peek, Screen, First
  <1> QED
    BY <1>1, <1>2, <1>3, <1>4 DEF HeadMoves

\* The head's session is not one to come, and the current one is attached.
HeadInOrder ==
    stage # "idle" => /\ action.session <= setupGeneration
                      /\ action.session = setupGeneration => live # None

\* The head belongs to a session that has come, attached if it is the last.
LEMMA HeadOrderKeeps ==
    ASSUME IInv, Next
    PROVE  HeadInOrder'
  <1>0. HeadMoves /\ HeadInOrder /\ setupGeneration \in Nat
    BY NextMovesHead DEF IInv, TypeOK, SessionsInOrder, HeadInOrder
  <1>1. CASE stage' = "idle"
    BY <1>1 DEF HeadInOrder
  <1>2. CASE live # None /\ UNCHANGED sessionVars /\ action'.session = setupGeneration
    BY <1>0, <1>2 DEF HeadInOrder, sessionVars
  <1>3. CASE stage # "idle" /\ action' = action /\ UNCHANGED sessionVars
    BY <1>0, <1>3 DEF HeadInOrder, sessionVars
  <1>4. CASE stage # "idle" /\ action' = action /\ setupGeneration' = setupGeneration + 1
    <2>1. action.session <= setupGeneration /\ action.session \in Nat
      BY <1>0, <1>4, CaptureTypes DEF IInv, HeadInOrder, StageMatchesHead, Sessions
    <2> QED
      BY <1>0, <1>4, <2>1 DEF HeadInOrder
  <1>5. CASE /\ UNCHANGED sessionVars /\ live # None
             /\ action' = [session |-> setupGeneration, before |-> undo, target |-> Peek(First.direction)]
    BY <1>0, <1>5 DEF HeadInOrder, sessionVars
  <1> QED
    BY <1>0, <1>1, <1>2, <1>3, <1>4, <1>5 DEF HeadMoves

\* What holds of the creations, the draft and the agent session.
CreationsInOrder ==
    /\ live # None => setupGeneration # 0
    /\ \A c \in creates : /\ c.session <= setupGeneration
                          /\ c.session = setupGeneration => live # None
    /\ draftId # None => live # None /\ generation # None
    /\ agent = "attached" => draftId # None
    /\ told # None => agent = "attached" /\ told.id = draftId
    /\ OneCreation
    /\ OneInFlight

LEMMA CreationsStay ==
    ASSUME IInv, UNCHANGED <<sessionVars, creationVars, draftId, agentVars>>,
           generation' = generation \/ generation' # None
    PROVE  CreationsInOrder'
  BY DEF IInv, SessionsInOrder, CreationsInOrder, OneCreation, OneInFlight, sessionVars, creationVars,
         agentVars

\* The server answers a creation, or its answer is lost: it is still the one.
LEMMA CreationAnswered ==
    ASSUME IInv, NEW c \in creates, NEW e, e.session = c.session,
           creates' = (creates \ {c}) \union {e},
           UNCHANGED <<sessionVars, setup, draftVars, agentVars>>
    PROVE  CreationsInOrder'
  <1>1. \A d \in creates' : d = e \/ (d \in creates /\ d # c)
    OBVIOUS
  <1>2. OneInFlight'
    BY <1>1 DEF IInv, OneInFlight
  <1>3. OneCreation'
    BY <1>1 DEF IInv, OneCreation, sessionVars, draftVars
  <1> QED
    BY <1>1, <1>2, <1>3 DEF IInv, SessionsInOrder, CreationsInOrder, sessionVars, draftVars, agentVars

\* The first caller of a session starts its creation; there is none beside it.
LEMMA EnsureInOrder ==
    ASSUME IInv, live # None, ~DraftKnown, EnsureDraft,
           UNCHANGED <<sessionVars, draftVars, agentVars>>
    PROVE  CreationsInOrder'
  <1>1. draftId = None
    BY DEF DraftKnown, IInv, SessionsInOrder
  <1>2. live = setupGeneration /\ setupGeneration \in Nat \ {0}
    BY AttachedFacts DEF Sessions
  <1>3. CASE setup = None
    <2> DEFINE e == Creation(live, Screen)
    <2>1. setup' = live /\ creates' = creates \union {e} /\ e.session = live
      BY <1>3 DEF EnsureDraft, Creation
    <2> HIDE DEF e
    <2>2. \A d \in creates : d.session # live
      BY <1>3 DEF IInv, OneCreation
    <2>3. OneInFlight'
      BY <2>1, <2>2 DEF IInv, OneInFlight
    <2>4. OneCreation'
      BY <1>1, <2>1 DEF IInv, OneCreation, sessionVars, draftVars
    <2> QED
      BY <1>1, <1>2, <2>1, <2>3, <2>4
         DEF IInv, SessionsInOrder, CreationsInOrder, sessionVars, draftVars, agentVars
  <1>4. CASE setup # None
    BY <1>4, CreationsStay DEF EnsureDraft, draftVars
  <1> QED
    BY <1>3, <1>4

\* A session that is attached has no creation yet but its own.
LEMMA AttachInOrder ==
    ASSUME IInv, AttachLiveSession
    PROVE  CreationsInOrder'
  <1> DEFINE e == Creation(setupGeneration + 1, Screen)
  <1>1. /\ setupGeneration \in Nat /\ live' = setupGeneration + 1 /\ setupGeneration' = setupGeneration + 1
        /\ draftId' = None /\ told' = None /\ setupGeneration + 1 # None
    BY MessageFacts DEF AttachLiveSession, IInv, TypeOK
  <1>2. \/ agent' = "none" /\ creates' = creates
        \/ agent' = "ensuring" /\ setup' = live' /\ creates' = creates \union {e}
    BY <1>1 DEF AttachLiveSession
  <1>3. e.session = setupGeneration + 1
    BY DEF Creation
  <1> HIDE DEF e
  <1>4. \A d \in creates : d.session \in Nat /\ d.session <= setupGeneration
    BY CreationFacts DEF IInv, TypeOK, SessionsInOrder, Sessions
  <1>5. \A d \in creates : d.session # setupGeneration + 1
    BY <1>1, <1>4
  <1>6. OneInFlight'
    BY <1>2, <1>3, <1>5 DEF IInv, OneInFlight
  <1>7. OneCreation'
    BY <1>1, <1>2, <1>5 DEF OneCreation
  <1>8. \A d \in creates' : d.session <= setupGeneration + 1
    BY <1>1, <1>2, <1>3, <1>4
  <1> QED
    BY <1>1, <1>2, <1>6, <1>7, <1>8 DEF CreationsInOrder

LEMMA DetachInOrder ==
    ASSUME IInv, DetachLiveSession
    PROVE  CreationsInOrder'
  <1>1. /\ setupGeneration \in Nat /\ live' = None /\ setupGeneration' = setupGeneration + 1
        /\ draftId' = None /\ told' = None /\ agent' = "none" /\ creates' = creates
    BY DEF DetachLiveSession, IInv, TypeOK
  <1>2. \A d \in creates : d.session \in Nat /\ d.session # None /\ d.session <= setupGeneration
    BY CreationFacts, MessageFacts DEF IInv, TypeOK, SessionsInOrder, Sessions
  <1>3. \A d \in creates : d.session <= setupGeneration + 1 /\ d.session # setupGeneration + 1
    BY <1>1, <1>2
  <1>4. OneInFlight' /\ OneCreation'
    BY <1>1, <1>2 DEF IInv, OneInFlight, OneCreation
  <1> QED
    BY <1>1, <1>3, <1>4 DEF CreationsInOrder

\* The creation of the attached session was the only one.
LEMMA AdoptedInOrder ==
    ASSUME IInv, NEW c \in creates, CreateAdopted(c)
    PROVE  CreationsInOrder'
  <1>1. /\ UNCHANGED <<sessionVars, told>> /\ creates' = creates \ {c} /\ setup' = None
        /\ draftId' = c.reply.draft.id /\ generation' = c.reply.draft.generation
        /\ agent' \in {agent, "attached"} /\ live # None /\ c.session = setupGeneration
    BY DEF CreateAdopted
  <1>2. live = setupGeneration
    BY <1>1, AttachedFacts
  <1>3. c.reply.draft \in Draft
    BY ReplyFacts DEF CreateAdopted, IInv, TypeOK, Creations
  <1>4. c.reply.draft.id # None /\ c.reply.draft.generation # None
    BY <1>3, ReplyFacts, MessageFacts
  <1>5. draftId = None
    BY <1>1, <1>2 DEF IInv, OneCreation
  <1>6. told = None
    BY <1>5 DEF IInv, SessionsInOrder
  <1>7. \A d \in creates' : d \in creates /\ d.session # live
    BY <1>1, <1>2 DEF IInv, OneInFlight
  <1>8. OneInFlight' /\ OneCreation'
    BY <1>1, <1>7 DEF IInv, OneInFlight, OneCreation, sessionVars
  <1> QED
    BY <1>1, <1>4, <1>6, <1>7, <1>8 DEF IInv, SessionsInOrder, CreationsInOrder, sessionVars

\* Only its own session may start another.
LEMMA RejectedInOrder ==
    ASSUME IInv, NEW c \in creates, CreateRejected(c)
    PROVE  CreationsInOrder'
  <1>1. /\ UNCHANGED <<sessionVars, draftVars, told>> /\ creates' = creates \ {c}
        /\ setup' = IF c.session = setupGeneration THEN None ELSE setup
        /\ agent' = agent \/ (agent = "ensuring" /\ agent' = "failed")
    BY DEF CreateRejected
  <1>2. OneInFlight'
    BY <1>1 DEF IInv, OneInFlight
  <1>3. OneCreation'
    <2>1. ASSUME NEW d \in creates', d.session = live PROVE setup' = live /\ draftId = None
      <3>1. d \in creates /\ d # c /\ d.session # c.session
        BY <1>1 DEF IInv, OneInFlight
      <3>2. d.session \in Sessions /\ live # None
        BY <2>1, <3>1, CreationFacts, MessageFacts DEF IInv, TypeOK, Sessions
      <3>3. live = setupGeneration
        BY <3>2, AttachedFacts
      <3> QED
        BY <1>1, <2>1, <3>1, <3>3 DEF IInv, OneCreation
    <2> QED
      BY <1>1, <2>1 DEF OneCreation, sessionVars, draftVars
  <1> QED
    BY <1>1, <1>2, <1>3 DEF IInv, SessionsInOrder, CreationsInOrder, sessionVars, draftVars

\* One creation in flight, and none beside a draft, after every step.
LEMMA CreationsKeep ==
    ASSUME IInv, Next
    PROVE  CreationsInOrder'
  <1>1. CASE StartCall
    <2>1. live # None /\ UNCHANGED <<sessionVars, draftVars, agentVars>>
          /\ (UNCHANGED creationVars \/ (~DraftKnown /\ EnsureDraft))
      BY <1>1 DEF StartCall
    <2> QED
      BY <2>1, EnsureInOrder, CreationsStay DEF draftVars
  <1>2. CASE StartHistory
    <2>1. live # None /\ UNCHANGED <<sessionVars, draftVars, agentVars>>
          /\ (UNCHANGED creationVars \/ (~DraftKnown /\ EnsureDraft))
      BY <1>2 DEF StartHistory
    <2> QED
      BY <2>1, EnsureInOrder, CreationsStay DEF draftVars
  <1>3. CASE FinishCall \/ FinishRefresh \/ FinishHistory
    <2>1. generation' = reply.draft.generation /\ UNCHANGED <<sessionVars, draftId, creationVars, agentVars>>
      BY <1>3 DEF FinishCall, FinishRefresh, FinishHistory, Adopt
    <2>2. reply.draft.generation # None
      BY <1>3, ReplyFacts, MessageFacts
         DEF FinishCall, FinishRefresh, FinishHistory, Answered, IInv, TypeOK
    <2> QED
      BY <2>1, <2>2, CreationsStay
  <1>4. CASE Disable \/ AgentSetupFails
    BY <1>4, DetachInOrder DEF Disable, AgentSetupFails
  <1>5. CASE AcceptServerDraft
    <2>1. /\ told # None /\ draftId' = told.id /\ generation' = told.generation /\ told' = None
          /\ UNCHANGED <<sessionVars, creationVars, agent>>
      BY <1>5 DEF AcceptServerDraft
    <2>2. told.id = draftId /\ told.generation # None
      BY <2>1, ReplyFacts, MessageFacts DEF IInv, TypeOK, SessionsInOrder
    <2> QED
      BY <2>1, <2>2 DEF IInv, SessionsInOrder, CreationsInOrder, OneCreation, OneInFlight, sessionVars,
                        creationVars
  <1>6. ASSUME NEW c \in creates, ServerCreates(c) PROVE CreationsInOrder'
    <2> DEFINE e == [c EXCEPT !.reply = [ok |-> TRUE, draft |-> [id |-> Len(store) + 1,
                                                       generation |-> 1, body |-> c.body]]]
    <2>1. creates' = (creates \ {c}) \union {e} /\ UNCHANGED <<sessionVars, draftVars, setup, agentVars>>
      BY <1>6 DEF ServerCreates
    <2>2. e.session = c.session
      BY DEF IInv, TypeOK, Creations
    <2> HIDE DEF e
    <2> QED
      BY <2>1, <2>2, CreationAnswered
  <1>7. ASSUME NEW c \in creates, LoseCreation(c) PROVE CreationsInOrder'
    <2> DEFINE e == [c EXCEPT !.reply = Refusal(FALSE)]
    <2>1. creates' = (creates \ {c}) \union {e} /\ UNCHANGED <<sessionVars, draftVars, setup, agentVars>>
      BY <1>7 DEF LoseCreation
    <2>2. e.session = c.session
      BY DEF IInv, TypeOK, Creations
    <2> HIDE DEF e
    <2> QED
      BY <2>1, <2>2, CreationAnswered
  <1>8. ASSUME NEW l \in Layers, AgentAdds(l) PROVE CreationsInOrder'
    <2>1. agent = "attached" /\ told'.id = draftId /\ UNCHANGED <<sessionVars, draftVars, creationVars, agent>>
      BY <1>8 DEF AgentAdds
    <2> QED
      BY <2>1 DEF IInv, SessionsInOrder, CreationsInOrder, OneCreation, OneInFlight, sessionVars, draftVars,
                  creationVars
  <1>9. ASSUME NEW c \in Commands, QueueCall(c) \/ ApplyLocal(c) PROVE CreationsInOrder'
    BY <1>9, CreationsStay DEF QueueCall, ApplyLocal, draftVars
  <1>10. ASSUME NEW n \in Notes, Annotate(n) PROVE CreationsInOrder'
    BY <1>10, CreationsStay DEF Annotate, draftVars
  <1>11. ASSUME NEW d \in {"undo", "redo"}, QueueHistory(d) PROVE CreationsInOrder'
    BY <1>11, CreationsStay DEF QueueHistory, draftVars
  <1>12. ASSUME NEW d \in 1..Len(store), NEW l \in Layers, OtherAdds(d, l) PROVE CreationsInOrder'
    BY <1>12, CreationsStay DEF OtherAdds, draftVars
  <1>13. CASE RejectCall \/ ConflictCall \/ FailCall \/ MoveLocally
    BY <1>13, CreationsStay DEF RejectCall, ConflictCall, FailCall, MoveLocally, draftVars
  <1>14. CASE MoveUnseen \/ SendInverse \/ AbandonHistory
    BY <1>14, CreationsStay DEF MoveUnseen, SendInverse, AbandonHistory, draftVars
  <1>15. CASE ServerReads \/ ServerRuns \/ LoseMessage
    BY <1>15, CreationsStay DEF ServerReads, ServerRuns, LoseMessage, draftVars
  <1> QED
    BY <1>1, <1>2, <1>3, <1>4, <1>5, <1>6, <1>7, <1>8, <1>9, <1>10, <1>11, <1>12, <1>13, <1>14, <1>15,
       AttachInOrder, AdoptedInOrder, RejectedInOrder DEF Next, Use, Run, Respond, Others

LEMMA SessionsKeep ==
    ASSUME IInv, Next
    PROVE  SessionsInOrder' /\ OneCreation' /\ OneInFlight'
  BY HeadOrderKeeps, CreationsKeep DEF HeadInOrder, CreationsInOrder, SessionsInOrder

\* The request is about a stored draft, and so is its answer.
WireStored ==
    /\ request # None => request.id \in 1..Len(store)
    /\ reply # None /\ reply.ok => Stored(reply.draft) /\ reply.draft.id = request.id

CreatesStored == \A c \in creates : c.reply # None /\ c.reply.ok => Stored(c.reply.draft)

\* A stored revision is never rewritten.
LEMMA StoredStays ==
    ASSUME IInv, StoreMoves
    PROVE  /\ \A d : Stored(d) => /\ d.id \in 1..Len(store') /\ d.generation \in 1..Len(store'[d.id])
                                  /\ d.body = store'[d.id][d.generation]
           /\ \A d \in 1..Len(store) : d \in 1..Len(store')
  BY StoreGrows DEF Stored

LEMMA WireKeeps ==
    ASSUME IInv, StoreMoves,
           request' = None \/ request' = request \/ request'.id \in 1..Len(store),
           reply' = None \/ ~reply'.ok \/ (reply' = reply /\ request' = request)
    PROVE  WireStored'
  <1>1. request' # None => request'.id \in 1..Len(store')
    BY StoredStays DEF IInv, DraftsStored
  <1>2. ASSUME reply' # None, reply'.ok PROVE Stored(reply.draft)' /\ reply'.draft.id = request'.id
    <2>1. reply' = reply /\ request' = request /\ Stored(reply.draft) /\ reply.draft.id = request.id
      BY <1>2 DEF IInv, DraftsStored
    <2> QED
      BY <2>1, StoredStays DEF Stored
  <1> QED
    BY <1>1, <1>2 DEF WireStored

\* What a step puts on the wire is about a stored draft.
LEMMA NextWireStored ==
    ASSUME IInv, Next
    PROVE  WireStored'
  <1>0. StoreMoves
    BY NextMovesStore
  <1>1. ASSUME UNCHANGED wireVars PROVE WireStored'
    BY <1>0, <1>1, WireKeeps DEF wireVars
  <1>2. ASSUME Hangup PROVE WireStored'
    BY <1>0, <1>2, WireKeeps DEF Hangup
  <1>3. CASE StartCall
    <2>1. CASE DraftKnown
      <3>1. request'.id = draftId /\ reply' = None
        BY <1>3, <2>1 DEF StartCall, Send, ToolCall
      <3>2. draftId \in 1..Len(store)
        BY <2>1 DEF DraftKnown, IInv, DraftsStored
      <3> QED
        BY <1>0, <3>1, <3>2, WireKeeps
    <2>2. CASE ~DraftKnown
      BY <1>1, <1>3, <2>2 DEF StartCall
    <2> QED
      BY <2>1, <2>2
  <1>4. CASE StartHistory
    <2>1. CASE CanMove(First.direction) /\ DraftKnown
      <3>1. request'.id = draftId /\ reply' = None
        BY <1>4, <2>1 DEF StartHistory, Send, GetDraft
      <3>2. draftId \in 1..Len(store)
        BY <2>1 DEF DraftKnown, IInv, DraftsStored
      <3> QED
        BY <1>0, <3>1, <3>2, WireKeeps
    <2>2. CASE ~(CanMove(First.direction) /\ DraftKnown)
      BY <1>1, <1>4, <2>2 DEF StartHistory
    <2> QED
      BY <2>1, <2>2
  <1>5. CASE ConflictCall
    <2>1. request'.id = draftId /\ reply' = None /\ draftId # None
      BY <1>5 DEF ConflictCall, Send, GetDraft
    <2>2. draftId \in 1..Len(store)
      BY <2>1 DEF IInv, DraftsStored
    <2> QED
      BY <1>0, <2>1, <2>2, WireKeeps
  <1>6. CASE SendInverse
    <2>1. request'.id = request.id /\ reply' = None
      BY <1>6 DEF SendInverse, Send
    <2>2. request # None
      BY <1>6 DEF SendInverse, IInv, TypeOK
    <2>3. request.id \in 1..Len(store)
      BY <2>2 DEF IInv, DraftsStored
    <2> QED
      BY <1>0, <2>1, <2>3, WireKeeps
  <1>7. ASSUME NEW c \in creates, CreateAdopted(c) PROVE WireStored'
    <2>1. c.reply.draft.id \in 1..Len(store)
      BY <1>7 DEF CreateAdopted, IInv, DraftsStored, Stored
    <2>2. \/ UNCHANGED wireVars
          \/ request'.id = c.reply.draft.id /\ reply' = None
      BY <1>7 DEF CreateAdopted, Send, ToolCall, GetDraft
    <2> QED
      BY <1>0, <1>1, <2>1, <2>2, WireKeeps
  <1>8. CASE ServerReads
    <2>1. /\ request # None /\ request' = request /\ store' = store
          /\ reply' = [ok |-> TRUE, draft |-> Read(request.id)]
      BY <1>8 DEF ServerReads, Unanswered
    <2>2. request.id \in 1..Len(store)
      BY <2>1 DEF IInv, DraftsStored
    <2>3. store[request.id] \in Seq(Body) /\ store[request.id] # <<>>
      BY <2>2 DEF IInv, TypeOK, DraftsStored
    <2>4. Len(store[request.id]) \in 1..Len(store[request.id])
      BY <2>3
    <2>5. reply'.draft = [id |-> request.id, generation |-> Len(store[request.id]),
                          body |-> Last(store[request.id])]
      BY <2>1 DEF Read
    <2>6. Stored(reply.draft)' /\ reply'.draft.id = request'.id
      BY <2>1, <2>2, <2>4, <2>5 DEF Stored, Last
    <2> QED
      BY <2>1, <2>2, <2>6 DEF WireStored
  <1>9. CASE ServerRuns
    <2>1. request # None /\ request.op = "tool" /\ request' = request
      BY <1>9 DEF ServerRuns, Unanswered
    <2>2. request.id \in 1..Len(store) /\ request \in Requests
      BY <2>1 DEF IInv, DraftsStored, TypeOK
    <2> DEFINE b == Last(store[request.id])
               e == ServerApplied(b, request.command)
               d == [id |-> request.id, generation |-> request.generation + 1, body |-> e]
    <2>3. \/ ~reply'.ok
          \/ /\ request.generation = Len(store[request.id])
             /\ store' = [store EXCEPT ![request.id] = Append(@, e)]
             /\ reply' = [ok |-> TRUE, draft |-> d]
      BY <1>9 DEF ServerRuns, Refusal
    <2>4. CASE ~reply'.ok
      BY <1>0, <2>1, <2>4, WireKeeps
    <2>5. CASE /\ request.generation = Len(store[request.id])
               /\ store' = [store EXCEPT ![request.id] = Append(@, e)]
               /\ reply' = [ok |-> TRUE, draft |-> d]
      <3>1. store[request.id] \in Seq(Body) /\ store \in Seq(Seq(Body))
        BY <2>2 DEF IInv, TypeOK
      <3>2. e \in Body
        BY <2>1, <2>2, ServerTypes, MessageFacts
      <3> HIDE DEF e
      <3>3. store'[request.id] = Append(store[request.id], e) /\ Len(store') = Len(store)
        BY <2>2, <2>5, <3>1
      <3>4. /\ Len(store[request.id]) + 1 \in 1..Len(store'[request.id])
            /\ store'[request.id][Len(store[request.id]) + 1] = e
        BY <3>1, <3>2, <3>3
      <3>5. reply'.draft.id = request.id /\ reply'.draft.generation = Len(store[request.id]) + 1
            /\ reply'.draft.body = e
        BY <2>5
      <3>6. Stored(reply.draft)'
        BY <2>2, <3>3, <3>4, <3>5 DEF Stored
      <3> QED
        BY <2>1, <2>2, <3>3, <3>5, <3>6 DEF WireStored
    <2> QED
      BY <2>3, <2>4, <2>5
  <1>10. CASE LoseMessage
    <2>1. request' = request /\ ~reply'.ok
      BY <1>10 DEF LoseMessage, Refusal
    <2> QED
      BY <1>0, <2>1, WireKeeps
  <1>11. CASE FinishCall \/ FinishRefresh \/ FailCall \/ MoveUnseen \/ AbandonHistory \/ FinishHistory
    BY <1>2, <1>11 DEF FinishCall, FinishRefresh, FailCall, MoveUnseen, AbandonHistory, FinishHistory
  <1>12. ASSUME NEW c \in Commands, QueueCall(c) \/ ApplyLocal(c) PROVE WireStored'
    BY <1>1, <1>12 DEF QueueCall, ApplyLocal
  <1>13. ASSUME NEW n \in Notes, Annotate(n) PROVE WireStored'
    BY <1>1, <1>13 DEF Annotate
  <1>14. ASSUME NEW d \in {"undo", "redo"}, QueueHistory(d) PROVE WireStored'
    BY <1>1, <1>14 DEF QueueHistory
  <1>15. ASSUME NEW l \in Layers, AgentAdds(l) \/ \E d \in 1..Len(store) : OtherAdds(d, l)
         PROVE  WireStored'
    BY <1>1, <1>15 DEF AgentAdds, OtherAdds
  <1>16. ASSUME NEW c \in creates, CreateRejected(c) \/ ServerCreates(c) \/ LoseCreation(c)
         PROVE  WireStored'
    BY <1>1, <1>16 DEF CreateRejected, ServerCreates, LoseCreation
  <1>17. CASE RejectCall \/ MoveLocally \/ AttachLiveSession \/ Disable \/ AgentSetupFails \/ AcceptServerDraft
    BY <1>1, <1>17 DEF RejectCall, MoveLocally, AttachLiveSession, Disable, AgentSetupFails,
                       DetachLiveSession, AcceptServerDraft
  <1> QED
    BY <1>3, <1>4, <1>5, <1>6, <1>7, <1>8, <1>9, <1>10, <1>11, <1>12, <1>13, <1>14, <1>15, <1>16, <1>17
       DEF Next, Use, Run, Respond, Others

\* So is the draft of the session, and what the agent's tool returned.
LEMMA NextDraftStored ==
    ASSUME IInv, Next
    PROVE  /\ draftId' # None => draftId' \in 1..Len(store')
           /\ told' # None => Stored(told)'
  <1>0. /\ StoreMoves /\ draftId # None => draftId \in 1..Len(store)
    BY NextMovesStore DEF IInv, DraftsStored
  <1>1. ASSUME draftId' = draftId \/ draftId' = None, told' = told \/ told' = None
        PROVE  /\ draftId' # None => draftId' \in 1..Len(store')
               /\ told' # None => Stored(told)'
    <2>1. told # None => Stored(told)
      BY DEF IInv, DraftsStored
    <2>2. ASSUME told' = told, told # None PROVE Stored(told)'
      BY <1>0, <2>1, <2>2, NextMovesStore, StoredStays DEF Stored
    <2> QED
      BY <1>1, <2>2, NextMovesStore, StoredStays DEF IInv, DraftsStored
  <1>2. ASSUME NEW c \in creates, CreateAdopted(c)
        PROVE  /\ draftId' # None => draftId' \in 1..Len(store')
               /\ told' # None => Stored(told)'
    <2>1. Stored(c.reply.draft) /\ draftId' = c.reply.draft.id /\ told' = told /\ store' = store
      BY <1>2 DEF CreateAdopted, IInv, DraftsStored
    <2> QED
      BY <2>1 DEF IInv, DraftsStored, Stored
  <1>3. CASE AcceptServerDraft
    <2>1. Stored(told) /\ draftId' = told.id /\ told' = None /\ store' = store
      BY <1>3 DEF AcceptServerDraft, IInv, DraftsStored
    <2> QED
      BY <2>1 DEF Stored
  <1>4. ASSUME NEW l \in Layers, AgentAdds(l)
        PROVE  /\ draftId' # None => draftId' \in 1..Len(store')
               /\ told' # None => Stored(told)'
    <2>1. draftId \in 1..Len(store) /\ draftId' = draftId
      BY <1>4 DEF AgentAdds, IInv, SessionsInOrder, DraftsStored, draftVars
    <2> DEFINE b == WithLayer(Last(store[draftId]), l)
    <2>2. store' = [store EXCEPT ![draftId] = Append(@, b)]
      BY <1>4 DEF AgentAdds
    <2>3. told' = [id |-> draftId, generation |-> Len(store[draftId]) + 1, body |-> Last(store'[draftId])]
      BY <1>4 DEF AgentAdds
    <2>4. b \in Body /\ store[draftId] \in Seq(Body) /\ store \in Seq(Seq(Body))
      BY <2>1, ServerTypes DEF IInv, TypeOK
    <2> HIDE DEF b
    <2>5. store'[draftId] = Append(store[draftId], b) /\ Len(store') = Len(store)
      BY <2>1, <2>2, <2>4
    <2>6. Len(store'[draftId]) = Len(store[draftId]) + 1 /\ Len(store[draftId]) \in Nat
      BY <2>4, <2>5
    <2>7. Stored(told)'
      BY <2>1, <2>3, <2>5, <2>6 DEF Stored, Last
    <2> QED
      BY <2>1, <2>5, <2>7
  <1>5. ASSUME NEW c \in Commands, QueueCall(c) \/ ApplyLocal(c)
        PROVE  draftId' = draftId /\ told' = told
    BY <1>5 DEF QueueCall, ApplyLocal, draftVars, agentVars
  <1>6. ASSUME NEW n \in Notes, Annotate(n) PROVE draftId' = draftId /\ told' = told
    BY <1>6 DEF Annotate, draftVars, agentVars
  <1>7. ASSUME NEW d \in {"undo", "redo"}, QueueHistory(d) PROVE draftId' = draftId /\ told' = told
    BY <1>7 DEF QueueHistory, draftVars, agentVars
  <1>8. ASSUME NEW d \in 1..Len(store), NEW l \in Layers, OtherAdds(d, l)
        PROVE  draftId' = draftId /\ told' = told
    BY <1>8 DEF OtherAdds, draftVars, agentVars
  <1>9. ASSUME NEW c \in creates, CreateRejected(c) \/ ServerCreates(c) \/ LoseCreation(c)
        PROVE  draftId' = draftId /\ told' = told
    BY <1>9 DEF CreateRejected, ServerCreates, LoseCreation, draftVars, agentVars
  <1>10. CASE AttachLiveSession \/ Disable \/ AgentSetupFails
    <2>1. draftId' = None /\ told' = None
      BY <1>10 DEF AttachLiveSession, Disable, AgentSetupFails, DetachLiveSession
    <2> QED
      BY <1>1, <2>1
  <1>11. CASE RejectCall \/ StartCall \/ FinishCall \/ ConflictCall \/ FinishRefresh \/ FailCall
    <2>1. draftId' = draftId /\ told' = told
      BY <1>11 DEF RejectCall, StartCall, FinishCall, ConflictCall, FinishRefresh, FailCall,
                   draftVars, agentVars
    <2> QED
      BY <1>1, <2>1
  <1>12. CASE MoveLocally \/ StartHistory \/ MoveUnseen \/ SendInverse \/ AbandonHistory \/ FinishHistory
    <2>1. draftId' = draftId /\ told' = told
      BY <1>12 DEF MoveLocally, StartHistory, MoveUnseen, SendInverse, AbandonHistory, FinishHistory,
                   draftVars, agentVars
    <2> QED
      BY <1>1, <2>1
  <1>13. CASE ServerReads \/ ServerRuns \/ LoseMessage
    <2>1. draftId' = draftId /\ told' = told
      BY <1>13 DEF ServerReads, ServerRuns, LoseMessage, draftVars, agentVars
    <2> QED
      BY <1>1, <2>1
  <1> QED
    BY <1>1, <1>2, <1>3, <1>4, <1>5, <1>6, <1>7, <1>8, <1>9, <1>10, <1>11, <1>12, <1>13
       DEF Next, Use, Run, Respond, Others

\* What a step answers to a creation is a stored draft.
LEMMA NextCreatesStored ==
    ASSUME IInv, Next
    PROVE  CreatesStored'
  <1>0. StoreMoves
    BY NextMovesStore
  <1>1. ASSUME NEW e \in creates, e.reply # None, e.reply.ok PROVE Stored(e.reply.draft)'
    <2>1. Stored(e.reply.draft)
      BY <1>1 DEF IInv, DraftsStored
    <2> QED
      BY <1>0, <2>1, StoredStays DEF Stored
  <1>2. ASSUME \A e \in creates' : e \in creates \/ e.reply = None \/ ~e.reply.ok
        PROVE  CreatesStored'
    BY <1>1, <1>2 DEF CreatesStored
  <1>3. ASSUME UNCHANGED creationVars \/ EnsureDraft PROVE CreatesStored'
    <2>1. Creation(live, Screen).reply = None
      BY DEF Creation
    <2> QED
      BY <1>2, <1>3, <2>1 DEF EnsureDraft, creationVars
  <1>4. CASE StartCall \/ StartHistory
    BY <1>3, <1>4 DEF StartCall, StartHistory
  <1>5. CASE AttachLiveSession
    <2>1. Creation(live', Screen).reply = None
      BY DEF Creation
    <2> QED
      BY <1>2, <1>5, <2>1 DEF AttachLiveSession
  <1>6. CASE Disable \/ AgentSetupFails
    BY <1>2, <1>6 DEF Disable, AgentSetupFails, DetachLiveSession
  <1>7. ASSUME NEW c \in creates, CreateAdopted(c) \/ CreateRejected(c) PROVE CreatesStored'
    BY <1>2, <1>7 DEF CreateAdopted, CreateRejected
  <1>8. ASSUME NEW c \in creates, LoseCreation(c) PROVE CreatesStored'
    <2>1. ~[c EXCEPT !.reply = Refusal(FALSE)].reply.ok
      BY DEF IInv, TypeOK, Creations, Refusal
    <2> QED
      BY <1>2, <1>8, <2>1 DEF LoseCreation
  <1>9. ASSUME NEW c \in creates, ServerCreates(c) PROVE CreatesStored'
    <2>a. PICK d : d = [id |-> Len(store) + 1, generation |-> 1, body |-> c.body]
      OBVIOUS
    <2>b. PICK e : e = [c EXCEPT !.reply = [ok |-> TRUE, draft |-> d]]
      OBVIOUS
    <2>1. creates' = (creates \ {c}) \union {e} /\ store' = Append(store, <<c.body>>)
      BY <1>9, <2>a, <2>b DEF ServerCreates
    <2>2. e.reply.draft = d
      BY <2>b DEF IInv, TypeOK, Creations
    <2>3. store \in Seq(Seq(Body)) /\ c.body \in Body /\ <<c.body>> \in Seq(Body)
      BY CreationFacts DEF IInv, TypeOK
    <2>4. /\ Len(store) + 1 \in 1..Len(store') /\ store'[Len(store) + 1] = <<c.body>>
          /\ 1 \in 1..Len(<<c.body>>) /\ <<c.body>>[1] = c.body
      BY <2>1, <2>3
    <2>5. Stored(d)'
      BY <2>a, <2>4 DEF Stored
    <2>6. Stored(e.reply.draft)'
      BY <2>2, <2>5 DEF Stored
    <2> QED
      BY <1>1, <2>1, <2>6 DEF CreatesStored
  <1>10. ASSUME NEW c \in Commands, QueueCall(c) \/ ApplyLocal(c) PROVE CreatesStored'
    BY <1>3, <1>10 DEF QueueCall, ApplyLocal
  <1>11. ASSUME NEW n \in Notes, Annotate(n) PROVE CreatesStored'
    BY <1>3, <1>11 DEF Annotate
  <1>12. ASSUME NEW d \in {"undo", "redo"}, QueueHistory(d) PROVE CreatesStored'
    BY <1>3, <1>12 DEF QueueHistory
  <1>13. ASSUME NEW l \in Layers, AgentAdds(l) \/ \E d \in 1..Len(store) : OtherAdds(d, l)
         PROVE  CreatesStored'
    BY <1>3, <1>13 DEF AgentAdds, OtherAdds
  <1>14. CASE RejectCall \/ FinishCall \/ ConflictCall \/ FinishRefresh \/ FailCall \/ MoveLocally
    BY <1>3, <1>14 DEF RejectCall, FinishCall, ConflictCall, FinishRefresh, FailCall, MoveLocally
  <1>15. CASE MoveUnseen \/ SendInverse \/ AbandonHistory \/ FinishHistory \/ AcceptServerDraft
    BY <1>3, <1>15 DEF MoveUnseen, SendInverse, AbandonHistory, FinishHistory, AcceptServerDraft
  <1>16. CASE ServerReads \/ ServerRuns \/ LoseMessage
    BY <1>3, <1>16 DEF ServerReads, ServerRuns, LoseMessage
  <1> QED
    BY <1>4, <1>5, <1>6, <1>7, <1>8, <1>9, <1>10, <1>11, <1>12, <1>13, <1>14, <1>15, <1>16
       DEF Next, Use, Run, Respond, Others

LEMMA DraftsKeep ==
    ASSUME IInv, Next
    PROVE  DraftsStored'
  <1>1. \A d \in 1..Len(store') : store'[d] # <<>>
    BY NextMovesStore, StoreGrows
  <1> QED
    BY <1>1, NextWireStored, NextDraftStored, NextCreatesStored
       DEF DraftsStored, WireStored, CreatesStored

-----------------------------------------------------------------------------
(* Calls *)

Sent == {"calling", "refreshing"}

\* What a step does to the calls: nothing; one is asked; a history action is; the
\* head leaves, alone or for the controls that waited; the head is sent; a call
\* is applied here; the controls that waited are.
CallsRest ==
    /\ UNCHANGED <<queue, deferred, tries>> /\ used'["call"] = used["call"]
    /\ stage \in Sent => stage' \in Sent

CallAsked ==
    /\ UNCHANGED <<tries, stage>>
    /\ used'["call"] = used["call"] + 1 /\ used["call"] + 1 <= Budget["call"]
    /\ \E c \in Commands :
         \/ queue' = Append(queue, Call(used["call"] + 1, c)) /\ deferred' = deferred
         \/ queue' = queue /\ deferred' = Append(deferred, Call(used["call"] + 1, c))

HistoryAsked ==
    /\ UNCHANGED <<tries, stage, deferred>> /\ used'["call"] = used["call"]
    /\ \E d \in {"undo", "redo"} : queue' = Append(queue, History(d))

HeadLeft ==
    /\ UNCHANGED <<tries, deferred>> /\ used'["call"] = used["call"]
    /\ queue # <<>> /\ queue' = Tail(queue) /\ stage' = "idle"

HeadFlushed ==
    /\ UNCHANGED tries /\ used'["call"] = used["call"]
    /\ queue # <<>> /\ stage' = "idle"
    /\ \E s : /\ queue' = Ready(deferred, s) \o Tail(queue)
              /\ deferred' = Waiting(deferred, s)

HeadSent ==
    /\ UNCHANGED <<queue, deferred>> /\ used'["call"] = used["call"]
    /\ queue # <<>> /\ First.kind = "call" /\ stage \notin Sent /\ stage' = "calling"
    /\ Tried(First.id)

CallApplied ==
    /\ UNCHANGED <<queue, deferred, stage>>
    /\ used'["call"] = used["call"] + 1 /\ used["call"] + 1 <= Budget["call"]
    /\ Tried(used["call"] + 1)

CallsLanded ==
    /\ UNCHANGED <<queue, stage>> /\ used'["call"] = used["call"]
    /\ deferred' = <<>>
    /\ tries' = [id \in DOMAIN tries |->
                   IF \E i \in DOMAIN deferred : deferred[i].id = id THEN tries[id] + 1 ELSE tries[id]]

CallsMove ==
    \/ CallsRest \/ CallAsked \/ HistoryAsked \/ HeadLeft \/ HeadFlushed \/ HeadSent \/ CallApplied
    \/ CallsLanded

\* A step leaves the calls alone, or moves them in one of these ways.
LEMMA NextMovesCalls ==
    ASSUME IInv, Next
    PROVE  CallsMove
  <1>0. /\ used \in [Operations -> Nat] /\ "call" \in Operations
        /\ {"history", "session", "disturbance"} \subseteq Operations \ {"call"}
        /\ stage # "idle" => queue # <<>>
    BY DEF IInv, TypeOK, Operations, StageMatchesHead
  <1>1. ASSUME UNCHANGED <<queueVars, deferred, tries>>, used'["call"] = used["call"] PROVE CallsMove
    BY <1>1 DEF CallsMove, CallsRest, queueVars
  <1>2. ASSUME NEW op \in Operations \ {"call"}, Spend(op) PROVE used'["call"] = used["call"]
    BY <1>0, <1>2, SpendType
  <1>3. ASSUME NEW c \in Commands, QueueCall(c) PROVE CallsMove
    <2>1. used'["call"] = used["call"] + 1 /\ used["call"] + 1 <= Budget["call"]
      BY <1>0, <1>3, SpendType DEF QueueCall
    <2>2. \/ queue' = Append(queue, Call(used["call"] + 1, c)) /\ deferred' = deferred
          \/ queue' = queue /\ deferred' = Append(deferred, Call(used["call"] + 1, c))
      BY <1>3, <2>1 DEF QueueCall
    <2>3. UNCHANGED <<tries, stage>>
      BY <1>3 DEF QueueCall
    <2> QED
      BY <2>1, <2>2, <2>3 DEF CallsMove, CallAsked
  <1>4. ASSUME NEW c \in Commands, ApplyLocal(c) PROVE CallsMove
    <2>1. used'["call"] = used["call"] + 1 /\ used["call"] + 1 <= Budget["call"]
      BY <1>0, <1>4, SpendType DEF ApplyLocal
    <2>2. UNCHANGED <<queue, deferred, stage>> /\ Tried(used["call"] + 1)
      BY <1>4, <2>1 DEF ApplyLocal, queueVars, Tried
    <2> QED
      BY <2>1, <2>2 DEF CallsMove, CallApplied
  <1>5. ASSUME NEW d \in {"undo", "redo"}, QueueHistory(d) PROVE CallsMove
    <2>1. used'["call"] = used["call"] /\ UNCHANGED <<tries, stage, deferred>>
          /\ queue' = Append(queue, History(d))
      BY <1>0, <1>2, <1>5 DEF QueueHistory
    <2> QED
      BY <2>1 DEF CallsMove, HistoryAsked
  <1>6. CASE RejectCall \/ FinishRefresh \/ FailCall \/ MoveLocally \/ MoveUnseen \/ AbandonHistory
             \/ FinishHistory
    <2>1. Leave /\ UNCHANGED <<tries, deferred, used>>
      BY <1>6 DEF RejectCall, FinishRefresh, FailCall, MoveLocally, MoveUnseen, AbandonHistory,
                  FinishHistory
    <2>2. queue # <<>>
      BY <1>0, <1>6 DEF RejectCall, FinishRefresh, FailCall, MoveLocally, MoveUnseen, AbandonHistory,
                        FinishHistory, IdleCall, IdleHistory, Idle
    <2> QED
      BY <2>1, <2>2 DEF Leave, CallsMove, HeadLeft
  <1>7. CASE StartCall
    <2>1. CASE DraftKnown
      BY <1>7, <2>1 DEF StartCall, IdleCall, Idle, Await, Sent, CallsMove, HeadSent
    <2>2. CASE ~DraftKnown
      BY <1>7, <2>2 DEF StartCall, IdleCall, Idle, Await, Sent, CallsMove, CallsRest
    <2> QED
      BY <2>1, <2>2
  <1>8. CASE FinishCall
    <2>1. /\ queue # <<>> /\ stage' = "idle" /\ UNCHANGED <<tries, used>>
          /\ \/ queue' = Tail(queue) /\ deferred' = deferred
             \/ /\ queue' = Ready(deferred, Last(undo')) \o Tail(queue)
                /\ deferred' = Waiting(deferred, Last(undo'))
      BY <1>0, <1>8 DEF FinishCall
    <2> QED
      BY <2>1 DEF CallsMove, HeadLeft, HeadFlushed
  <1>9. CASE ConflictCall
    BY <1>9 DEF ConflictCall, Await, Sent, CallsMove, CallsRest
  <1>10. CASE StartHistory
    <2>1. CASE CanMove(First.direction)
      <3>1. stage = "idle" /\ queue' = queue /\ UNCHANGED <<tries, deferred, used>>
        BY <1>10, <2>1 DEF StartHistory, IdleHistory, Idle, Await
      <3> QED
        BY <3>1 DEF Sent, CallsMove, CallsRest
    <2>2. CASE ~CanMove(First.direction)
      BY <1>10, <2>2 DEF StartHistory, IdleHistory, Idle, Leave, CallsMove, HeadLeft
    <2> QED
      BY <2>1, <2>2
  <1>11. CASE SendInverse
    BY <1>11 DEF SendInverse, Await, Sent, CallsMove, CallsRest
  <1>12. ASSUME NEW c \in creates, CreateAdopted(c) PROVE CallsMove
    <2>0. UNCHANGED <<deferred, used>>
      BY <1>12 DEF CreateAdopted
    <2>1. CASE stage = "creating" /\ action.session = c.session /\ First.kind = "call"
      <3>1. queue' = queue /\ stage' = "calling" /\ Tried(First.id)
        BY <1>12, <2>1 DEF CreateAdopted, Await
      <3> QED
        BY <1>0, <2>0, <2>1, <3>1 DEF Sent, CallsMove, HeadSent
    <2>2. CASE stage = "creating" /\ action.session = c.session /\ First.kind # "call"
      <3>1. queue' = queue /\ tries' = tries
        BY <1>12, <2>2 DEF CreateAdopted, Await
      <3> QED
        BY <2>0, <2>2, <3>1 DEF Sent, CallsMove, CallsRest
    <2>3. CASE ~(stage = "creating" /\ action.session = c.session)
      <3>1. UNCHANGED <<queueVars, tries>>
        BY <1>12, <2>3 DEF CreateAdopted
      <3> QED
        BY <1>1, <2>0, <3>1
    <2> QED
      BY <2>1, <2>2, <2>3
  <1>13. ASSUME NEW c \in creates, CreateRejected(c) PROVE CallsMove
    <2>0. UNCHANGED <<deferred, tries, used>>
      BY <1>13 DEF CreateRejected
    <2>1. CASE stage = "creating" /\ action.session = c.session
      <3>1. Leave /\ queue # <<>>
        BY <1>0, <1>13, <2>1 DEF CreateRejected
      <3> QED
        BY <2>0, <3>1 DEF Leave, CallsMove, HeadLeft
    <2>2. CASE ~(stage = "creating" /\ action.session = c.session)
      <3>1. UNCHANGED queueVars
        BY <1>13, <2>2 DEF CreateRejected
      <3> QED
        BY <1>1, <2>0, <3>1
    <2> QED
      BY <2>1, <2>2
  <1>14. CASE Disable \/ AgentSetupFails
    <2>1. DetachLiveSession
      BY <1>14 DEF Disable, AgentSetupFails
    <2>2. used'["call"] = used["call"]
      BY <1>0, <1>2, <1>14 DEF Disable, AgentSetupFails
    <2> QED
      BY <2>1, <2>2 DEF DetachLiveSession, queueVars, CallsMove, CallsLanded
  <1>15. CASE AttachLiveSession
    BY <1>0, <1>1, <1>2, <1>15 DEF AttachLiveSession
  <1>16. ASSUME NEW n \in Notes, Annotate(n) PROVE CallsMove
    BY <1>0, <1>1, <1>2, <1>16 DEF Annotate
  <1>17. ASSUME NEW l \in Layers, AgentAdds(l) PROVE CallsMove
    BY <1>0, <1>1, <1>2, <1>17 DEF AgentAdds
  <1>18. ASSUME NEW d \in 1..Len(store), NEW l \in Layers, OtherAdds(d, l) PROVE CallsMove
    BY <1>0, <1>1, <1>2, <1>18 DEF OtherAdds
  <1>19. ASSUME NEW c \in creates, ServerCreates(c) \/ LoseCreation(c) PROVE CallsMove
    BY <1>0, <1>1, <1>2, <1>19 DEF ServerCreates, LoseCreation
  <1>20. CASE AcceptServerDraft \/ ServerReads \/ ServerRuns \/ LoseMessage
    BY <1>0, <1>1, <1>2, <1>20 DEF AcceptServerDraft, ServerReads, ServerRuns, LoseMessage
  <1> QED
    BY <1>3, <1>4, <1>5, <1>6, <1>7, <1>8, <1>9, <1>10, <1>11, <1>12, <1>13, <1>14, <1>15, <1>16, <1>17,
       <1>18, <1>19, <1>20 DEF Next, Use, Run, Respond, Others

CallParts == CallsNumbered /\ WaitingUntried /\ TriedOnce

\* The calls are tried as numbered; a number not given yet is nobody's.
LEMMA CallFacts ==
    ASSUME IInv
    PROVE  /\ used["call"] \in Nat /\ Budget["call"] \in Nat /\ used["call"] <= Budget["call"]
           /\ queue \in Seq(Tasks) /\ deferred \in Seq(Calls)
           /\ tries \in [1..Budget["call"] -> Nat]
           /\ \A i \in 1..Len(queue) :
                IsCall(i) => queue[i].id \in 1..used["call"] /\ queue[i].id \in DOMAIN tries
           /\ \A i \in 1..Len(deferred) :
                deferred[i].id \in 1..used["call"] /\ deferred[i].id \in DOMAIN tries
  BY BudgetAssumption, SMTT(30) DEF IInv, TypeOK, CallsNumbered, Operations

\* One call is tried for the first time.
LEMMA TriedFact ==
    ASSUME IInv, NEW id \in DOMAIN tries, tries[id] = 0, Tried(id)
    PROVE  /\ DOMAIN tries' = DOMAIN tries /\ tries'[id] = 1
           /\ \A j \in DOMAIN tries : j # id => tries'[j] = tries[j]
           /\ TriedOnce'
  <1>1. tries \in [1..Budget["call"] -> Nat] /\ tries' = [tries EXCEPT ![id] = @ + 1]
    BY DEF IInv, TypeOK, Tried
  <1>2. /\ DOMAIN tries' = DOMAIN tries /\ tries'[id] = 1
        /\ \A j \in DOMAIN tries : j # id => tries'[j] = tries[j]
    BY <1>1
  <1> QED
    BY <1>2 DEF IInv, TriedOnce

\* The host asks for a call, with a number of its own.
LEMMA AskedKeeps ==
    ASSUME IInv, CallAsked
    PROVE  CallParts'
  <1>0. PICK u \in Nat : u = used["call"]
    BY CallFacts
  <1>1. PICK c \in Commands :
          \/ queue' = Append(queue, Call(u + 1, c)) /\ deferred' = deferred
          \/ queue' = queue /\ deferred' = Append(deferred, Call(u + 1, c))
    BY <1>0 DEF CallAsked
  <1>2. PICK t : t = Call(u + 1, c)
    OBVIOUS
  <1>3. t \in Calls /\ t \in Tasks /\ t.kind = "call" /\ t.id = u + 1
    BY <1>0, <1>2, TaskFacts DEF Call
  <1>4. /\ tries' = tries /\ stage' = stage /\ used'["call"] = u + 1 /\ u + 1 <= Budget["call"]
    BY <1>0 DEF CallAsked
  <1>a. /\ \A i \in 1..Len(queue) : queue[i].kind = "call" => queue[i].id \in 1..u
        /\ \A i \in 1..Len(deferred) : deferred[i].id \in 1..u
        /\ \A i, j \in 1..Len(queue) : queue[i].kind = "call" /\ queue[j].kind = "call"
                                        /\ queue[i].id = queue[j].id => i = j
        /\ \A i, j \in 1..Len(deferred) : deferred[i].id = deferred[j].id => i = j
        /\ \A i \in 1..Len(queue), j \in 1..Len(deferred) :
             queue[i].kind = "call" => queue[i].id # deferred[j].id
    BY <1>0 DEF IInv, CallsNumbered, IsCall
  <1>b. \A id \in 1..u : id \in 1..u + 1 /\ id # u + 1
    BY <1>0
  <1>c. u + 1 \in 1..u + 1
    BY <1>0
  <1>5. tries[u + 1] = 0
    <2>1. u + 1 \in DOMAIN tries /\ u + 1 > used["call"]
      BY <1>0, <1>4, CallFacts
    <2> QED
      BY <2>1 DEF IInv, WaitingUntried
  <1>6. TriedOnce'
    BY <1>4 DEF IInv, TriedOnce
  <1>7. \A id \in DOMAIN tries' : id > used'["call"] => tries'[id] = 0
    <2>1. \A id \in DOMAIN tries : id > u + 1 => id > u
      BY <1>0, CallFacts
    <2> QED
      BY <1>0, <1>4, <2>1 DEF IInv, WaitingUntried
  <1>8. CASE queue' = Append(queue, t) /\ deferred' = deferred
    <2>1. /\ Len(queue') = Len(queue) + 1 /\ Len(queue) \in Nat /\ queue'[Len(queue) + 1] = t
          /\ \A i \in 1..Len(queue) : queue'[i] = queue[i]
      BY <1>3, <1>8, CallFacts
    <2>2. \A i \in 1..Len(queue') : i \in 1..Len(queue) \/ i = Len(queue) + 1
      BY <2>1
    <2>3. \A i \in 1..Len(queue) : i \in 1..Len(queue') /\ i # Len(queue) + 1
      BY <2>1
    <2>5. CallsNumbered'
      <3>1. \A i \in 1..Len(queue') : queue'[i].kind = "call" => queue'[i].id \in 1..u + 1
        BY <1>3, <1>a, <1>b, <1>c, <2>1, <2>2
      <3>2. \A i \in 1..Len(deferred') : deferred'[i].id \in 1..u + 1
        BY <1>8, <1>a, <1>b
      <3>3. \A i, j \in 1..Len(queue') : queue'[i].kind = "call" /\ queue'[j].kind = "call"
                                         /\ queue'[i].id = queue'[j].id => i = j
        BY <1>3, <1>a, <1>b, <2>1, <2>2
      <3>4. \A i, j \in 1..Len(deferred') : deferred'[i].id = deferred'[j].id => i = j
        BY <1>8, <1>a
      <3>5. \A i \in 1..Len(queue'), j \in 1..Len(deferred') :
              queue'[i].kind = "call" => queue'[i].id # deferred'[j].id
        BY <1>3, <1>8, <1>a, <1>b, <2>1, <2>2
      <3> QED
        BY <1>4, <3>1, <3>2, <3>3, <3>4, <3>5 DEF CallsNumbered, IsCall
    <2>6. WaitingUntried'
      BY <1>3, <1>4, <1>5, <1>7, <1>8, <2>1, <2>2 DEF IInv, WaitingUntried, IsCall
    <2> QED
      BY <1>6, <2>5, <2>6 DEF CallParts
  <1>9. CASE queue' = queue /\ deferred' = Append(deferred, t)
    <2>1. /\ Len(deferred') = Len(deferred) + 1 /\ Len(deferred) \in Nat
          /\ deferred'[Len(deferred) + 1] = t
          /\ \A i \in 1..Len(deferred) : deferred'[i] = deferred[i]
      BY <1>3, <1>9, CallFacts
    <2>2. \A i \in 1..Len(deferred') : i \in 1..Len(deferred) \/ i = Len(deferred) + 1
      BY <2>1
    <2>5. CallsNumbered'
      <3>1. \A i \in 1..Len(queue') : queue'[i].kind = "call" => queue'[i].id \in 1..u + 1
        BY <1>9, <1>a, <1>b
      <3>2. \A i \in 1..Len(deferred') : deferred'[i].id \in 1..u + 1
        BY <1>3, <1>a, <1>b, <1>c, <2>1, <2>2
      <3>3. \A i, j \in 1..Len(queue') : queue'[i].kind = "call" /\ queue'[j].kind = "call"
                                         /\ queue'[i].id = queue'[j].id => i = j
        BY <1>9, <1>a
      <3>4. ASSUME NEW i \in 1..Len(deferred'), NEW j \in 1..Len(deferred'),
                   deferred'[i].id = deferred'[j].id
            PROVE  i = j
        <4>1. deferred'[Len(deferred) + 1].id = u + 1
          BY <1>3, <2>1
        <4>2. \A k \in 1..Len(deferred) : deferred'[k].id # u + 1
          BY <1>a, <1>b, <2>1
        <4>3. CASE i \in 1..Len(deferred) /\ j \in 1..Len(deferred)
          BY <1>a, <2>1, <3>4, <4>3
        <4> QED
          BY <2>2, <3>4, <4>1, <4>2, <4>3
      <3>5. \A i \in 1..Len(queue'), j \in 1..Len(deferred') :
              queue'[i].kind = "call" => queue'[i].id # deferred'[j].id
        BY <1>3, <1>9, <1>a, <1>b, <2>1, <2>2
      <3> QED
        BY <1>4, <3>1, <3>2, <3>3, <3>4, <3>5 DEF CallsNumbered, IsCall
    <2>6. WaitingUntried'
      BY <1>3, <1>4, <1>5, <1>7, <1>9, <2>1, <2>2 DEF IInv, WaitingUntried, IsCall
    <2> QED
      BY <1>6, <2>5, <2>6 DEF CallParts
  <1> QED
    BY <1>1, <1>2, <1>8, <1>9

\* The head leaves, and controls that waited may take its place.
LEMMA FlushedKeeps ==
    ASSUME IInv, queue # <<>>, stage' = "idle", tries' = tries, used'["call"] = used["call"],
           NEW r \in Seq(Calls), NEW w \in Seq(Calls),
           queue' = r \o Tail(queue), deferred' = w,
           \A i \in 1..Len(r) : \E k \in 1..Len(deferred) : r[i] = deferred[k],
           \A i \in 1..Len(w) : \E k \in 1..Len(deferred) : w[i] = deferred[k],
           Distinct(r), Distinct(w),
           \A i \in 1..Len(r), j \in 1..Len(w) : r[i].id # w[j].id
    PROVE  CallParts'
  <1> DEFINE rest == Tail(queue)
             R == Len(r)
             M == Len(queue)
  <1>1. /\ rest \in Seq(Tasks) /\ Len(rest) = M - 1 /\ M \in Nat /\ R \in Nat
        /\ \A i \in 1..M - 1 : i + 1 \in 1..M /\ i + 1 # 1 /\ rest[i] = queue[i + 1]
    BY CallFacts
  <1>2. r \in Seq(Tasks) /\ \A i \in 1..R : r[i] \in Calls /\ r[i].kind = "call"
    BY TaskFacts
  <1> HIDE DEF rest
  <1>3. /\ Len(queue') = R + (M - 1)
        /\ \A i \in 1..R : queue'[i] = r[i]
        /\ \A i \in 1..Len(queue') : i \notin 1..R => i - R \in 1..M - 1 /\ queue'[i] = rest[i - R]
    BY <1>1, <1>2 DEF rest
  <1>4. \A i \in 1..Len(queue') : i \notin 1..R
          => i - R + 1 \in 1..M /\ i - R + 1 # 1 /\ queue'[i] = queue[i - R + 1]
    BY <1>1, <1>3
  <1>5. \A i \in 1..Len(queue') : i \notin 1..R
          => \E k \in 1..M : k # 1 /\ k = i - R + 1 /\ queue'[i] = queue[k]
    BY <1>4
  <1>6. \A i \in 1..R : \E k \in 1..Len(deferred) : r[i] = deferred[k]
    OBVIOUS
  <1>a. /\ \A i \in 1..M : queue[i].kind = "call" => queue[i].id \in 1..used["call"]
        /\ \A i \in 1..Len(deferred) : deferred[i].id \in 1..used["call"]
        /\ \A i, j \in 1..M : queue[i].kind = "call" /\ queue[j].kind = "call"
                              /\ queue[i].id = queue[j].id => i = j
        /\ \A i \in 1..M, j \in 1..Len(deferred) :
             queue[i].kind = "call" => queue[i].id # deferred[j].id
        /\ \A i \in 1..M : queue[i].kind = "call" /\ i # 1 => tries[queue[i].id] = 0
        /\ \A i \in 1..Len(deferred) : tries[deferred[i].id] = 0
    BY DEF IInv, CallsNumbered, WaitingUntried, IsCall
  <1>b. /\ \A i, j \in 1..R : r[i].id = r[j].id => i = j
        /\ \A i \in 1..R, j \in 1..Len(w) : r[i].id # w[j].id
    BY DEF Distinct
  <1>c. \A i \in 1..Len(queue') : i \in 1..R => queue'[i] = r[i]
    BY <1>3
  <1> HIDE DEF R, M
  <1>7. CallsNumbered'
    <2>1. ASSUME NEW i \in 1..Len(queue'), queue'[i].kind = "call"
          PROVE  queue'[i].id \in 1..used["call"]
      <3>1. CASE i \in 1..R
        BY <1>6, <1>a, <1>c, <3>1, SMTT(30)
      <3>2. CASE i \notin 1..R
        BY <1>5, <1>a, <2>1, <3>2
      <3> QED
        BY <3>1, <3>2
    <2>2. \A i \in 1..Len(deferred') : deferred'[i].id \in 1..used["call"]
      BY <1>a
    <2>3. ASSUME NEW i \in 1..Len(queue'), NEW j \in 1..Len(queue'),
                 queue'[i].kind = "call", queue'[j].kind = "call", queue'[i].id = queue'[j].id
          PROVE  i = j
      <3>1. CASE i \in 1..R /\ j \in 1..R
        BY <1>b, <1>c, <2>3, <3>1
      <3>2. CASE i \in 1..R /\ j \notin 1..R
        <4>1. i \in 1..R /\ j \notin 1..R /\ queue'[i] = r[i]
          BY <1>c, <3>2
        <4>2. PICK k \in 1..Len(deferred) : r[i] = deferred[k]
          BY <1>6, <4>1
        <4>3. PICK m \in 1..M : queue'[j] = queue[m]
          BY <1>5, <4>1
        <4>4. queue[m].kind = "call" /\ queue[m].id = deferred[k].id
          BY <2>3, <4>1, <4>2, <4>3
        <4> QED
          BY <1>a, <4>4
      <3>3. CASE i \notin 1..R /\ j \in 1..R
        <4>1. j \in 1..R /\ i \notin 1..R /\ queue'[j] = r[j]
          BY <1>c, <3>3
        <4>2. PICK k \in 1..Len(deferred) : r[j] = deferred[k]
          BY <1>6, <4>1
        <4>3. PICK m \in 1..M : queue'[i] = queue[m]
          BY <1>5, <4>1
        <4>4. queue[m].kind = "call" /\ queue[m].id = deferred[k].id
          BY <2>3, <4>1, <4>2, <4>3
        <4> QED
          BY <1>a, <4>4
      <3>4. CASE i \notin 1..R /\ j \notin 1..R
        <4>1. PICK k \in 1..M : k = i - R + 1 /\ queue'[i] = queue[k]
          BY <1>5, <3>4
        <4>2. PICK m \in 1..M : m = j - R + 1 /\ queue'[j] = queue[m]
          BY <1>5, <3>4
        <4>3. k = m
          <5>1. /\ queue[k].kind = "call" /\ queue[m].kind = "call"
                /\ queue[k].id = queue[m].id
            BY <2>3, <4>1, <4>2
          <5> QED
            BY <1>a, <5>1
        <4>4. i \in Int /\ j \in Int /\ R \in Nat
          BY <1>1
        <4> QED
          BY <4>1, <4>2, <4>3, <4>4
      <3> QED
        BY <3>1, <3>2, <3>3, <3>4
    <2>4. \A i, j \in 1..Len(deferred') : deferred'[i].id = deferred'[j].id => i = j
      BY DEF Distinct
    <2>5. ASSUME NEW i \in 1..Len(queue'), NEW j \in 1..Len(deferred'), queue'[i].kind = "call"
          PROVE  queue'[i].id # deferred'[j].id
      <3>1. CASE i \in 1..R
        BY <1>b, <1>c, <3>1
      <3>2. CASE i \notin 1..R
        <4>1. PICK m \in 1..M : queue'[i] = queue[m]
          BY <1>5, <3>2
        <4>2. PICK k \in 1..Len(deferred) : deferred'[j] = deferred[k]
          OBVIOUS
        <4> QED
          BY <1>a, <2>5, <4>1, <4>2, SMTT(30)
      <3> QED
        BY <3>1, <3>2
    <2> QED
      BY <2>1, <2>2, <2>3, <2>4, <2>5 DEF IInv, CallsNumbered, IsCall
  <1>8. WaitingUntried'
    <2>1. ASSUME NEW i \in 1..Len(queue'), queue'[i].kind = "call" PROVE tries[queue'[i].id] = 0
      <3>1. CASE i \in 1..R
        <4>1. PICK k \in 1..Len(deferred) : queue'[i] = deferred[k]
          BY <1>6, <1>c, <3>1
        <4> QED
          BY <1>a, <4>1
      <3>2. CASE i \notin 1..R
        <4>1. PICK m \in 1..M : m # 1 /\ queue'[i] = queue[m]
          BY <1>5, <3>2
        <4> QED
          BY <1>a, <2>1, <4>1
      <3> QED
        BY <3>1, <3>2
    <2>2. ASSUME NEW i \in 1..Len(deferred') PROVE tries[deferred'[i].id] = 0
      <3>1. PICK k \in 1..Len(deferred) : deferred'[i] = deferred[k]
        OBVIOUS
      <3> QED
        BY <1>a, <3>1
    <2> QED
      BY <2>1, <2>2 DEF IInv, WaitingUntried, IsCall
  <1> QED
    BY <1>7, <1>8 DEF IInv, TriedOnce, CallParts

\* The head is sent to the server.
LEMMA SentKeeps ==
    ASSUME IInv, HeadSent
    PROVE  CallParts'
  <1>1. 1 \in 1..Len(queue) /\ IsCall(1) /\ First = queue[1] /\ First.id \in DOMAIN tries
    BY HeadFacts, CallFacts DEF HeadSent, IsCall
  <1>2. tries[First.id] = 0 /\ First.id <= used["call"]
    BY <1>1, CallFacts DEF HeadSent, Sent, IInv, WaitingUntried
  <1>3. /\ DOMAIN tries' = DOMAIN tries /\ TriedOnce'
        /\ \A j \in DOMAIN tries : j # First.id => tries'[j] = tries[j]
    BY <1>1, <1>2, TriedFact DEF HeadSent
  <1>4. queue' = queue /\ deferred' = deferred /\ used'["call"] = used["call"] /\ stage' = "calling"
    BY DEF HeadSent
  <1>5. CallsNumbered'
    BY <1>4 DEF IInv, CallsNumbered, IsCall
  <1>6. WaitingUntried'
    <2>1. ASSUME NEW i \in 1..Len(queue), IsCall(i), i # 1 PROVE tries'[queue[i].id] = 0
      <3>1. queue[i].id # First.id /\ queue[i].id \in DOMAIN tries
        BY <1>1, <2>1, CallFacts DEF IInv, CallsNumbered
      <3>2. tries[queue[i].id] = 0
        BY <2>1 DEF IInv, WaitingUntried
      <3> QED
        BY <1>3, <3>1, <3>2
    <2>2. ASSUME NEW i \in 1..Len(deferred) PROVE tries'[deferred[i].id] = 0
      <3>1. deferred[i].id # First.id /\ deferred[i].id \in DOMAIN tries
        BY <1>1, CallFacts DEF IInv, CallsNumbered
      <3>2. tries[deferred[i].id] = 0
        BY DEF IInv, WaitingUntried
      <3> QED
        BY <1>3, <3>1, <3>2
    <2>3. ASSUME NEW id \in DOMAIN tries, id > used["call"] PROVE tries'[id] = 0
      <3>1. id # First.id
        BY <1>1, <1>2, <2>3, CallFacts
      <3>2. tries[id] = 0
        BY <2>3 DEF IInv, WaitingUntried
      <3> QED
        BY <1>3, <3>1, <3>2
    <2> QED
      BY <1>3, <1>4, <2>1, <2>2, <2>3 DEF WaitingUntried, IsCall
  <1> QED
    BY <1>3, <1>5, <1>6 DEF CallParts

\* A call is applied to the composition here.
LEMMA AppliedKeeps ==
    ASSUME IInv, CallApplied
    PROVE  CallParts'
  <1>0. PICK u \in Nat : u = used["call"]
    BY CallFacts
  <1>1. /\ queue' = queue /\ deferred' = deferred /\ stage' = stage /\ used'["call"] = u + 1
        /\ u + 1 <= Budget["call"] /\ Tried(u + 1)
    BY <1>0 DEF CallApplied
  <1>2. u + 1 \in DOMAIN tries
    BY <1>0, <1>1, CallFacts
  <1>3. tries[u + 1] = 0
    BY <1>0, <1>2 DEF IInv, WaitingUntried
  <1>4. /\ DOMAIN tries' = DOMAIN tries /\ TriedOnce'
        /\ \A j \in DOMAIN tries : j # u + 1 => tries'[j] = tries[j]
    BY <1>1, <1>2, <1>3, TriedFact
  <1>5. \A id \in 1..u : id \in 1..u + 1 /\ id # u + 1
    BY <1>0
  <1>6. /\ \A i \in 1..Len(queue) : IsCall(i) => queue[i].id \in 1..u
        /\ \A i \in 1..Len(deferred) : deferred[i].id \in 1..u
    BY <1>0, CallFacts
  <1>7. CallsNumbered'
    <2>1. /\ \A i \in 1..Len(queue) : IsCall(i) => queue[i].id \in 1..u + 1
          /\ \A i \in 1..Len(deferred) : deferred[i].id \in 1..u + 1
      BY <1>5, <1>6
    <2> QED
      BY <1>1, <2>1 DEF IInv, CallsNumbered, IsCall
  <1>8. WaitingUntried'
    <2>1. ASSUME NEW i \in 1..Len(queue), IsCall(i), i # 1 \/ stage \notin {"calling", "refreshing"}
          PROVE  tries'[queue[i].id] = 0
      <3>1. queue[i].id # u + 1 /\ queue[i].id \in DOMAIN tries
        BY <1>5, <1>6, <2>1, CallFacts
      <3>2. tries[queue[i].id] = 0
        BY <2>1 DEF IInv, WaitingUntried
      <3> QED
        BY <1>4, <3>1, <3>2
    <2>2. ASSUME NEW i \in 1..Len(deferred) PROVE tries'[deferred[i].id] = 0
      <3>1. deferred[i].id # u + 1 /\ deferred[i].id \in DOMAIN tries
        BY <1>5, <1>6, CallFacts
      <3>2. tries[deferred[i].id] = 0
        BY DEF IInv, WaitingUntried
      <3> QED
        BY <1>4, <3>1, <3>2
    <2>3. ASSUME NEW id \in DOMAIN tries, id > u + 1 PROVE tries'[id] = 0
      <3>1. id # u + 1 /\ id > u
        BY <1>0, <2>3, CallFacts
      <3>2. tries[id] = 0
        BY <1>0, <3>1 DEF IInv, WaitingUntried
      <3> QED
        BY <1>4, <3>1, <3>2
    <2> QED
      BY <1>1, <1>4, <2>1, <2>2, <2>3 DEF WaitingUntried, IsCall
  <1> QED
    BY <1>4, <1>7, <1>8 DEF CallParts

\* Deferred calls land once their layer is there.
LEMMA LandedKeeps ==
    ASSUME IInv, CallsLanded
    PROVE  CallParts'
  <1>1. /\ queue' = queue /\ stage' = stage /\ used'["call"] = used["call"] /\ deferred' = <<>>
        /\ Len(deferred') = 0
    BY DEF CallsLanded
  <1>2. /\ DOMAIN tries' = DOMAIN tries
        /\ \A id \in DOMAIN tries :
             tries'[id] = IF \E i \in DOMAIN deferred : deferred[i].id = id THEN tries[id] + 1 ELSE tries[id]
    BY DEF CallsLanded
  <1>3. DOMAIN deferred = 1..Len(deferred) /\ \A id \in DOMAIN tries : tries[id] \in Nat
    BY CallFacts
  <1>4. \A id \in DOMAIN tries : (\A i \in 1..Len(deferred) : deferred[i].id # id) => tries'[id] = tries[id]
    BY <1>2, <1>3
  <1>5. TriedOnce'
    <2>1. ASSUME NEW id \in DOMAIN tries PROVE tries'[id] <= 1
      <3>1. CASE \E i \in 1..Len(deferred) : deferred[i].id = id
        <4>1. tries[id] = 0
          BY <3>1 DEF IInv, WaitingUntried
        <4>2. tries'[id] = tries[id] + 1
          BY <1>2, <1>3, <3>1
        <4> QED
          BY <4>1, <4>2
      <3>2. CASE \A i \in 1..Len(deferred) : deferred[i].id # id
        <4>1. tries'[id] = tries[id]
          BY <1>4, <3>2
        <4> QED
          BY <4>1 DEF IInv, TriedOnce
      <3> QED
        BY <3>1, <3>2
    <2> QED
      BY <1>2, <2>1 DEF TriedOnce
  <1>6. CallsNumbered'
    BY <1>1 DEF IInv, CallsNumbered, IsCall
  <1>7. WaitingUntried'
    <2>1. ASSUME NEW i \in 1..Len(queue), IsCall(i), i # 1 \/ stage \notin {"calling", "refreshing"}
          PROVE  tries'[queue[i].id] = 0
      <3>1. queue[i].id \in DOMAIN tries /\ \A j \in 1..Len(deferred) : deferred[j].id # queue[i].id
        BY <2>1, CallFacts DEF IInv, CallsNumbered
      <3>2. tries[queue[i].id] = 0
        BY <2>1 DEF IInv, WaitingUntried
      <3> QED
        BY <1>4, <3>1, <3>2
    <2>2. ASSUME NEW id \in DOMAIN tries, id > used["call"] PROVE tries'[id] = 0
      <3>1. \A j \in 1..Len(deferred) : deferred[j].id # id
        BY <2>2, CallFacts
      <3>2. tries[id] = 0
        BY <2>2 DEF IInv, WaitingUntried
      <3> QED
        BY <1>4, <3>1, <3>2
    <2> QED
      BY <1>1, <1>2, <2>1, <2>2 DEF WaitingUntried, IsCall
  <1> QED
    BY <1>5, <1>6, <1>7 DEF CallParts

\* Calls stay numbered and tried once after every step.
LEMMA CallsKeep ==
    ASSUME IInv, Next
    PROVE  CallParts'
  <1>1. CASE CallsRest
    BY <1>1 DEF CallsRest, Sent, IInv, CallParts, CallsNumbered, WaitingUntried, TriedOnce, IsCall
  <1>2. CASE HistoryAsked
    <2>1. PICK d \in {"undo", "redo"} : queue' = Append(queue, History(d))
      BY <1>2 DEF HistoryAsked
    <2>2. PICK t : t = History(d)
      OBVIOUS
    <2>3. t \in Tasks /\ t.kind # "call"
      BY <2>2, TaskFacts DEF History
    <2>4. /\ Len(queue') = Len(queue) + 1 /\ Len(queue) \in Nat /\ queue'[Len(queue) + 1] = t
          /\ \A i \in 1..Len(queue) : queue'[i] = queue[i]
      BY <2>1, <2>2, <2>3, CallFacts
    <2>5. \A i \in 1..Len(queue') : queue'[i].kind = "call" => i \in 1..Len(queue) /\ queue'[i] = queue[i]
      <3>1. \A i \in 1..Len(queue') : i \in 1..Len(queue) \/ i = Len(queue) + 1
        BY <2>4
      <3> QED
        BY <2>3, <2>4, <3>1
    <2>6. tries' = tries /\ stage' = stage /\ deferred' = deferred /\ used'["call"] = used["call"]
      BY <1>2 DEF HistoryAsked
    <2>7. CallsNumbered'
      <3>1. /\ \A i \in 1..Len(queue) : queue[i].kind = "call" => queue[i].id \in 1..used["call"]
            /\ \A i, j \in 1..Len(queue) : queue[i].kind = "call" /\ queue[j].kind = "call"
                                            /\ queue[i].id = queue[j].id => i = j
            /\ \A i \in 1..Len(queue), j \in 1..Len(deferred) :
                 queue[i].kind = "call" => queue[i].id # deferred[j].id
        BY DEF IInv, CallsNumbered, IsCall
      <3>2. /\ \A i \in 1..Len(queue') : queue'[i].kind = "call" => queue'[i].id \in 1..used["call"]
            /\ \A i, j \in 1..Len(queue') : queue'[i].kind = "call" /\ queue'[j].kind = "call"
                                             /\ queue'[i].id = queue'[j].id => i = j
            /\ \A i \in 1..Len(queue'), j \in 1..Len(deferred) :
                 queue'[i].kind = "call" => queue'[i].id # deferred[j].id
        BY <2>5, <3>1
      <3> QED
        BY <2>6, <3>2 DEF IInv, CallsNumbered, IsCall
    <2>8. WaitingUntried' /\ TriedOnce'
      BY <2>5, <2>6 DEF IInv, WaitingUntried, TriedOnce, IsCall
    <2> QED
      BY <2>7, <2>8 DEF CallParts
  <1>3. ASSUME HeadLeft PROVE CallParts'
    <2>1. /\ queue # <<>> /\ queue' = Tail(queue) /\ stage' = "idle" /\ tries' = tries
          /\ deferred' = deferred /\ used'["call"] = used["call"]
      BY <1>3 DEF HeadLeft
    <2>2. PICK r : r = <<>>
      OBVIOUS
    <2>3. r \in Seq(Calls) /\ Len(r) = 0 /\ r \o Tail(queue) = Tail(queue)
      BY <2>1, <2>2, HeadFacts
    <2>4. Distinct(r) /\ Distinct(deferred) /\ deferred \in Seq(Calls)
      BY <2>3, CallFacts DEF Distinct, IInv, CallsNumbered
    <2>5. /\ \A i \in 1..Len(r) : \E k \in 1..Len(deferred) : r[i] = deferred[k]
          /\ \A i, j \in 1..Len(r) : FALSE
          /\ \A i \in 1..Len(r), j \in 1..Len(deferred) : r[i].id # deferred[j].id
          /\ \A i \in 1..Len(deferred) : \E k \in 1..Len(deferred) : deferred[i] = deferred[k]
      BY <2>3
    <2> QED
      BY <2>1, <2>3, <2>4, <2>5, FlushedKeeps
  <1>4. CASE HeadFlushed
    <2>1. PICK s : queue' = Ready(deferred, s) \o Tail(queue) /\ deferred' = Waiting(deferred, s)
      BY <1>4 DEF HeadFlushed
    <2>2. PICK r : r = Ready(deferred, s)
      OBVIOUS
    <2>3. PICK w : w = Waiting(deferred, s)
      OBVIOUS
    <2>4. deferred \in Seq(Calls) /\ Distinct(deferred)
      BY CallFacts DEF Distinct, IInv, CallsNumbered
    <2>5. /\ r \in Seq(Calls) /\ w \in Seq(Calls) /\ Distinct(r) /\ Distinct(w)
          /\ \A i \in 1..Len(r) : \E k \in 1..Len(deferred) : r[i] = deferred[k]
          /\ \A i \in 1..Len(w) : \E k \in 1..Len(deferred) : w[i] = deferred[k]
          /\ \A i \in 1..Len(r), j \in 1..Len(w) : r[i].id # w[j].id
      BY <2>2, <2>3, <2>4, SplitFacts, SMTT(30)
    <2>6. queue' = r \o Tail(queue) /\ deferred' = w
      BY <2>1, <2>2, <2>3
    <2> QED
      BY <1>4, <2>5, <2>6, FlushedKeeps DEF HeadFlushed
  <1> QED
    BY <1>1, <1>2, <1>3, <1>4, NextMovesCalls, AskedKeeps, SentKeeps, AppliedKeeps, LandedKeeps
       DEF CallsMove

-----------------------------------------------------------------------------
(* Every session makes one draft, and every call is tried once *)

LEMMA InitInvariant == Init => IInv
  <1> SUFFICES ASSUME Init PROVE IInv
    OBVIOUS
  <1>1. undo = <<Empty>> /\ queue = <<>> /\ deferred = <<>> /\ store = <<>> /\ creates = {}
    BY DEF Init
  <1>2. Empty \in State /\ <<Empty>> \in Seq(State) /\ <<Empty>> # <<>>
    BY CompositionTypes
  <1>3. redo \in Seq(State)
    <2>1. ASSUME NEW l \in Undone PROVE <<[Empty EXCEPT !.layers = {l}]>> \in Seq(State)
      <3>1. [Empty EXCEPT !.layers = {l}] \in State
        BY UndoneAssumption DEF Empty, State
      <3> QED
        BY <3>1
    <2>2. <<>> \in Seq(State)
      OBVIOUS
    <2> QED
      BY <2>1, <2>2 DEF Init
  <1>4. TypeOK
    <2>1. /\ queue \in Seq(Tasks) /\ deferred \in Seq(Calls) /\ store \in Seq(Seq(Body))
      BY <1>1
    <2>2. tries \in [1..Budget["call"] -> Nat] /\ used \in [Operations -> Nat]
      BY DEF Init
    <2>3. undo \in Seq(State) /\ undo # <<>>
      BY <1>1, <1>2
    <2> QED
      BY <1>1, <1>3, <2>1, <2>2, <2>3 DEF Init, TypeOK
  <1>5. StageMatchesHead /\ CaptureHolds /\ SessionsInOrder /\ OneCreation /\ OneInFlight
    BY DEF Init, StageMatchesHead, CaptureHolds, SessionsInOrder, OneCreation, OneInFlight
  <1>6. DraftsStored
    <2>1. Len(store) = 0
      BY <1>1
    <2> QED
      BY <1>1, <2>1 DEF Init, DraftsStored
  <1>7. CallsNumbered
    <2>1. Len(queue) = 0 /\ Len(deferred) = 0
      BY <1>1
    <2>2. used["call"] = 0 /\ 0 <= Budget["call"]
      BY BudgetAssumption DEF Init, Operations
    <2> QED
      BY <2>1, <2>2 DEF CallsNumbered
  <1>8. WaitingUntried /\ TriedOnce
    <2>1. Len(queue) = 0 /\ Len(deferred) = 0
      BY <1>1
    <2>2. \A id \in DOMAIN tries : tries[id] = 0
      BY DEF Init
    <2> QED
      BY <2>1, <2>2 DEF WaitingUntried, TriedOnce
  <1> QED
    BY <1>4, <1>5, <1>6, <1>7, <1>8 DEF IInv

LEMMA StepKeeps ==
    ASSUME IInv, Next
    PROVE  IInv'
  <1>1. TypeOK' /\ StageMatchesHead' /\ CaptureHolds' /\ DraftsStored'
    BY TypeKeeps, CaptureKeeps, DraftsKeep
  <1>2. SessionsInOrder' /\ OneCreation' /\ OneInFlight'
    BY SessionsKeep
  <1>3. CallsNumbered' /\ WaitingUntried' /\ TriedOnce'
    BY CallsKeep DEF CallParts
  <1> QED
    BY <1>1, <1>2, <1>3 DEF IInv

LEMMA StutterKeeps ==
    ASSUME IInv, UNCHANGED vars
    PROVE  IInv'
  <1> USE DEF vars, sessionVars, draftVars, creationVars, historyVars, queueVars, wireVars, agentVars
  <1>1. TypeOK'
    BY DEF IInv, TypeOK
  <1>2. StageMatchesHead'
    BY DEF IInv, StageMatchesHead, First
  <1>3. CaptureHolds'
    BY DEF IInv, CaptureHolds, First, CanMove, Peek, Screen
  <1>4. SessionsInOrder' /\ OneCreation' /\ OneInFlight'
    BY DEF IInv, SessionsInOrder, OneCreation, OneInFlight
  <1>5. DraftsStored'
    BY DEF IInv, DraftsStored, Stored
  <1>6. CallsNumbered'
    BY DEF IInv, CallsNumbered, IsCall
  <1>7. WaitingUntried' /\ TriedOnce'
    BY DEF IInv, WaitingUntried, TriedOnce, IsCall
  <1> QED
    BY <1>1, <1>2, <1>3, <1>4, <1>5, <1>6, <1>7 DEF IInv

\* Nothing the code does leaves the inductive invariant: the loop's stage agrees with
\* the queue it serves (#drain), sessions and their creations follow in order
\* (#ensureDraft) and every draft in hand is the server's.
THEOREM Invariance == Spec => []IInv
  <1>1. IInv /\ [Next]_vars => IInv'
    BY StepKeeps, StutterKeeps
  <1> QED
    BY <1>1, InitInvariant, PTL DEF Spec

\* Whatever happens between them, a session creates one draft and shares it, and
\* a call is sent or applied once (#ensureDraft, #applyServer, #flushDeferred).
THEOREM MadeOnce == Spec => []OnceEach
  <1>1. IInv => OnceEach
    BY DEF IInv, OnceEach
  <1> QED
    BY <1>1, Invariance, PTL

-----------------------------------------------------------------------------
(* The screen shows the draft *)

\* The request of the attached session stays about its draft.
LEMMA RequestKeeps ==
    ASSUME IInv, RequestOfSession, Next
    PROVE  RequestOfSession'
  <1>0. StageMatchesHead /\ setupGeneration \in Nat
    BY DEF IInv, TypeOK
  <1>1. ASSUME UNCHANGED <<stage, action, sessionVars, request>>, draftId' = draftId
        PROVE  RequestOfSession'
    BY <1>1 DEF RequestOfSession, sessionVars
  <1>2. ASSUME stage' \notin Wired \/ draftId' = request'.id PROVE RequestOfSession'
    BY <1>2 DEF RequestOfSession
  <1>3. CASE RejectCall \/ FinishCall \/ FinishRefresh \/ FailCall \/ MoveLocally \/ MoveUnseen
             \/ AbandonHistory \/ FinishHistory
    <2>1. stage' = "idle"
      BY <1>3 DEF RejectCall, FinishCall, FinishRefresh, FailCall, MoveLocally, MoveUnseen,
                  AbandonHistory, FinishHistory, Leave
    <2> QED
      BY <1>2, <2>1 DEF Wired
  <1>4. CASE StartCall
    <2>1. stage' = "creating" \/ (draftId' = draftId /\ request'.id = draftId)
      BY <1>4 DEF StartCall, Await, Send, ToolCall, draftVars
    <2> QED
      BY <1>2, <2>1 DEF Wired
  <1>5. CASE ConflictCall
    <2>1. draftId' = draftId /\ request'.id = draftId
      BY <1>5 DEF ConflictCall, Send, GetDraft, draftVars
    <2> QED
      BY <1>2, <2>1
  <1>6. CASE StartHistory
    <2>1. stage' \in {"idle", "creating"} \/ (draftId' = draftId /\ request'.id = draftId)
      BY <1>6 DEF StartHistory, Await, Leave, Send, GetDraft, draftVars
    <2> QED
      BY <1>2, <2>1 DEF Wired
  <1>7. CASE SendInverse
    <2>1. /\ stage \in Wired /\ action' = action /\ setupGeneration' = setupGeneration
          /\ draftId' = draftId /\ request'.id = request.id
      BY <1>7 DEF SendInverse, Await, Send, sessionVars, draftVars, Wired
    <2> QED
      BY <2>1 DEF RequestOfSession
  <1>8. ASSUME NEW c \in creates, CreateAdopted(c) PROVE RequestOfSession'
    <2>1. CASE stage = "creating" /\ action.session = c.session
      <3>1. draftId' = c.reply.draft.id /\ request'.id = c.reply.draft.id
        BY <1>8, <2>1 DEF CreateAdopted, Send, ToolCall, GetDraft
      <3> QED
        BY <1>2, <3>1
    <2>2. CASE ~(stage = "creating" /\ action.session = c.session)
      <3>1. /\ UNCHANGED <<queueVars, wireVars, sessionVars>> /\ live # None
            /\ c.session = setupGeneration
        BY <1>8, <2>2 DEF CreateAdopted
      <3>2. draftId = None
        BY <3>1, AttachedFacts DEF IInv, OneCreation
      <3>3. ~(stage \in Wired /\ action.session = setupGeneration)
        <4>1. ASSUME stage \in Wired, action.session = setupGeneration PROVE FALSE
          <5>1. request # None /\ request \in Requests
            BY <4>1, HeadHolds DEF HeadInv, QueueType
          <5>2. request.id = None
            BY <3>2, <4>1 DEF RequestOfSession
          <5> QED
            BY <5>1, <5>2, MessageFacts
        <4> QED
          BY <4>1
      <3> QED
        BY <3>1, <3>3 DEF RequestOfSession, queueVars, sessionVars
    <2> QED
      BY <2>1, <2>2
  <1>9. ASSUME NEW c \in creates, CreateRejected(c) PROVE RequestOfSession'
    <2>1. \/ stage' = "idle"
          \/ UNCHANGED <<stage, action, sessionVars, request>> /\ draftId' = draftId
      BY <1>9 DEF CreateRejected, Leave, queueVars, wireVars, draftVars
    <2> QED
      BY <1>1, <1>2, <2>1 DEF Wired
  <1>10. CASE AttachLiveSession \/ Disable \/ AgentSetupFails
    <2>1. setupGeneration' = setupGeneration + 1 /\ UNCHANGED <<stage, action>>
      BY <1>10 DEF AttachLiveSession, Disable, AgentSetupFails, DetachLiveSession, queueVars
    <2>2. ASSUME stage' \in Wired, action'.session = setupGeneration' PROVE FALSE
      <3>1. action.session <= setupGeneration /\ action.session \in Nat
        BY <1>0, <2>1, <2>2, CaptureTypes DEF IInv, SessionsInOrder, StageMatchesHead, Sessions, Wired
      <3> QED
        BY <1>0, <2>1, <2>2, <3>1
    <2> QED
      BY <2>2 DEF RequestOfSession
  <1>11. CASE AcceptServerDraft
    <2>1. draftId' = draftId /\ UNCHANGED <<stage, action, sessionVars, request>>
      BY <1>11 DEF AcceptServerDraft, IInv, SessionsInOrder, queueVars, wireVars
    <2> QED
      BY <1>1, <2>1
  <1>12. ASSUME NEW c \in Commands, QueueCall(c) \/ ApplyLocal(c) PROVE RequestOfSession'
    BY <1>1, <1>12 DEF QueueCall, ApplyLocal, queueVars, wireVars, draftVars
  <1>13. ASSUME NEW n \in Notes, Annotate(n) PROVE RequestOfSession'
    BY <1>1, <1>13 DEF Annotate, queueVars, wireVars, draftVars
  <1>14. ASSUME NEW d \in {"undo", "redo"}, QueueHistory(d) PROVE RequestOfSession'
    BY <1>1, <1>14 DEF QueueHistory, wireVars, draftVars
  <1>15. ASSUME NEW l \in Layers, AgentAdds(l) \/ \E d \in 1..Len(store) : OtherAdds(d, l)
         PROVE  RequestOfSession'
    BY <1>1, <1>15 DEF AgentAdds, OtherAdds, queueVars, wireVars, draftVars
  <1>16. ASSUME NEW c \in creates, ServerCreates(c) \/ LoseCreation(c) PROVE RequestOfSession'
    BY <1>1, <1>16 DEF ServerCreates, LoseCreation, queueVars, wireVars, draftVars
  <1>17. CASE ServerReads \/ ServerRuns \/ LoseMessage
    BY <1>1, <1>17 DEF ServerReads, ServerRuns, LoseMessage, queueVars, draftVars
  <1> QED
    BY <1>3, <1>4, <1>5, <1>6, <1>7, <1>8, <1>9, <1>10, <1>11, <1>12, <1>13, <1>14, <1>15, <1>16, <1>17
       DEF Next, Use, Run, Respond, Others

\* A stored revision that is shown, and recorded, is what the screen shows.
LEMMA ShownIsShown ==
    ASSUME IInv, NEW d, Stored(d), d.body \in Body, Show(d.body), store' = store,
           draftId' = d.id, generation' = d.generation
    PROVE  ShowsDraft'
  <1>1. FromBody(d.body, Screen') = Screen'
    BY InvType, ShowEffect DEF IInv
  <1> QED
    BY <1>1 DEF ShowsDraft, Stored, FromBody

\* What is shown stays shown while the server's drafts grow and only notes change.
LEMMA ShownStays ==
    ASSUME IInv, StoreMoves, ShowsDraft, UNCHANGED <<draftVars, live>>,
           NEW s \in State, Screen' = s, s.layers = Screen.layers, s.controls = Screen.controls
    PROVE  ShowsDraft'
  <1>1. SUFFICES ASSUME live # None, draftId # None
                 PROVE  /\ generation \in 1..Len(store'[draftId])
                        /\ FromBody(store'[draftId][generation], s) = s
    BY DEF ShowsDraft, draftVars, FromBody
  <1>2. /\ draftId \in 1..Len(store) /\ generation \in 1..Len(store[draftId])
        /\ FromBody(store[draftId][generation], Screen) = Screen
    BY <1>1 DEF ShowsDraft, IInv, DraftsStored
  <1>3. /\ generation \in 1..Len(store'[draftId])
        /\ store'[draftId][generation] = store[draftId][generation]
    BY <1>2, StoreGrows
  <1>4. PICK b \in Body : b = store[draftId][generation]
    <2>1. store[draftId] \in Seq(Body)
      BY <1>2 DEF IInv, TypeOK
    <2> QED
      BY <1>2, <2>1
  <1>5. Screen \in State
    BY InvType, HistoryElements DEF IInv
  <1> QED
    BY <1>2, <1>3, <1>4, <1>5, ReadsBack

\* Every step of a session that adopts only its own answers keeps the screen.
LEMMA ScreenKeeps ==
    ASSUME IInv, ScreenInv, Next
    PROVE  ScreenIsDraft'
  <1>0. /\ HistoryType /\ Screen \in State /\ StoreMoves /\ TypeOK
    BY InvType, HistoryElements, NextMovesStore DEF IInv
  <1>1. ASSUME UNCHANGED <<historyVars, draftVars, live>>, crossed' = crossed PROVE ScreenIsDraft'
    <2>1. Screen' = Screen
      BY <1>1 DEF Screen, historyVars
    <2> QED
      BY <1>0, <1>1, <2>1, ShownStays DEF ScreenInv, ScreenIsDraft
  <1>2. ASSUME live' = None \/ draftId' = None PROVE ScreenIsDraft'
    BY <1>2 DEF ScreenIsDraft, ShowsDraft
  <1>3. CASE FinishCall \/ FinishRefresh
    <2>1. /\ Adopt(reply.draft) /\ draftId' = draftId /\ store' = store /\ reply # None /\ reply.ok
          /\ stage \in Wired
      BY <1>3 DEF FinishCall, FinishRefresh, Answered, Wired
    <2>2. reply.draft \in Draft /\ Stored(reply.draft) /\ reply.draft.id = request.id
      BY <1>0, <2>1, ReplyFacts DEF TypeOK, IInv, DraftsStored
    <2>3. ASSUME ~crossed' PROVE ShowsDraft'
      <3>1. action.session = setupGeneration
        BY <2>1, <2>3 DEF Adopt
      <3>2. draftId' = reply.draft.id
        BY <2>1, <2>2, <3>1 DEF ScreenInv, RequestOfSession
      <3>3. generation' = reply.draft.generation /\ Show(reply.draft.body) /\ reply.draft.body \in Body
        BY <2>1, <2>2, ReplyFacts DEF Adopt
      <3>4. PICK d : d = reply.draft
        OBVIOUS
      <3> QED
        BY <2>1, <2>2, <3>2, <3>3, <3>4, ShownIsShown
    <2> QED
      BY <2>3 DEF ScreenIsDraft
  <1>4. CASE FinishHistory
    <2>1. /\ draftId' = draftId /\ store' = store /\ reply # None /\ reply.ok /\ stage \in Wired
          /\ stage = "inverting" /\ generation' = reply.draft.generation
          /\ action.session = setupGeneration /\ live' = live
      BY <1>4 DEF FinishHistory, Answered, Wired, sessionVars
    <2>2. /\ reply.draft \in Draft /\ Stored(reply.draft) /\ reply.draft.id = request.id
          /\ reply.draft.body \in Body
      BY <1>0, <2>1, ReplyFacts DEF TypeOK, IInv, DraftsStored
    <2>3. draftId = reply.draft.id
      BY <2>1, <2>2 DEF ScreenInv, RequestOfSession
    <2>4. PICK d : d = reply.draft
      OBVIOUS
    <2>5. CASE undo = action.before /\ ToBody(FromBody(reply.draft.body, Empty)) = ToBody(action.target)
      <3>1. First.kind = "history" /\ queue # <<>>
        BY <2>1 DEF IInv, StageMatchesHead
      <3>2. First.direction \in {"undo", "redo"}
        BY <3>1, HeadFacts, TaskFacts
      <3>3. CanMove(First.direction) /\ Peek(First.direction) = action.target
        BY <2>1, <2>5, CaptureFacts
      <3>4. Move(First.direction)
        BY <1>4, <2>5 DEF FinishHistory
      <3>5. PICK t \in State : t = action.target
        BY <1>0, <3>2, <3>3, HistoryElements
      <3>6. Screen' = t
        BY <1>0, <3>2, <3>3, <3>4, <3>5, MoveEffect
      <3>7. FromBody(d.body, t) = t
        BY <2>2, <2>4, <2>5, <3>5, ReadsBack
      <3>8. ShowsDraft'
        BY <2>1, <2>2, <2>3, <2>4, <3>6, <3>7 DEF ShowsDraft, Stored, FromBody
      <3> QED
        BY <3>8 DEF ScreenIsDraft
    <2>6. CASE ~(undo = action.before
                 /\ ToBody(FromBody(reply.draft.body, Empty)) = ToBody(action.target))
      <3>1. Show(reply.draft.body)
        BY <1>4, <2>6 DEF FinishHistory
      <3>2. ShowsDraft'
        BY <2>1, <2>2, <2>3, <2>4, <3>1, ShownIsShown
      <3> QED
        BY <3>2 DEF ScreenIsDraft
    <2> QED
      BY <2>5, <2>6
  <1>5. ASSUME NEW c \in creates, CreateAdopted(c) PROVE ScreenIsDraft'
    <2>1. /\ c.reply.draft \in Draft /\ Stored(c.reply.draft) /\ Show(c.reply.draft.body) /\ store' = store
          /\ draftId' = c.reply.draft.id /\ generation' = c.reply.draft.generation
      BY <1>0, <1>5, ReplyFacts DEF CreateAdopted, TypeOK, Creations, IInv, DraftsStored
    <2>2. ShowsDraft'
      BY <2>1, ReplyFacts, ShownIsShown
    <2> QED
      BY <2>2 DEF ScreenIsDraft
  <1>6. CASE AcceptServerDraft
    <2>1. /\ told \in Draft /\ Stored(told) /\ Show(told.body) /\ store' = store
          /\ draftId' = told.id /\ generation' = told.generation
      BY <1>0, <1>6 DEF AcceptServerDraft, TypeOK, IInv, DraftsStored
    <2>2. PICK d : d = told
      OBVIOUS
    <2>3. ShowsDraft'
      BY <2>1, <2>2, ReplyFacts, ShownIsShown
    <2> QED
      BY <2>3 DEF ScreenIsDraft
  <1>7. CASE MoveUnseen
    <2>1. /\ stage = "reading" /\ action.session = setupGeneration /\ undo = action.before
          /\ LocalOnly /\ Move(First.direction) /\ UNCHANGED <<draftVars, live, crossed>>
      BY <1>7 DEF MoveUnseen, Undisturbed, sessionVars
    <2>2. First.kind = "history" /\ queue # <<>>
      BY <2>1 DEF IInv, StageMatchesHead
    <2>3. First.direction \in {"undo", "redo"}
      BY <2>2, HeadFacts, TaskFacts
    <2>4. CanMove(First.direction) /\ Peek(First.direction) = action.target
      BY <2>1, CaptureFacts
    <2>5. PICK t \in State : t = action.target
      BY <1>0, <2>3, <2>4, HistoryElements
    <2>6. Screen' = t
      BY <1>0, <2>1, <2>3, <2>4, <2>5, MoveEffect
    <2>7. ToBody(Screen) = ToBody(t)
      BY <2>1, <2>5 DEF LocalOnly, Screen
    <2>8. t.layers = Screen.layers /\ t.controls = Screen.controls
      <3>1. Empty \in State /\ ToBody(t) \in Body
        BY CompositionTypes
      <3> QED
        BY <1>0, <2>7, <3>1, ReadsBack
    <2> QED
      BY <1>0, <2>1, <2>6, <2>8, ShownStays DEF ScreenInv, ScreenIsDraft
  <1>8. ASSUME NEW n \in Notes, Annotate(n) PROVE ScreenIsDraft'
    <2>1. PICK s \in State : s = [Screen EXCEPT !.notes = @ \union {n}]
      BY <1>0, CompositionTypes
    <2>2. Push(s) /\ UNCHANGED <<draftVars, live, crossed>>
      BY <1>8, <2>1 DEF Annotate, sessionVars
    <2>3. Screen' = s
      BY <1>0, <2>2, PushEffect
    <2>4. s.layers = Screen.layers /\ s.controls = Screen.controls
      BY <1>0, <2>1 DEF State
    <2> QED
      BY <1>0, <2>2, <2>3, <2>4, ShownStays DEF ScreenInv, ScreenIsDraft
  <1>9. ASSUME NEW c \in Commands, ApplyLocal(c) PROVE ScreenIsDraft'
    BY <1>2, <1>9 DEF ApplyLocal, sessionVars
  <1>10. CASE MoveLocally
    BY <1>2, <1>10 DEF MoveLocally, sessionVars
  <1>11. CASE AttachLiveSession \/ Disable \/ AgentSetupFails
    <2>1. draftId' = None
      BY <1>11 DEF AttachLiveSession, Disable, AgentSetupFails, DetachLiveSession
    <2> QED
      BY <1>2, <2>1
  <1>12. ASSUME NEW c \in Commands, QueueCall(c) PROVE ScreenIsDraft'
    BY <1>1, <1>12 DEF QueueCall, sessionVars
  <1>13. ASSUME NEW d \in {"undo", "redo"}, QueueHistory(d) PROVE ScreenIsDraft'
    BY <1>1, <1>13 DEF QueueHistory, sessionVars
  <1>14. ASSUME NEW l \in Layers, AgentAdds(l) \/ \E d \in 1..Len(store) : OtherAdds(d, l)
         PROVE  ScreenIsDraft'
    BY <1>1, <1>14 DEF AgentAdds, OtherAdds, sessionVars
  <1>15. ASSUME NEW c \in creates, CreateRejected(c) \/ ServerCreates(c) \/ LoseCreation(c)
         PROVE  ScreenIsDraft'
    BY <1>1, <1>15 DEF CreateRejected, ServerCreates, LoseCreation, sessionVars
  <1>16. CASE RejectCall \/ StartCall \/ ConflictCall \/ FailCall \/ StartHistory
    BY <1>1, <1>16 DEF RejectCall, StartCall, ConflictCall, FailCall, StartHistory, sessionVars
  <1>17. CASE SendInverse \/ AbandonHistory \/ ServerReads \/ ServerRuns \/ LoseMessage
    BY <1>1, <1>17 DEF SendInverse, AbandonHistory, ServerReads, ServerRuns, LoseMessage, sessionVars
  <1> QED
    BY <1>3, <1>4, <1>5, <1>6, <1>7, <1>8, <1>9, <1>10, <1>11, <1>12, <1>13, <1>14, <1>15, <1>16, <1>17
       DEF Next, Use, Run, Respond, Others

\* As long as every answer is adopted in the session that asked for it, the
\* screen is the draft at the generation the next call will name (#callServerTool,
\* applyHistoryAction, acceptServerDraft).
THEOREM ScreenIsTheDraft == Spec => []ScreenIsDraft
  <1>1. Init => IInv /\ ScreenInv
    BY InitInvariant DEF Init, ScreenInv, RequestOfSession, ScreenIsDraft, ShowsDraft, Wired
  <1>2. ASSUME IInv, ScreenInv, [Next]_vars PROVE (IInv /\ ScreenInv)'
    <2>1. CASE Next
      BY <1>2, <2>1, StepKeeps, RequestKeeps, ScreenKeeps DEF ScreenInv
    <2>2. CASE UNCHANGED vars
      <3>1. IInv'
        BY <1>2, <2>2, StutterKeeps
      <3>2. RequestOfSession' /\ ScreenIsDraft'
        BY <1>2, <2>2 DEF ScreenInv, RequestOfSession, ScreenIsDraft, ShowsDraft, Screen, FromBody, vars,
                          sessionVars, draftVars, historyVars, queueVars, wireVars
      <3> QED
        BY <3>1, <3>2 DEF ScreenInv
    <2> QED
      BY <1>2, <2>1, <2>2
  <1>3. IInv /\ ScreenInv => ScreenIsDraft
    BY DEF ScreenInv
  <1> QED
    BY <1>1, <1>2, <1>3, PTL DEF Spec

=============================================================================
