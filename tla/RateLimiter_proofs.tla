------------------------- MODULE RateLimiter_proofs -------------------------
(***************************************************************************)
(* The limit of a window key holds for every number of concurrent calls,   *)
(* every limit and every window length, and so does twice the limit for    *)
(* any window's length of time.                                            *)
(***************************************************************************)
EXTENDS MCRateLimiter, TLAPS

\* used never runs ahead of the count in the key; this is what makes the
\* budget inductive.
BudgetInv ==
  /\ window = NoKey => used = 0
  /\ (window # NoKey /\ window.count <= MaxRequests) => used <= window.count
  /\ WindowBudget

RateInv == TypeOK /\ BudgetInv /\ ImmortalKeyIsRepaired

LEMMA CommandTypes ==
  ASSUME TypeOK
  PROVE  /\ Opened \in [count : Counts, ttl : (1 .. WindowSeconds) \cup {NoExpiry}]
         /\ Incremented \in [count : Counts, ttl : (1 .. WindowSeconds) \cup {NoExpiry}]
         /\ Extended \in {NoKey} \cup [count : Counts, ttl : (1 .. WindowSeconds) \cup {NoExpiry}]
BY RateAssumption DEF TypeOK, Counts, Opened, Incremented, Extended, Bump

LEMMA TypeStep == ASSUME TypeOK, [Next]_vars PROVE TypeOK'
<1> USE RateAssumption, CommandTypes DEF TypeOK, Ended, Goto
<1>1. ASSUME NEW c \in Caller, SetWindow(c) PROVE TypeOK'
  BY <1>1 DEF SetWindow, Counts
<1>2. ASSUME NEW c \in Caller, Increment(c) PROVE TypeOK'
  <2>1. Incremented.count \in Counts
    OBVIOUS
  <2>2. QED
    BY <1>2, <2>1 DEF Increment
<1>3. ASSUME NEW c \in Caller, ReadTtl(c) PROVE TypeOK'
  BY <1>3 DEF ReadTtl, Conclude
<1>4. ASSUME NEW c \in Caller, SetExpiry(c) PROVE TypeOK'
  BY <1>4 DEF SetExpiry, Conclude
<1>5. ASSUME NEW c \in Caller, Abort(c) PROVE TypeOK'
  BY <1>5 DEF Abort, Counts
<1>6. CASE Tick
  BY <1>6 DEF Tick
<1>7. CASE UNCHANGED vars
  BY <1>7 DEF vars
<1>8. QED
  BY <1>1, <1>2, <1>3, <1>4, <1>5, <1>6, <1>7 DEF Next, Continue

LEMMA BudgetStep == ASSUME TypeOK, BudgetInv, [Next]_vars PROVE BudgetInv'
<1> USE RateAssumption, CommandTypes DEF TypeOK, BudgetInv, WindowBudget, Counts
<1>1. ASSUME NEW c \in Caller, SetWindow(c) PROVE BudgetInv'
  BY <1>1 DEF SetWindow, Opened
<1>2. ASSUME NEW c \in Caller, Increment(c) PROVE BudgetInv'
  BY <1>2 DEF Increment, Incremented, Bump, Allowed
<1>3. ASSUME NEW c \in Caller, ReadTtl(c) PROVE BudgetInv'
  BY <1>3 DEF ReadTtl
<1>4. ASSUME NEW c \in Caller, SetExpiry(c) PROVE BudgetInv'
  BY <1>4 DEF SetExpiry, Extended
<1>5. ASSUME NEW c \in Caller, Abort(c) PROVE BudgetInv'
  BY <1>5 DEF Abort, Opened, Incremented, Extended, Bump
<1>6. CASE Tick
  BY <1>6 DEF Tick
<1>7. CASE UNCHANGED vars
  BY <1>7 DEF vars
<1>8. QED
  BY <1>1, <1>2, <1>3, <1>4, <1>5, <1>6, <1>7 DEF Next, Continue

\* A key without an expiry keeps a repairer: the one who made it so, until it
\* reads the ttl, and then until it sets one.
LEMMA RepairStep ==
  ASSUME TypeOK, ImmortalKeyIsRepaired, [Next]_vars
  PROVE  ImmortalKeyIsRepaired'
<1> USE RateAssumption DEF TypeOK, ImmortalKeyIsRepaired, Goto
<1>1. ASSUME NEW c \in Caller, SetWindow(c) PROVE ImmortalKeyIsRepaired'
  BY <1>1 DEF SetWindow, Opened, Ended
<1>2. ASSUME NEW c \in Caller, Increment(c) PROVE ImmortalKeyIsRepaired'
  BY <1>2 DEF Increment
<1>3. ASSUME NEW c \in Caller, ReadTtl(c) PROVE ImmortalKeyIsRepaired'
  BY <1>3 DEF ReadTtl, Conclude
<1>4. ASSUME NEW c \in Caller, SetExpiry(c) PROVE ImmortalKeyIsRepaired'
  BY <1>4 DEF SetExpiry, Extended
<1>5. ASSUME NEW c \in Caller, Abort(c) PROVE ImmortalKeyIsRepaired'
  BY <1>5 DEF Abort
<1>6. CASE Tick
  BY <1>6 DEF Tick
<1>7. CASE UNCHANGED vars
  BY <1>7 DEF vars
<1>8. QED
  BY <1>1, <1>2, <1>3, <1>4, <1>5, <1>6, <1>7 DEF Next, Continue

LEMMA InitRateInv == Init => RateInv
BY RateAssumption
   DEF Init, RateInv, TypeOK, BudgetInv, WindowBudget, ImmortalKeyIsRepaired, Ended, Counts

LEMMA StepRateInv == RateInv /\ [Next]_vars => RateInv'
BY TypeStep, BudgetStep, RepairStep DEF RateInv

\* Every variable of the rate limiter keeps its type.
THEOREM RateTypeCorrect == Spec => []TypeOK
<1>1. RateInv => TypeOK  BY DEF RateInv
<1>2. QED  BY <1>1, InitRateInv, StepRateInv, PTL DEF Spec

\* One window key lets through at most MaxRequests calls, in whatever order
\* the commands of the calls reach Redis (redis-rate-limiter.ts:38-49).
THEOREM BudgetHolds == Spec => []WindowBudget
<1>1. RateInv => WindowBudget  BY DEF RateInv, BudgetInv
<1>2. QED  BY <1>1, InitRateInv, StepRateInv, PTL DEF Spec

\* A key that INCR created without an expiry is never abandoned, unless a
\* command failed (redis-rate-limiter.ts:41-44).
THEOREM ImmortalKeyRepaired == Spec => []ImmortalKeyIsRepaired
<1>1. RateInv => ImmortalKeyIsRepaired  BY DEF RateInv
<1>2. QED  BY <1>1, InitRateInv, StepRateInv, PTL DEF Spec

-----------------------------------------------------------------------------
\* The history.  A key that has ttl ticks left has been there for WindowSeconds - ttl
\* of them at least, since no key begins with less: what that many ticks have let
\* through, the present key has.  Further back there is one other key at the most.
Offsets == 0 .. WindowSeconds - 1
OfPresentKey(a) == a = 0 \/ (window.ttl # NoExpiry /\ a + window.ttl <= WindowSeconds)

LatelyInv ==
  /\ lately \in [Offsets -> Nat]
  /\ \A a \in Offsets : lately[a] <= MaxRequests + used
  /\ window = NoKey => lately[0] = 0
  /\ window # NoKey => \A a \in Offsets : OfPresentKey(a) => lately[a] <= used

HistoryInv == RateInv /\ LatelyInv

LEMMA HistoryIsMore == [HistoryNext]_historyVars => [Next]_vars
BY DEF HistoryNext, HistoryTick, Next, historyVars, vars

LEMMA ZeroIsOffset == WindowSeconds \in Nat \ {0} /\ 0 \in Offsets /\ WindowSeconds - 1 \in Offsets
BY RateAssumption DEF Offsets

\* A command of a call: whatever it lets through it also counts in used, and there is a
\* key when it does; it leaves a key's ttl, renews it, or makes one.
LEMMA CommandCounts ==
  ASSUME RateInv, NEW c \in Caller, SetWindow(c) \/ Continue(c) \/ Abort(c)
  PROVE  /\ used \in Nat /\ used' = used + LetThrough /\ LetThrough \in Nat
         /\ window = NoKey => used = 0
         /\ window' = NoKey => window = NoKey /\ LetThrough = 0
         /\ window # NoKey => window' # NoKey /\ window'.ttl \in {window.ttl, WindowSeconds}
         /\ window = NoKey /\ window' # NoKey => window'.ttl \in {NoExpiry, WindowSeconds}
<1>1. /\ used \in Nat /\ (window = NoKey => used = 0)
      /\ window # NoKey => window \in [count : Counts, ttl : (1 .. WindowSeconds) \cup {NoExpiry}]
  BY DEF RateInv, TypeOK, BudgetInv
<1>2. used' \in {used, used + 1} /\ (used' = used + 1 => window' = Incremented)
  <2>1. CASE Increment(c)
    BY <2>1 DEF Increment
  <2>2. CASE SetWindow(c) \/ ReadTtl(c) \/ SetExpiry(c) \/ Abort(c)
    <3>1. used' = used
      BY <2>2 DEF SetWindow, ReadTtl, SetExpiry, Abort
    <3>2. QED
      BY <1>1, <3>1
  <2>3. QED
    BY <2>1, <2>2 DEF Continue
<1>3. used' = used + LetThrough /\ LetThrough \in {0, 1} /\ (LetThrough = 1 => window' = Incremented)
  <2>1. CASE used' = used
    BY <1>1, <2>1 DEF LetThrough
  <2>2. CASE used' = used + 1 /\ window' = Incremented
    BY <1>1, <2>2 DEF LetThrough
  <2>3. QED
    BY <1>2, <2>1, <2>2
<1>4. window' \in {window, Opened, Incremented, Extended}
  BY DEF SetWindow, Continue, Increment, ReadTtl, SetExpiry, Abort
<1>5. /\ Opened # NoKey /\ Incremented # NoKey
      /\ Extended = NoKey <=> window = NoKey
  BY CommandTypes, RateAssumption, <1>1 DEF RateInv, Counts, Extended, Opened, Incremented
<1>6. window # NoKey => /\ Opened.ttl = window.ttl /\ Incremented.ttl = window.ttl
                        /\ Extended.ttl = WindowSeconds
  BY <1>1 DEF Opened, Incremented, Extended
<1>7. window = NoKey => /\ Opened.ttl = WindowSeconds /\ Incremented.ttl = NoExpiry
                        /\ Extended = NoKey
  BY DEF Opened, Incremented, Extended
<1>8. QED
  BY <1>1, <1>3, <1>4, <1>5, <1>6, <1>7

\* A step of a call adds what it lets through to every total; a key that it makes
\* or renews has just begun.
LEMMA LatelyCall ==
  ASSUME HistoryInv, NEW c \in Caller, SetWindow(c) \/ Continue(c) \/ Abort(c),
         lately' = [a \in DOMAIN lately |-> lately[a] + LetThrough]
  PROVE  LatelyInv'
<1>1. /\ used \in Nat /\ used' = used + LetThrough /\ LetThrough \in Nat
      /\ window = NoKey => used = 0
      /\ window' = NoKey => window = NoKey /\ LetThrough = 0
      /\ window # NoKey => window' # NoKey /\ window'.ttl \in {window.ttl, WindowSeconds}
      /\ window = NoKey /\ window' # NoKey => window'.ttl \in {NoExpiry, WindowSeconds}
  BY CommandCounts DEF HistoryInv
<1>2. \A a \in Offsets : lately[a] \in Nat /\ lately'[a] = lately[a] + LetThrough
  BY DEF HistoryInv, LatelyInv
<1>3. lately' \in [Offsets -> Nat]
  BY <1>1 DEF HistoryInv, LatelyInv
<1>4. \A a \in Offsets : lately'[a] <= MaxRequests + used'
  <2>1. MaxRequests \in Nat
    BY RateAssumption
  <2>2. QED
    BY <1>1, <1>2, <2>1 DEF HistoryInv, LatelyInv
<1>5. window' = NoKey => lately'[0] = 0
  BY <1>1, <1>2, ZeroIsOffset DEF HistoryInv, LatelyInv
<1>6. ASSUME window' # NoKey, NEW a \in Offsets, OfPresentKey(a)'
      PROVE  lately[a] <= used
  <2>1. CASE a = 0
    BY <1>1, <2>1, ZeroIsOffset DEF HistoryInv, LatelyInv, OfPresentKey
  <2>2. CASE a # 0
    <3>1. a \in Nat \ {0} /\ window'.ttl # NoExpiry /\ a + window'.ttl <= WindowSeconds
      BY <1>6, <2>2 DEF OfPresentKey, Offsets
    <3>2. window'.ttl # WindowSeconds
      BY <3>1, ZeroIsOffset
    <3>3. window # NoKey /\ window'.ttl = window.ttl
      BY <1>1, <1>6, <3>1, <3>2
    <3>4. OfPresentKey(a)
      BY <3>1, <3>3 DEF OfPresentKey
    <3>5. QED
      BY <3>3, <3>4 DEF HistoryInv, LatelyInv
  <2>3. QED
    BY <2>1, <2>2
<1>7. window' # NoKey => \A a \in Offsets : OfPresentKey(a)' => lately'[a] <= used'
  BY <1>1, <1>2, <1>6
<1>8. QED
  BY <1>3, <1>4, <1>5, <1>7 DEF LatelyInv

\* A tick: what the present key has let through it has in one tick more.  When the key
\* goes, all totals are its own.
LEMMA LatelyTick ==
  ASSUME HistoryInv, HistoryTick
  PROVE  LatelyInv'
<1>1. /\ used \in Nat /\ used <= MaxRequests /\ MaxRequests \in Nat
      /\ window = NoKey => used = 0
      /\ window # NoKey => window.ttl = NoExpiry \/ window.ttl \in 1 .. WindowSeconds
  BY RateAssumption DEF HistoryInv, RateInv, TypeOK, BudgetInv, WindowBudget
<1>2. /\ \A a \in Offsets : lately[a] \in Nat
      /\ lately' = [a \in Offsets |-> IF a = 0 THEN 0 ELSE lately[a - 1]]
  BY DEF HistoryInv, LatelyInv, HistoryTick
<1>3. \A a \in Offsets \ {0} : a - 1 \in Offsets /\ a \in Nat
  BY ZeroIsOffset DEF Offsets
<1>4. lately' \in [Offsets -> Nat]
  BY <1>2, <1>3
<1>5. lately'[0] = 0 /\ \A a \in Offsets \ {0} : lately'[a] = lately[a - 1]
  BY <1>2, ZeroIsOffset
<1>6. CASE UNCHANGED vars /\ (window # NoKey => window.ttl = NoExpiry)
  <2>1. \A a \in Offsets : lately'[a] <= MaxRequests + used'
    BY <1>1, <1>3, <1>5, <1>6 DEF vars, HistoryInv, LatelyInv
  <2>2. window' # NoKey => \A a \in Offsets : OfPresentKey(a)' => lately'[a] <= used'
    BY <1>1, <1>5, <1>6 DEF vars, OfPresentKey
  <2>3. QED
    BY <1>4, <1>5, <2>1, <2>2 DEF LatelyInv
<1>7. CASE Tick /\ window.ttl = 1
  <2>1. window # NoKey /\ window' = NoKey /\ used' = 0
    BY <1>7 DEF Tick
  <2>2. \A a \in Offsets \ {0} : OfPresentKey(a - 1)
    BY <1>3, <1>7, ZeroIsOffset DEF OfPresentKey, Offsets, Tick
  <2>3. \A a \in Offsets : lately'[a] <= MaxRequests
    BY <1>1, <1>2, <1>3, <1>5, <2>1, <2>2 DEF HistoryInv, LatelyInv
  <2>4. QED
    BY <1>1, <1>4, <1>5, <2>1, <2>3 DEF LatelyInv
<1>8. CASE Tick /\ window.ttl # 1
  <2>1. /\ window # NoKey /\ window.ttl # NoExpiry /\ used' = used
        /\ window' = [window EXCEPT !.ttl = @ - 1]
    BY <1>8 DEF Tick
  <2>2. window \in [count : Counts, ttl : (1 .. WindowSeconds) \cup {NoExpiry}]
    BY <2>1 DEF HistoryInv, RateInv, TypeOK
  <2>3. window'.ttl = window.ttl - 1 /\ window.ttl \in 1 .. WindowSeconds
    BY <1>1, <2>1, <2>2
  <2>4. \A a \in Offsets : lately'[a] <= MaxRequests + used'
    BY <1>1, <1>3, <1>5, <2>1 DEF HistoryInv, LatelyInv
  <2>5. ASSUME NEW a \in Offsets, OfPresentKey(a)' PROVE lately'[a] <= used'
    <3>1. CASE a = 0
      BY <1>1, <1>5, <2>1, <3>1
    <3>2. CASE a # 0
      <4>1. a - 1 + window.ttl <= WindowSeconds
        BY <1>3, <2>3, <2>5, <3>2, ZeroIsOffset DEF OfPresentKey
      <4>2. OfPresentKey(a - 1)
        BY <2>1, <4>1 DEF OfPresentKey
      <4>3. QED
        BY <1>3, <1>5, <2>1, <3>2, <4>2 DEF HistoryInv, LatelyInv
    <3>3. QED
      BY <3>1, <3>2
  <2>6. window' # NoKey
    <3>1. window' \in [count : Nat, ttl : Nat \cup {NoExpiry}]
      BY <2>1, <2>2, <2>3, ZeroIsOffset, RateAssumption DEF Counts
    <3>2. QED
      BY <3>1, RateAssumption
  <2>7. QED
    BY <1>4, <2>4, <2>5, <2>6 DEF LatelyInv
<1>9. QED
  BY <1>6, <1>7, <1>8 DEF HistoryTick

LEMMA LatelyStep == ASSUME HistoryInv, [HistoryNext]_historyVars PROVE HistoryInv'
<1>1. RateInv'
  BY HistoryIsMore, StepRateInv DEF HistoryInv
<1>2. CASE HistoryNext
  BY <1>1, <1>2, LatelyCall, LatelyTick DEF HistoryNext, HistoryInv
<1>3. CASE UNCHANGED historyVars
  BY <1>1, <1>3 DEF historyVars, vars, HistoryInv, LatelyInv, OfPresentKey
<1>4. QED
  BY <1>1, <1>2, <1>3 DEF HistoryInv

LEMMA InitLately == HistoryInit => HistoryInv
BY InitRateInv, ZeroIsOffset, RateAssumption DEF HistoryInit, Init, HistoryInv, LatelyInv, Offsets

\* Any WindowSeconds seconds in a row let through at most twice the limit, although the
\* key may expire, be made again without an expiry, and be given one by another call
\* between any two commands (redis-rate-limiter.ts:38-49).
THEOREM SlidingBudgetHolds == HistorySpec => []SlidingBudget
<1>1. HistoryInv => SlidingBudget
  BY ZeroIsOffset, RateAssumption
     DEF HistoryInv, RateInv, TypeOK, BudgetInv, WindowBudget, LatelyInv, SlidingBudget
<1>2. QED
  BY <1>1, InitLately, LatelyStep, PTL DEF HistorySpec
=============================================================================
