------------------------- MODULE SamplingPool_proofs -------------------------
(***************************************************************************)
(* The pool for any number of workers and any limits: no shot is lost or   *)
(* counted twice, the limits are passed by less than a batch per worker,   *)
(* and the pool implements the abstract run.  The counters are global and  *)
(* the workers' shots are local; what ties them together is the sum of the *)
(* shots in flight, and how it changes when one worker's share does.       *)
(***************************************************************************)
EXTENDS SamplingPool, FiniteSetTheorems, TLAPS

Places == {"unborn", "setup", "reserve", "sample", "skip", "count",
           "exited", "dead"}
Counts == [shots : Nat, kept : Nat, errors : Nat]

Typed ==
  /\ cfg \in Configs
  /\ shots \in Nat /\ completed \in Nat /\ kept \in Nat /\ errors \in Nat
  /\ wpc \in [Workers -> Places]
  /\ take \in [Workers -> Nat]
  /\ tally \in [Workers -> [kept : Nat, errors : Nat]]
  /\ pc \in {"spawn", "poll", "pollKept", "pollErrors", "emit", "single",
             "returned", "raised"}
  /\ snap \in Counts /\ stats \in Counts
  /\ emitted \in BOOLEAN

\* A worker holds shots from the reservation to the count, never more than a
\* batch, and then a verdict on no more shots than it took.  One that left
\* had found a limit reached, and a limit once reached stays so.
WorkersSound ==
  /\ \A w \in Workers :
       /\ take[w] <= cfg.batch
       /\ wpc[w] \in {"unborn", "setup", "reserve", "exited"} => take[w] = 0
       /\ wpc[w] \in {"sample", "skip", "count"} => take[w] > 0
       /\ wpc[w] = "count" => /\ tally[w].errors <= tally[w].kept
                              /\ tally[w].kept <= take[w]
       /\ wpc[w] = "exited" => Full

\* The parent polls once all processes were started, and returns what it read
\* once all have ended; the single process starts none.
ParentSound ==
  /\ pc = "single" => ~cfg.pool
  /\ ~cfg.pool => /\ pc \in {"single", "returned", "raised"}
                  /\ \A w \in Workers : wpc[w] = "unborn"
  /\ cfg.pool /\ pc # "spawn" => \A w \in Workers : wpc[w] # "unborn"
  /\ pc = "returned" =>
       /\ stats = [shots |-> completed, kept |-> kept, errors |-> errors]
       /\ cfg.pool => \A w \in Workers : Ended(w)
       /\ ~cfg.pool => Full

\* By how much the limits may be passed.  Without a budget of errors nothing
\* is ever taken; with one, the shots in flight when the last was made count.
Processes == IF cfg.pool THEN Cardinality(Workers) ELSE 1
BoundsSound ==
  /\ shots < cfg.maxShots + (IF cfg.pool THEN 1 ELSE cfg.batch)
  /\ cfg.maxErrors = 0 => errors = 0 /\ \A w \in Workers : take[w] = 0
  /\ cfg.maxErrors > 0 => errors + InFlight(Workers \ Dead) <
                            cfg.maxErrors + cfg.batch * Processes

\* The inductive invariant.
PoolInv ==
  Typed /\ WorkersSound /\ ParentSound /\ BoundsSound /\ WorkConserved

-----------------------------------------------------------------------------
(* Sums over workers.                                                       *)

Hands(t, W) == UNION {{w} \X (1 .. t[w]) : w \in W}
Held(t, W)  == Cardinality(Hands(t, W))

\* One worker has as many shots in its hands as it took.
LEMMA HandSize ==
  ASSUME NEW w, NEW n \in Nat
  PROVE  /\ IsFiniteSet({w} \X (1 .. n))
         /\ Cardinality({w} \X (1 .. n)) = n
<1>1. IsFiniteSet({w}) /\ Cardinality({w}) = 1
  BY FS_Singleton
<1>2. IsFiniteSet(1 .. n) /\ Cardinality(1 .. n) = n
  BY FS_Interval
<1>3. /\ IsFiniteSet({w} \X (1 .. n))
      /\ Cardinality({w} \X (1 .. n)) = Cardinality({w}) * Cardinality(1 .. n)
  <2> DEFINE S == {w}
             T == 1 .. n
  <2>1. IsFiniteSet(S) /\ IsFiniteSet(T)
    BY <1>1, <1>2
  <2> HIDE DEF S, T
  <2>2. /\ IsFiniteSet(S \X T)
        /\ Cardinality(S \X T) = Cardinality(S) * Cardinality(T)
    BY <2>1, FS_Product
  <2> QED
    BY <2>2 DEF S, T
<1>4. 1 * n = n
  OBVIOUS
<1> QED
  BY <1>1, <1>2, <1>3, <1>4

\* With at most b shots each, the workers W hold at most b times their number.
LEMMA HeldBounded ==
  ASSUME NEW W \in SUBSET Workers, NEW t \in [Workers -> Nat], NEW b \in Nat,
         \A w \in Workers : t[w] <= b
  PROVE  /\ IsFiniteSet(Hands(t, W))
         /\ Held(t, W) \in Nat
         /\ Cardinality(Workers) \in Nat
         /\ Held(t, W) <= b * Cardinality(Workers)
<1>1. IsFiniteSet(Workers) /\ Cardinality(Workers) \in Nat
  BY WorkersAssumption, FS_CardinalityType
<1>2. IsFiniteSet(1 .. b) /\ Cardinality(1 .. b) = b
  BY FS_Interval
<1>3. /\ IsFiniteSet(Workers \X (1 .. b))
      /\ Cardinality(Workers \X (1 .. b)) = Cardinality(Workers) * b
  BY <1>1, <1>2, FS_Product
<1>4. Hands(t, W) \in SUBSET (Workers \X (1 .. b))
  <2> SUFFICES ASSUME NEW x \in Hands(t, W) PROVE x \in Workers \X (1 .. b)
    OBVIOUS
  <2>1. PICK w \in W : x \in {w} \X (1 .. t[w])
    BY DEF Hands
  <2>2. 1 .. t[w] \subseteq 1 .. b
    <3>1. w \in Workers /\ t[w] \in Nat /\ t[w] <= b
      OBVIOUS
    <3> QED
      BY <3>1
  <2> QED
    BY <2>1, <2>2
<1>5. IsFiniteSet(Hands(t, W)) /\ Held(t, W) <= Cardinality(Workers) * b
  BY <1>3, <1>4, FS_Subset DEF Held
<1> QED
  BY <1>1, <1>5, FS_CardinalityType DEF Held

\* The shots of one worker and those of the others are apart.
LEMMA HeldSplits ==
  ASSUME NEW W \in SUBSET Workers, NEW t \in [Workers -> Nat], NEW b \in Nat,
         \A w \in Workers : t[w] <= b, NEW v \in W
  PROVE  Held(t, W) = Held(t, W \ {v}) + t[v]
<1> DEFINE A == Hands(t, W \ {v})
           B == {v} \X (1 .. t[v])
<1>1. Hands(t, W) = A \cup B
  BY DEF Hands
<1>2. A \cap B = {}
  <2> SUFFICES ASSUME NEW x \in A, x \in B PROVE FALSE
    OBVIOUS
  <2>1. PICK w \in W \ {v} : x \in {w} \X (1 .. t[w])
    BY DEF Hands
  <2> QED
    BY <2>1
<1>3. IsFiniteSet(A) /\ Cardinality(A) \in Nat
  BY HeldBounded, W \ {v} \in SUBSET Workers DEF Held
<1>4. IsFiniteSet(B) /\ Cardinality(B) = t[v]
  BY HandSize
<1>5. Cardinality(A \cup B) = Cardinality(A) + Cardinality(B) - Cardinality(A \cap B)
  BY <1>3, <1>4, FS_Union
<1>6. Cardinality(A \cap B) = 0
  BY <1>2, FS_EmptySet
<1> HIDE DEF A, B
<1>7. Cardinality(Hands(t, W)) = Cardinality(A) + t[v]
  BY <1>1, <1>3, <1>4, <1>5, <1>6
<1> QED
  BY <1>7 DEF Held, A

\* The sum depends on the workers it ranges over only.
LEMMA HeldSame ==
  ASSUME NEW W, NEW t, NEW u, \A w \in W : t[w] = u[w]
  PROVE  Held(t, W) = Held(u, W)
<1>1. Hands(t, W) = Hands(u, W)
  BY DEF Hands
<1> QED
  BY <1>1 DEF Held

LEMMA HeldNothing ==
  ASSUME NEW W, NEW t, \A w \in W : t[w] = 0
  PROVE  Held(t, W) = 0
<1>1. Hands(t, W) = {}
  <2>1. \A w \in W : {w} \X (1 .. t[w]) = {}
    OBVIOUS
  <2> QED
    BY <2>1 DEF Hands
<1> QED
  BY <1>1, FS_EmptySet DEF Held

\* When one share changes, the sum changes by as much.
LEMMA HeldChanges ==
  ASSUME NEW W \in SUBSET Workers, NEW t \in [Workers -> Nat], NEW b \in Nat,
         \A w \in Workers : t[w] <= b, NEW v \in W, NEW n \in Nat, n <= b
  PROVE  Held([t EXCEPT ![v] = n], W) = Held(t, W) - t[v] + n
<1> DEFINE u == [t EXCEPT ![v] = n]
<1>1. u \in [Workers -> Nat] /\ u[v] = n /\ \A w \in Workers \ {v} : u[w] = t[w]
  OBVIOUS
<1>2. \A w \in Workers : u[w] <= b
  BY <1>1
<1>3. Held(t, W \ {v}) = Held(u, W \ {v})
  BY <1>1, HeldSame
<1> HIDE DEF u
<1>4. Held(u, W) = Held(u, W \ {v}) + n
  BY <1>1, <1>2, HeldSplits
<1>5. Held(t, W) = Held(t, W \ {v}) + t[v]
  BY HeldSplits
<1>6. Held(t, W \ {v}) \in Nat /\ t[v] \in Nat
  BY HeldBounded, W \ {v} \in SUBSET Workers
<1>7. Held(u, W) = Held(t, W) - t[v] + n
  BY <1>3, <1>4, <1>5, <1>6
<1> QED
  BY <1>7 DEF u

LEMMA InFlightIs == \A W : InFlight(W) = Held(take, W)
BY DEF InFlight, Held, Hands

\* A reservation is at least one shot, at most a batch, and never beyond what
\* remains.
LEMMA ShareSize ==
  ASSUME Typed, ~Full
  PROVE  /\ Share \in Nat /\ Share > 0
         /\ Share <= cfg.batch /\ shots + Share <= cfg.maxShots
<1>1. cfg.batch \in Nat \ {0} /\ cfg.maxShots \in Nat /\ shots \in Nat
  BY ConfigsAssumption DEF Typed
<1>2. shots < cfg.maxShots
  BY <1>1, ConfigsAssumption DEF Full, Typed
<1> DEFINE a == cfg.batch
           b == cfg.maxShots - shots
<1>3. a \in Nat /\ a > 0 /\ b \in Nat /\ b > 0
  BY <1>1, <1>2
<1> HIDE DEF a, b
<1>4. \E x \in {a, b} : \A y \in {a, b} : x <= y
  BY <1>3
<1>5. Min({a, b}) \in {a, b} /\ \A y \in {a, b} : Min({a, b}) <= y
  BY <1>4 DEF Min
<1> QED
  BY <1>1, <1>3, <1>5 DEF Share, a, b

-----------------------------------------------------------------------------
(* What the steps do to the sums.                                           *)

LEMMA Fields ==
  ASSUME Typed
  PROVE  /\ cfg.pool \in BOOLEAN /\ cfg.selects \in BOOLEAN
         /\ cfg.maxShots \in Nat /\ cfg.maxErrors \in Nat
         /\ cfg.batch \in Nat /\ cfg.batch > 0
         /\ Cardinality(Workers) \in Nat /\ Cardinality(Workers) > 0
         /\ Processes \in Nat /\ Processes > 0
         /\ cfg.batch * Processes \in Nat /\ cfg.batch <= cfg.batch * Processes
<1>1. cfg \in [pool : BOOLEAN, maxShots : Nat, maxErrors : Nat,
               batch : Nat \ {0}, selects : BOOLEAN, discards : BOOLEAN,
               reports : BOOLEAN]
  BY ConfigsAssumption DEF Typed
<1>2. Cardinality(Workers) \in Nat /\ Cardinality(Workers) # 0
  BY WorkersAssumption, FS_CardinalityType, FS_EmptySet
<1>3. Processes \in Nat /\ Processes > 0
  BY <1>1, <1>2 DEF Processes
<1>4. \A b, n \in Nat : b > 0 /\ n > 0 => b * n \in Nat /\ b <= b * n
  OBVIOUS
<1>5. cfg.batch \in Nat /\ cfg.batch > 0
  BY <1>1
<1> QED
  BY <1>1, <1>2, <1>3, <1>4, <1>5

\* Bounds on the shots in flight.
LEMMA Flights ==
  ASSUME Typed, WorkersSound, NEW W \in SUBSET Workers
  PROVE  /\ InFlight(W) \in Nat
         /\ InFlight(W) <= cfg.batch * Cardinality(Workers)
         /\ (\A w \in W : take[w] = 0) => InFlight(W) = 0
         /\ \A w \in W : take[w] <= InFlight(W)
<1>1. take \in [Workers -> Nat] /\ \A w \in Workers : take[w] <= cfg.batch
  BY DEF Typed, WorkersSound
<1>2. cfg.batch \in Nat
  BY Fields
<1>3. Held(take, W) \in Nat /\ Held(take, W) <= cfg.batch * Cardinality(Workers)
  BY <1>1, <1>2, HeldBounded
<1>4. (\A w \in W : take[w] = 0) => Held(take, W) = 0
  BY HeldNothing
<1>5. ASSUME NEW w \in W PROVE take[w] <= Held(take, W)
  <2>1. Held(take, W) = Held(take, W \ {w}) + take[w]
    BY <1>1, <1>2, HeldSplits
  <2>2. Held(take, W \ {w}) \in Nat
    BY <1>1, <1>2, HeldBounded, W \ {w} \in SUBSET Workers
  <2> QED
    BY <1>1, <2>1, <2>2
<1> QED
  BY <1>3, <1>4, <1>5, InFlightIs

\* A worker that is alive reserves or hands in.
LEMMA FlightsChange ==
  ASSUME Typed, WorkersSound, NEW v \in Workers, wpc[v] # "dead",
         NEW n \in Nat, n <= cfg.batch, take' = [take EXCEPT ![v] = n],
         NEW to \in Places, to # "dead", wpc' = [wpc EXCEPT ![v] = to]
  PROVE  /\ Dead' = Dead
         /\ InFlight(Workers)' = InFlight(Workers) - take[v] + n
         /\ InFlight(Workers \ Dead)' = InFlight(Workers \ Dead) - take[v] + n
<1>1. take \in [Workers -> Nat] /\ \A w \in Workers : take[w] <= cfg.batch
  BY DEF Typed, WorkersSound
<1>2. cfg.batch \in Nat
  BY Fields
<1>3. Dead' = Dead
  BY DEF Typed, Dead
<1>4. ASSUME NEW W \in SUBSET Workers, v \in W
      PROVE  Held(take', W) = Held(take, W) - take[v] + n
  BY <1>1, <1>2, <1>4, HeldChanges
<1>5. InFlight(Workers)' = Held(take', Workers)
  BY DEF InFlight, Held, Hands
<1>6. InFlight(Workers \ Dead)' = Held(take', Workers \ Dead)
  BY <1>3 DEF InFlight, Held, Hands
<1>7. v \in Workers \ Dead /\ Workers \ Dead \in SUBSET Workers
  BY DEF Dead
<1> QED
  BY <1>3, <1>4, <1>5, <1>6, <1>7, InFlightIs

\* Whoever dies takes its shots along.
LEMMA FlightsDie ==
  ASSUME Typed, WorkersSound, NEW v \in Workers, wpc[v] # "dead",
         take' = take, wpc' = [wpc EXCEPT ![v] = "dead"]
  PROVE  /\ Dead' = Dead \cup {v}
         /\ InFlight(Workers)' = InFlight(Workers)
         /\ InFlight(Workers \ Dead)' = InFlight(Workers \ Dead) - take[v]
<1>1. take \in [Workers -> Nat] /\ \A w \in Workers : take[w] <= cfg.batch
  BY DEF Typed, WorkersSound
<1>2. cfg.batch \in Nat
  BY Fields
<1>3. Dead' = Dead \cup {v}
  BY DEF Typed, Dead
<1>4. v \in Workers \ Dead /\ Workers \ Dead \in SUBSET Workers
  BY DEF Dead
<1>5. Held(take, Workers \ Dead) = Held(take, (Workers \ Dead) \ {v}) + take[v]
  BY <1>1, <1>2, <1>4, HeldSplits
<1>6. Held(take, (Workers \ Dead) \ {v}) \in Nat /\ take[v] \in Nat
  BY <1>1, <1>2, HeldBounded, (Workers \ Dead) \ {v} \in SUBSET Workers
<1>7. InFlight(Workers \ Dead)' = Held(take, (Workers \ Dead) \ {v})
  <2>1. Workers \ Dead' = (Workers \ Dead) \ {v}
    BY <1>3
  <2> QED
    BY <2>1 DEF InFlight, Held, Hands
<1>8. InFlight(Workers)' = InFlight(Workers)
  BY DEF InFlight
<1> QED
  BY <1>3, <1>5, <1>6, <1>7, <1>8, InFlightIs

\* Steps that touch no reservation and kill nobody.
LEMMA FlightsStay ==
  ASSUME Typed, take' = take, wpc' = wpc \/ \E v \in Workers :
           wpc[v] # "dead" /\ \E to \in Places : to # "dead" /\ wpc' = [wpc EXCEPT ![v] = to]
  PROVE  /\ Dead' = Dead
         /\ InFlight(Workers)' = InFlight(Workers)
         /\ InFlight(Workers \ Dead)' = InFlight(Workers \ Dead)
<1>1. Dead' = Dead
  BY DEF Typed, Dead
<1> QED
  BY <1>1 DEF InFlight

-----------------------------------------------------------------------------
(* The invariant holds initially and no step breaks it.                     *)

LEMMA PoolInit == Init => PoolInv
<1> SUFFICES ASSUME Init PROVE PoolInv
  OBVIOUS
<1>1. Typed
  BY DEF Init, Typed, Places, Counts, Blank, Nothing
<1>2. WorkersSound
  BY <1>1, Fields DEF Init, WorkersSound
<1>3. ParentSound
  BY <1>1, Fields DEF Init, ParentSound
<1>4. InFlight(Workers) = 0 /\ InFlight(Workers \ Dead) = 0
  BY <1>1, <1>2, Flights, Workers \ Dead \in SUBSET Workers DEF Init
<1>5. BoundsSound
  BY <1>1, <1>4, Fields DEF Init, BoundsSound
<1>6. WorkConserved
  BY <1>4 DEF Init, WorkConserved
<1> QED
  BY <1>1, <1>2, <1>3, <1>5, <1>6 DEF PoolInv

\* A worker that sets up, leaves or finds nothing kept.
LEMMA MovesKeep ==
  ASSUME PoolInv, NEW w \in Workers, SetUp(w) \/ Leave(w) \/ SampleNone(w)
  PROVE  PoolInv'
<1> USE DEF PoolInv
<1>1. Typed' /\ take' = take /\ wpc[w] # "dead"
      /\ \E to \in {"reserve", "exited", "skip"} : wpc' = [wpc EXCEPT ![w] = to]
  BY DEF SetUp, Leave, SampleNone, Typed, Places, counters, parent
<1>2. InFlight(Workers)' = InFlight(Workers)
      /\ InFlight(Workers \ Dead)' = InFlight(Workers \ Dead)
  BY <1>1, FlightsStay DEF Places
<1>3. cfg' = cfg /\ UNCHANGED counters /\ UNCHANGED tally /\ UNCHANGED parent
  BY DEF SetUp, Leave, SampleNone
<1>4. WorkersSound'
  BY <1>1, <1>3 DEF SetUp, Leave, SampleNone, WorkersSound, Full, Typed, counters
<1>5. ParentSound'
  BY <1>1, <1>3 DEF SetUp, Leave, SampleNone, ParentSound, Full, Typed, counters,
                    parent, Ended
<1>6. BoundsSound'
  BY <1>1, <1>2, <1>3 DEF BoundsSound, Processes, counters
<1>7. WorkConserved'
  BY <1>2, <1>3 DEF WorkConserved, counters
<1> QED
  BY <1>1, <1>4, <1>5, <1>6, <1>7

\* A reservation: the limit on shots is kept by Share, and the one on errors
\* because no error was left to make when it was tested.
LEMMA ReserveKeeps ==
  ASSUME PoolInv, NEW w \in Workers, Reserve(w)
  PROVE  PoolInv'
<1> USE DEF PoolInv
<1>1. /\ Share \in Nat /\ Share > 0
      /\ Share <= cfg.batch /\ shots + Share <= cfg.maxShots
  BY ShareSize DEF Reserve
<1>2. /\ take' = [take EXCEPT ![w] = Share] /\ shots' = shots + Share
      /\ wpc' = [wpc EXCEPT ![w] = "sample"] /\ wpc[w] = "reserve"
      /\ cfg' = cfg /\ completed' = completed /\ kept' = kept
      /\ errors' = errors /\ tally' = tally /\ pc' = pc /\ snap' = snap
      /\ emitted' = emitted /\ stats' = stats
  BY DEF Reserve, parent
<1>3. Typed'
  BY <1>1, <1>2 DEF Typed, Places
<1>4. take[w] = 0 /\ cfg.pool
  BY <1>2, Fields DEF WorkersSound, ParentSound
<1>5. /\ InFlight(Workers)' = InFlight(Workers) - take[w] + Share
      /\ InFlight(Workers \ Dead)' = InFlight(Workers \ Dead) - take[w] + Share
      /\ Dead' = Dead
  BY <1>1, <1>2, FlightsChange DEF Places
<1>6. /\ InFlight(Workers) \in Nat /\ InFlight(Workers \ Dead) \in Nat
  BY Flights, Workers \ Dead \in SUBSET Workers
<1>7. WorkersSound'
  <2>1. \A v \in Workers : take'[v] = IF v = w THEN Share ELSE take[v]
    BY <1>2 DEF Typed
  <2>2. \A v \in Workers : wpc'[v] = IF v = w THEN "sample" ELSE wpc[v]
    BY <1>2 DEF Typed
  <2>3. Full => Full'
    BY <1>1, <1>2, Fields DEF Full, Typed
  <2> QED
    BY <1>1, <1>2, <2>1, <2>2, <2>3 DEF WorkersSound
<1>8. ParentSound'
  BY <1>2, <1>4 DEF ParentSound, Typed, Ended
<1>9. BoundsSound'
  <2>1. errors < cfg.maxErrors /\ cfg.maxErrors > 0
    BY Fields DEF Reserve, Full, Typed
  <2>2. InFlight(Workers \ Dead)' <= cfg.batch * Cardinality(Workers)
    <3>1. \A v \in Workers : take'[v] <= cfg.batch
      BY <1>1, <1>2, <1>3 DEF Typed, WorkersSound
    <3>2. Held(take', Workers \ Dead) <= cfg.batch * Cardinality(Workers)
      BY <1>3, <3>1, Fields, HeldBounded, Workers \ Dead \in SUBSET Workers DEF Typed
    <3>3. InFlight(Workers \ Dead)' = Held(take', Workers \ Dead)
      BY <1>5 DEF InFlight, Held, Hands
    <3> QED
      BY <3>2, <3>3
  <2>3. Processes' = Cardinality(Workers) /\ Processes = Cardinality(Workers)
    BY <1>2, <1>4 DEF Processes
  <2>4. InFlight(Workers \ Dead)' \in Nat
    BY <1>1, <1>4, <1>5, <1>6
  <2>5. errors' + InFlight(Workers \ Dead)' < cfg.maxErrors + cfg.batch * Processes
    BY <1>2, <2>1, <2>2, <2>3, <2>4, Fields DEF Typed
  <2>6. shots' < cfg.maxShots + 1
    BY <1>1, <1>2, <1>3, Fields DEF Typed
  <2> QED
    BY <1>2, <1>4, <2>1, <2>3, <2>5, <2>6 DEF BoundsSound
<1>10. WorkConserved'
  BY <1>1, <1>2, <1>4, <1>5, <1>6 DEF WorkConserved, Typed
<1> QED
  BY <1>3, <1>7, <1>8, <1>9, <1>10

LEMMA SampleSomeKeeps ==
  ASSUME PoolInv, NEW w \in Workers, SampleSome(w)
  PROVE  PoolInv'
<1> USE DEF PoolInv
<1>1. PICK t \in Tallies(take[w]) : tally' = [tally EXCEPT ![w] = t]
  BY DEF SampleSome
<1>2. /\ t \in [kept : Nat, errors : Nat]
      /\ t.errors <= t.kept /\ t.kept <= take[w]
  BY DEF Tallies, Typed
<1>3. /\ take' = take /\ wpc[w] = "sample" /\ wpc' = [wpc EXCEPT ![w] = "count"]
      /\ cfg' = cfg /\ UNCHANGED counters /\ UNCHANGED parent
  BY DEF SampleSome
<1>4. Typed'
  BY <1>1, <1>2, <1>3 DEF Typed, Places, counters, parent
<1>5. InFlight(Workers)' = InFlight(Workers)
      /\ InFlight(Workers \ Dead)' = InFlight(Workers \ Dead)
  BY <1>3, FlightsStay DEF Places
<1>6. WorkersSound'
  <2>1. \A v \in Workers : tally'[v] = IF v = w THEN t ELSE tally[v]
    BY <1>1 DEF Typed
  <2>2. \A v \in Workers : wpc'[v] = IF v = w THEN "count" ELSE wpc[v]
    BY <1>3 DEF Typed
  <2>3. Full' = Full
    BY <1>3 DEF Full, counters
  <2> QED
    BY <1>2, <1>3, <2>1, <2>2, <2>3 DEF WorkersSound
<1>7. ParentSound'
  BY <1>3 DEF ParentSound, Full, Typed, counters, parent, Ended
<1>8. BoundsSound' /\ WorkConserved'
  BY <1>3, <1>5 DEF BoundsSound, WorkConserved, Processes, counters
<1> QED
  BY <1>4, <1>6, <1>7, <1>8

\* What a worker hands in leaves its hands as it enters the counts: a batch
\* that was judged, or one of which nothing was kept.
LEMMA HandInKeeps ==
  ASSUME PoolInv, NEW w \in Workers, Skip(w) \/ Count(w)
  PROVE  PoolInv'
<1> USE DEF PoolInv
<1> DEFINE k == IF Skip(w) THEN 0 ELSE tally[w].kept
           e == IF Skip(w) THEN 0 ELSE tally[w].errors
<1>1. /\ completed' = completed + take[w]
      /\ kept' = kept + k /\ errors' = errors + e /\ shots' = shots
      /\ take' = [take EXCEPT ![w] = 0] /\ wpc' = [wpc EXCEPT ![w] = "reserve"]
      /\ tally' \in {tally, [tally EXCEPT ![w] = Nothing]}
      /\ wpc[w] \in {"skip", "count"}
      /\ cfg' = cfg /\ UNCHANGED parent
  <2>1. CASE Skip(w)
    BY <2>1 DEF Skip, Typed
  <2>2. CASE Count(w) /\ ~Skip(w)
    BY <2>2 DEF Count
  <2> QED
    BY <2>1, <2>2
<1>2. k \in Nat /\ e \in Nat /\ e <= k /\ k <= take[w] /\ take[w] \in Nat
  <2>1. take[w] \in Nat /\ tally[w].kept \in Nat /\ tally[w].errors \in Nat
    BY DEF Typed
  <2>2. CASE Skip(w)
    BY <2>1, <2>2
  <2>3. CASE Count(w) /\ ~Skip(w)
    BY <2>1, <2>3 DEF Count, WorkersSound
  <2> QED
    BY <2>2, <2>3
<1> HIDE DEF k, e
<1>3. Typed'
  <2>1. completed' \in Nat /\ kept' \in Nat /\ errors' \in Nat
    BY <1>1, <1>2 DEF Typed
  <2>2. tally' \in [Workers -> [kept : Nat, errors : Nat]]
    BY <1>1 DEF Typed, Nothing
  <2> QED
    BY <1>1, <2>1, <2>2 DEF Typed, Places, parent
<1>4. /\ InFlight(Workers)' = InFlight(Workers) - take[w] + 0
      /\ InFlight(Workers \ Dead)' = InFlight(Workers \ Dead) - take[w] + 0
      /\ Dead' = Dead
  <2>1. 0 \in Nat /\ 0 <= cfg.batch /\ wpc[w] # "dead"
    BY <1>1, Fields
  <2> QED
    BY <1>1, <2>1, FlightsChange DEF Places
<1>5. /\ InFlight(Workers) \in Nat /\ InFlight(Workers \ Dead) \in Nat
  BY Flights, Workers \ Dead \in SUBSET Workers
<1>6. WorkersSound'
  <2>1. \A v \in Workers : take'[v] = IF v = w THEN 0 ELSE take[v]
    BY <1>1 DEF Typed
  <2>2. \A v \in Workers : wpc'[v] = IF v = w THEN "reserve" ELSE wpc[v]
    BY <1>1 DEF Typed
  <2>3. \A v \in Workers : v # w => tally'[v] = tally[v]
    BY <1>1 DEF Typed
  <2>4. Full => Full'
    BY <1>1, <1>2, Fields DEF Full, Typed
  <2> QED
    BY <1>1, <2>1, <2>2, <2>3, <2>4, Fields DEF WorkersSound
<1>7. ParentSound'
  <2>1. cfg.pool /\ pc # "returned"
    BY <1>1, Fields DEF ParentSound, Ended
  <2> QED
    BY <1>1, <2>1 DEF ParentSound, Typed, parent
<1>8. BoundsSound'
  <2>1. cfg.maxErrors # 0 /\ cfg.maxErrors > 0
    BY <1>1, Fields DEF BoundsSound, WorkersSound
  <2>2. errors' + InFlight(Workers \ Dead)' <= errors + InFlight(Workers \ Dead)
    BY <1>1, <1>2, <1>4, <1>5 DEF Typed
  <2>3. errors' + InFlight(Workers \ Dead)' \in Int /\ errors \in Nat
    BY <1>1, <1>2, <1>4, <1>5 DEF Typed
  <2>4. errors' + InFlight(Workers \ Dead)' < cfg.maxErrors + cfg.batch * Processes
    BY <1>5, <2>1, <2>2, <2>3, Fields DEF BoundsSound
  <2> QED
    BY <1>1, <2>1, <2>4 DEF BoundsSound, Processes
<1>9. WorkConserved'
  BY <1>1, <1>2, <1>4, <1>5 DEF WorkConserved, Typed
<1> QED
  BY <1>3, <1>6, <1>7, <1>8, <1>9

LEMMA DieKeeps ==
  ASSUME PoolInv, NEW w \in Workers, Die(w)
  PROVE  PoolInv'
<1> USE DEF PoolInv
<1>1. /\ take' = take /\ wpc[w] \notin {"unborn", "exited", "dead"}
      /\ wpc' = [wpc EXCEPT ![w] = "dead"]
      /\ cfg' = cfg /\ UNCHANGED counters /\ UNCHANGED tally /\ UNCHANGED parent
  BY DEF Die
<1>2. Typed'
  BY <1>1 DEF Typed, Places, counters, parent
<1>3. /\ InFlight(Workers)' = InFlight(Workers)
      /\ InFlight(Workers \ Dead)' = InFlight(Workers \ Dead) - take[w]
  BY <1>1, FlightsDie
<1>4. InFlight(Workers \ Dead) \in Nat /\ take[w] \in Nat
  BY Flights, Workers \ Dead \in SUBSET Workers DEF Typed
<1>5. WorkersSound'
  <2>1. \A v \in Workers : wpc'[v] = IF v = w THEN "dead" ELSE wpc[v]
    BY <1>1 DEF Typed
  <2>2. Full' = Full
    BY <1>1 DEF Full, counters
  <2> QED
    BY <1>1, <2>1, <2>2 DEF WorkersSound
<1>6. ParentSound'
  BY <1>1 DEF ParentSound, Full, Typed, counters, parent, Ended
<1>7. BoundsSound'
  <2>1. cfg.maxErrors > 0 => errors + InFlight(Workers \ Dead)' <
                               cfg.maxErrors + cfg.batch * Processes
    BY <1>3, <1>4, Fields DEF BoundsSound, Typed
  <2> QED
    BY <1>1, <2>1 DEF BoundsSound, Processes, counters
<1>8. WorkConserved'
  BY <1>1, <1>3 DEF WorkConserved, counters
<1> QED
  BY <1>2, <1>5, <1>6, <1>7, <1>8

\* Starting a process, polling, reporting and ending change no counter.
LEMMA ParentKeeps ==
  ASSUME PoolInv, Oversee \/ SingleRaise \/ Halt, ~SingleBatch
  PROVE  PoolInv'
<1> USE DEF PoolInv
<1>1. CASE Spawn
  <2>1. PICK w \in Workers :
          /\ wpc[w] = "unborn" /\ wpc' = [wpc EXCEPT ![w] = "setup"]
          /\ pc' = IF \A v \in Workers \ {w} : wpc[v] # "unborn"
                   THEN "poll" ELSE "spawn"
    BY <1>1 DEF Spawn
  <2>2. /\ pc = "spawn" /\ cfg' = cfg /\ UNCHANGED counters /\ take' = take
        /\ tally' = tally /\ snap' = snap /\ emitted' = emitted /\ stats' = stats
    BY <1>1 DEF Spawn
  <2>3. Typed'
    BY <2>1, <2>2 DEF Typed, Places, counters
  <2>4. InFlight(Workers)' = InFlight(Workers)
        /\ InFlight(Workers \ Dead)' = InFlight(Workers \ Dead)
    BY <2>1, <2>2, FlightsStay DEF Places
  <2>5. WorkersSound'
    BY <2>1, <2>2 DEF WorkersSound, Full, Typed, counters
  <2>6. ParentSound'
    BY <2>1, <2>2 DEF ParentSound, Typed
  <2>7. BoundsSound' /\ WorkConserved'
    BY <2>2, <2>4 DEF BoundsSound, WorkConserved, Processes, counters
  <2> QED
    BY <2>3, <2>5, <2>6, <2>7
<1>2. CASE ~Spawn
  <2>1. cfg' = cfg /\ UNCHANGED counters /\ UNCHANGED locals
    BY <1>2 DEF Oversee, PollShots, PollKept, PollErrors, Throttled, Emit, Join,
                SingleBatch, SingleReturn, SingleRaise, Halt, vars, counters, locals
  <2>2. InFlight(Workers)' = InFlight(Workers)
        /\ InFlight(Workers \ Dead)' = InFlight(Workers \ Dead)
    BY <2>1, FlightsStay DEF locals
  <2>3. WorkersSound' /\ BoundsSound' /\ WorkConserved'
    BY <2>1, <2>2 DEF WorkersSound, BoundsSound, WorkConserved, Processes, Full,
                      locals, counters
  <2>4. snap' \in Counts /\ stats' \in Counts /\ emitted' \in BOOLEAN
    <3> USE DEF Typed, Counts
    <3>1. \A s, k \in Nat : Denominator(s, k) \in Nat
      BY DEF Denominator
    <3>2. CASE PollShots
      BY <3>2 DEF PollShots, Blank
    <3>3. CASE PollKept
      BY <3>1, <3>3 DEF PollKept
    <3>4. CASE PollErrors
      BY <3>4 DEF PollErrors
    <3>5. CASE Throttled
      BY <3>5 DEF Throttled, Blank
    <3>6. CASE Emit
      BY <3>6 DEF Emit, Blank
    <3>7. CASE Join
      BY <3>1, <3>7 DEF Join
    <3>8. CASE SingleReturn
      BY <3>1, <3>8 DEF SingleReturn
    <3>9. CASE SingleRaise
      BY <3>9 DEF SingleRaise
    <3>10. CASE Halt
      BY <3>10 DEF Halt, vars, parent
    <3> QED
      BY <1>2, <3>2, <3>3, <3>4, <3>5, <3>6, <3>7, <3>8, <3>9, <3>10 DEF Oversee
  <2>5. pc' \in {"poll", "pollKept", "pollErrors", "emit", "returned", "raised", pc}
    BY <1>2 DEF Oversee, PollShots, PollKept, PollErrors, Throttled, Emit, Join,
                SingleBatch, SingleReturn, SingleRaise, Halt, vars, parent
  <2>6. Typed'
    BY <2>1, <2>4, <2>5 DEF Typed, locals, counters
  <2>7. \/ pc' = pc /\ stats' = stats
        \/ pc \in {"poll", "pollKept", "pollErrors", "emit"} /\ pc' # "returned"
        \/ Join
        \/ SingleReturn
        \/ SingleRaise
    BY <1>2 DEF Oversee, PollShots, PollKept, PollErrors, Throttled, Emit,
                SingleBatch, Halt, vars, parent
  <2>8. pc' # "single" \/ pc' = pc
    BY <2>5
  <2>9. pc' # "spawn" \/ pc' = pc
    BY <2>5
  <2>10. ParentSound'
    <3>1. CASE pc' = pc /\ stats' = stats
      BY <3>1, <2>1 DEF ParentSound, Ended, Full, locals, counters
    <3>2. CASE pc \in {"poll", "pollKept", "pollErrors", "emit"} /\ pc' # "returned"
      BY <3>2, <2>1, <2>8, <2>9, Fields DEF ParentSound, locals
    <3>3. CASE Join
      <4>1. cfg.pool /\ pc = "poll" /\ (\A w \in Workers : Ended(w))
            /\ stats' = [shots |-> completed, kept |-> kept, errors |-> errors]
            /\ pc' \in {"raised", "returned"}
        BY <3>3, Fields DEF Join, ParentSound
      <4> QED
        BY <4>1, <2>1 DEF ParentSound, Ended, locals, counters
    <3>4. CASE SingleReturn
      <4>1. ~cfg.pool /\ pc = "single" /\ Full /\ pc' = "returned"
            /\ stats' = [shots |-> completed, kept |-> kept, errors |-> errors]
        BY <3>4 DEF SingleReturn, ParentSound
      <4> QED
        BY <4>1, <2>1 DEF ParentSound, Full, locals, counters
    <3>5. CASE SingleRaise
      BY <3>5, <2>1 DEF SingleRaise, ParentSound, locals
    <3> QED
      BY <2>7, <3>1, <3>2, <3>3, <3>4, <3>5
  <2> QED
    BY <2>3, <2>6, <2>10
<1> QED
  BY <1>1, <1>2

\* One process works in whole batches: it may pass the limit on shots by less
\* than one, and holds nothing between two turns of its loop.
LEMMA SingleKeeps ==
  ASSUME PoolInv, SingleBatch
  PROVE  PoolInv'
<1> USE DEF PoolInv
<1>1. PICK t \in Tallies(cfg.batch) : /\ kept' = kept + t.kept
                                     /\ errors' = errors + t.errors
  BY DEF SingleBatch
<1>2. /\ t.kept \in Nat /\ t.errors \in Nat
      /\ t.errors <= t.kept /\ t.kept <= cfg.batch
  BY Fields DEF Tallies
<1>3. /\ pc = "single" /\ ~Full /\ ~cfg.pool
      /\ shots' = shots + cfg.batch /\ completed' = completed + cfg.batch
      /\ cfg' = cfg /\ UNCHANGED locals /\ UNCHANGED parent
  BY DEF SingleBatch, ParentSound
<1>4. \A w \in Workers : wpc[w] = "unborn" /\ take[w] = 0
  BY <1>3 DEF ParentSound, WorkersSound
<1>5. Typed'
  BY <1>1, <1>2, <1>3, Fields DEF Typed, locals, parent
<1>6. InFlight(Workers) = 0 /\ InFlight(Workers \ Dead) = 0
  BY <1>4, Flights, Workers \ Dead \in SUBSET Workers
<1>7. InFlight(Workers)' = InFlight(Workers)
      /\ InFlight(Workers \ Dead)' = InFlight(Workers \ Dead)
  BY <1>3, FlightsStay DEF locals
<1>8. shots < cfg.maxShots /\ errors < cfg.maxErrors
  BY <1>3, Fields DEF Full, Typed
<1>9. WorkersSound' /\ ParentSound'
  BY <1>3, <1>4, Fields DEF WorkersSound, ParentSound, locals, parent
<1>10. BoundsSound'
  <2>1. Processes' = 1 /\ Processes = 1
    BY <1>3 DEF Processes
  <2>2. errors' + 0 < cfg.maxErrors + cfg.batch * 1
    BY <1>1, <1>2, <1>8, Fields DEF Typed
  <2>3. shots' < cfg.maxShots + cfg.batch
    BY <1>3, <1>8, Fields DEF Typed
  <2>4. cfg.maxErrors # 0
    BY <1>8, Fields DEF Typed
  <2> QED
    BY <1>3, <1>6, <1>7, <2>1, <2>2, <2>3, <2>4 DEF BoundsSound
<1>11. WorkConserved'
  BY <1>1, <1>2, <1>3, <1>6, <1>7, Fields DEF WorkConserved, Typed
<1> QED
  BY <1>5, <1>9, <1>10, <1>11

LEMMA PoolStep == PoolInv /\ [Next]_vars => PoolInv'
<1> SUFFICES ASSUME PoolInv, [Next]_vars PROVE PoolInv'
  OBVIOUS
<1>1. CASE UNCHANGED vars
  <2>1. take' = take /\ wpc' = wpc /\ cfg' = cfg /\ UNCHANGED counters
        /\ UNCHANGED tally /\ UNCHANGED parent
    BY <1>1 DEF vars, locals
  <2>2. InFlight(Workers)' = InFlight(Workers)
        /\ InFlight(Workers \ Dead)' = InFlight(Workers \ Dead)
    BY <2>1, FlightsStay DEF PoolInv
  <2> QED
    BY <2>1, <2>2 DEF PoolInv, Typed, WorkersSound, ParentSound, BoundsSound,
                      WorkConserved, Processes, Ended, Full, counters, parent
<1>2. ASSUME NEW w \in Workers, Work(w) PROVE PoolInv'
  BY <1>2, MovesKeep, ReserveKeeps, SampleSomeKeeps, HandInKeeps DEF Work
<1>3. ASSUME NEW w \in Workers, Die(w) PROVE PoolInv'
  BY <1>3, DieKeeps
<1>4. CASE Oversee \/ SingleRaise \/ Halt
  BY <1>4, ParentKeeps, SingleKeeps
<1> QED
  BY <1>1, <1>2, <1>3, <1>4 DEF Next

THEOREM PoolCorrect == Spec => []PoolInv
<1> QED
  BY PoolInit, PoolStep, PTL DEF Spec

\* No path through the worker loop counts a shot twice or never, and a rate
\* computed from the counters is a rate, for any number of workers and
\* whichever of them die.
THEOREM WorkIsConserved == Spec => []WorkConserved
<1>1. PoolInv => WorkConserved
  BY DEF PoolInv
<1> QED
  BY <1>1, PoolCorrect, PTL

\* A run passes its limits by less than one batch for each process.
THEOREM LimitsAreHeld == Spec => []LimitsHeld
<1>1. PoolInv => LimitsHeld
  <2> SUFFICES ASSUME PoolInv PROVE LimitsHeld
    OBVIOUS
  <2>1. errors > 0 => cfg.maxErrors > 0
    BY Fields DEF PoolInv, BoundsSound, Typed
  <2> QED
    BY <2>1 DEF PoolInv, BoundsSound, LimitsHeld, Processes
<1> QED
  BY <1>1, PoolCorrect, PTL

\* When all workers of a run that returned are healthy, they left by a limit,
\* with nothing in their hands.
Earned ==
  pc = "returned" =>
    /\ stats = [shots |-> completed, kept |-> kept, errors |-> errors]
    /\ Dead # {} \/ completed >= cfg.maxShots \/ errors >= cfg.maxErrors

LEMMA ReturnIsEarned == PoolInv => Earned
<1> SUFFICES ASSUME PoolInv, pc = "returned"
    PROVE  /\ stats = [shots |-> completed, kept |-> kept, errors |-> errors]
           /\ Dead # {} \/ completed >= cfg.maxShots \/ errors >= cfg.maxErrors
  BY DEF Earned
<1>1. stats = [shots |-> completed, kept |-> kept, errors |-> errors]
  BY DEF PoolInv, ParentSound
<1>2. ASSUME Dead = {} PROVE Full /\ \A w \in Workers : take[w] = 0
  <2>1. CASE cfg.pool
    <3>1. \A w \in Workers : wpc[w] = "exited"
      BY <1>2, <2>1 DEF PoolInv, ParentSound, Ended, Dead
    <3> QED
      BY <3>1, WorkersAssumption, FS_EmptySet DEF PoolInv, WorkersSound
  <2>2. CASE ~cfg.pool
    BY <2>2 DEF PoolInv, ParentSound, WorkersSound
  <2> QED
    BY <2>1, <2>2
<1>3. Dead = {} => shots = completed
  <2>1. Dead = {} => InFlight(Workers) = 0
    BY <1>2, Flights DEF PoolInv
  <2> QED
    BY <2>1 DEF PoolInv, WorkConserved, Typed
<1> QED
  BY <1>1, <1>2, <1>3 DEF Full

\* A run that returns has a reason to, and returns everybody's work.
THEOREM ReturnsEverything == Spec => []ReturnsAll
<1>1. PoolInv => ReturnsAll
  BY ReturnIsEarned DEF Earned, ReturnsAll
<1> QED
  BY <1>1, PoolCorrect, PTL

-----------------------------------------------------------------------------
(* The refinement: a batch handed in is an addition of the abstract run, a  *)
(* death loses a part of the work, and the rest is invisible or ends it.    *)

LEMMA HandInAdds ==
  ASSUME PoolInv, NEW w \in Workers, Skip(w) \/ Count(w)
  PROVE  Run!Add
<1> USE DEF PoolInv
<1> DEFINE k == IF Skip(w) THEN 0 ELSE tally[w].kept
           e == IF Skip(w) THEN 0 ELSE tally[w].errors
           n == take[w]
<1>1. /\ completed' = completed + n /\ kept' = kept + k /\ errors' = errors + e
      /\ wpc[w] \in {"skip", "count"} /\ wpc' = [wpc EXCEPT ![w] = "reserve"]
      /\ cfg' = cfg /\ pc' = pc
  <2>1. CASE Skip(w)
    BY <2>1 DEF Skip, Typed, parent
  <2>2. CASE Count(w) /\ ~Skip(w)
    BY <2>2 DEF Count, parent
  <2> QED
    BY <2>1, <2>2
<1>2. k \in 0 .. n /\ e \in 0 .. k
  <2>1. n \in Nat /\ tally[w].kept \in Nat /\ tally[w].errors \in Nat
    BY DEF Typed
  <2>2. CASE Skip(w)
    BY <2>1, <2>2
  <2>3. CASE Count(w) /\ ~Skip(w)
    BY <2>1, <2>3 DEF Count, WorkersSound
  <2> QED
    BY <2>2, <2>3
<1> HIDE DEF k, e
<1>3. n \in 1 .. cfg.batch
  BY <1>1, Fields DEF Typed, WorkersSound
<1> HIDE DEF n
<1>4. cfg.pool /\ pc # "returned"
  BY <1>1, Fields DEF ParentSound, Ended
<1>5. completed + n <= cfg.maxShots + 0
  <2>1. n <= InFlight(Workers) /\ InFlight(Workers) \in Nat
    BY Flights DEF n
  <2>2. shots <= cfg.maxShots
    BY <1>4, Fields DEF BoundsSound, Typed
  <2>3. shots = completed + InFlight(Workers)
    BY DEF WorkConserved
  <2> QED
    BY <1>3, <2>1, <2>2, <2>3, Fields DEF Typed
<1>6. (Dead # {})' = (Dead # {}) /\ Status' = Status /\ Task' = Task
  BY <1>1 DEF Dead, Typed, Status, Finished, Task
<1>7. Status # "returned" /\ Task.batch = cfg.batch /\ Task.maxShots = cfg.maxShots
      /\ Task.surplus = 0
  BY <1>4 DEF Status, Finished, Task
<1> QED
  BY <1>1, <1>2, <1>3, <1>5, <1>6, <1>7 DEF Run!Add

LEMMA SingleAdds ==
  ASSUME PoolInv, SingleBatch
  PROVE  Run!Add
<1> USE DEF PoolInv
<1>1. PICK t \in Tallies(cfg.batch) : /\ kept' = kept + t.kept
                                     /\ errors' = errors + t.errors
  BY DEF SingleBatch
<1>2. t.kept \in 0 .. cfg.batch /\ t.errors \in 0 .. t.kept
  BY Fields DEF Tallies
<1>3. /\ pc = "single" /\ pc' = pc /\ ~Full /\ ~cfg.pool
      /\ completed' = completed + cfg.batch /\ cfg' = cfg /\ wpc' = wpc
  BY DEF SingleBatch, ParentSound, locals, parent
<1>4. completed <= shots
  BY Flights DEF WorkConserved, Typed
<1>5. completed + cfg.batch <= cfg.maxShots + (cfg.batch - 1)
  BY <1>3, <1>4, Fields DEF Full, Typed
<1>6. (Dead # {})' = (Dead # {}) /\ Status' = Status /\ Task' = Task
  BY <1>3 DEF Dead, Status, Finished, Task
<1>7. Status # "returned" /\ Task.batch = cfg.batch /\ Task.maxShots = cfg.maxShots
      /\ Task.surplus = cfg.batch - 1
  BY <1>3 DEF Status, Finished, Task
<1>8. cfg.batch \in 1 .. cfg.batch
  BY Fields
<1> QED
  BY <1>1, <1>2, <1>3, <1>5, <1>6, <1>7, <1>8 DEF Run!Add

\* Every step of the pool is a step of the abstract run or none.
LEMMA RunStep == PoolInv /\ Earned' /\ [Next]_vars => [Run!Next]_(Run!vars)
<1> SUFFICES ASSUME PoolInv, Earned', [Next]_vars PROVE [Run!Next]_(Run!vars)
  OBVIOUS
<1> DEFINE Still == /\ cfg' = cfg /\ completed' = completed /\ kept' = kept
                    /\ errors' = errors /\ (Dead # {})' = (Dead # {})
<1>1. Still => Task' = Task
  BY DEF Task
<1>2. ASSUME Still, Status' = Status PROVE UNCHANGED Run!vars
  BY <1>1, <1>2 DEF Run!vars
<1>3. CASE UNCHANGED vars
  <2>1. Still /\ Status' = Status
    BY <1>3 DEF vars, counters, locals, parent, Dead, Status, Finished
  <2> QED
    BY <2>1, <1>2
<1>4. ASSUME NEW w \in Workers, Work(w) PROVE [Run!Next]_(Run!vars)
  <2>1. CASE Skip(w) \/ Count(w)
    BY <2>1, HandInAdds DEF Run!Next
  <2>2. CASE SetUp(w) \/ Leave(w) \/ Reserve(w) \/ SampleNone(w) \/ SampleSome(w)
    <3>1. /\ cfg' = cfg /\ completed' = completed /\ kept' = kept
          /\ errors' = errors /\ pc' = pc /\ wpc[w] # "dead"
          /\ \E to \in Places \ {"dead"} : wpc' = [wpc EXCEPT ![w] = to]
      BY <2>2 DEF SetUp, Leave, Reserve, SampleNone, SampleSome, counters, parent,
                  Places
    <3>2. Still /\ Status' = Status
      BY <3>1 DEF PoolInv, Typed, Dead, Status, Finished
    <3> QED
      BY <3>2, <1>2
  <2> QED
    BY <1>4, <2>1, <2>2 DEF Work
<1>5. ASSUME NEW w \in Workers, Die(w) PROVE Run!Lose
  <2>1. (Dead # {})' = TRUE
    BY <1>5 DEF Die, PoolInv, Typed, Dead
  <2> QED
    BY <1>5, <2>1 DEF Run!Lose, Die, counters, parent, Task, Status, Finished
<1>6. CASE SingleBatch
  BY <1>6, SingleAdds DEF Run!Next
<1>7. CASE (Oversee \/ SingleRaise \/ Halt) /\ ~SingleBatch
  <2>1. Still
    <3>1. cfg' = cfg /\ UNCHANGED counters
      BY <1>7 DEF Oversee, Spawn, PollShots, PollKept, PollErrors, Throttled, Emit,
                  Join, SingleReturn, SingleRaise, Halt, vars
    <3>2. Dead' = Dead
      BY <1>7 DEF Oversee, Spawn, PollShots, PollKept, PollErrors, Throttled, Emit,
                  Join, SingleReturn, SingleRaise, Halt, vars, locals, Dead, PoolInv, Typed
    <3> QED
      BY <3>1, <3>2 DEF counters
  <2>2. \/ Status' = Status
        \/ Status = "running" /\ Status' \in {"returned", "raised"}
    BY <1>7 DEF Oversee, Spawn, PollShots, PollKept, PollErrors, Throttled, Emit, Join,
                SingleReturn, SingleRaise, Halt, vars, parent, Status, Finished
  <2>3. CASE Status' = Status
    BY <2>1, <2>3, <1>2
  <2>4. CASE Status = "running" /\ Status' = "raised"
    BY <2>1, <2>4, <1>1 DEF Run!Next, Run!Raise
  <2>5. CASE Status = "running" /\ Status' = "returned"
    <3>1. pc' = "returned"
      BY <2>5 DEF Status, Finished
    <3>2. Dead' # {} \/ completed' >= cfg'.maxShots \/ errors' >= cfg'.maxErrors
      BY <3>1 DEF Earned
    <3>3. Dead # {} \/ completed >= Task.maxShots \/ errors >= Task.maxErrors
      BY <2>1, <3>2 DEF Task
    <3> QED
      BY <2>1, <2>5, <3>3, <1>1 DEF Run!Next, Run!Return
  <2> QED
    BY <2>2, <2>3, <2>4, <2>5
<1> QED
  BY <1>3, <1>4, <1>5, <1>6, <1>7 DEF Next, Oversee, Run!Next

\* The pool and the single loop implement the abstract run, for any number of
\* workers, any limits and any batch: every step a caller can see is a batch
\* with its verdict, a lost process, or the end for one of the named reasons.
THEOREM PoolImplementsRun == Spec => ImplementsRun
<1>1. Init => Run!Init
  <2> SUFFICES ASSUME Init PROVE Run!Init
    OBVIOUS
  <2>1. Dead = {}
    BY DEF Init, Dead
  <2>2. Status = "running"
    BY DEF Init, Status, Finished
  <2> QED
    BY <2>1, <2>2 DEF Init, Run!Init
<1> QED
  BY <1>1, PoolInit, PoolStep, ReturnIsEarned, RunStep, PTL DEF Spec, ImplementsRun
=============================================================================
