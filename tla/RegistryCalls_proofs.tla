------------------------ MODULE RegistryCalls_proofs ------------------------
(***************************************************************************)
(* What holds of the registry for all programs, patches and geometries:    *)
(* unless a coupler is removed whose cells a patch has taken over and left *)
(* (RemovalsClean), the maps always agree and a freed index stays free.    *)
(***************************************************************************)
EXTENDS RegistryCalls, FiniteSetTheorems, SequenceTheorems, WellFoundedInduction, TLAPS

(***************************************************************************)
(* Indices.                                                                *)
(***************************************************************************)

\* A set of numbers that is not empty has a least one.
LEMMA LeastOne ==
  ASSUME NEW S \in SUBSET Nat, S # {}
  PROVE  Min(S) \in S /\ \A x \in S : Min(S) <= x
<1>1. PICK x \in S : \A y \in S : ~(<<y, x>> \in OpToRel(<, Nat))
  BY NatLessThanWellFounded, WFMin
<1>2. ASSUME NEW y \in S, y < x PROVE FALSE
  <2>1. <<y, x>> \in OpToRel(<, Nat)
    BY <1>2, Zenon DEF OpToRel
  <2> QED
    BY <1>1, <2>1
<1>3. \A y \in S : x <= y
  BY <1>2
<1> QED
  BY <1>3 DEF Min

Before(b, c) == b[2] < c[2] \/ (b[2] = c[2] /\ b[1] < c[1])

\* The cells of a set have different places in it, below its size.
LEMMA RankDiffers ==
  ASSUME NEW C, IsFiniteSet(C), C \subseteq Int \X Int, NEW c \in C
  PROVE  /\ Rank(c, C) \in 0 .. Cardinality(C) - 1
         /\ \A d \in C : Rank(c, C) = Rank(d, C) => c = d
<1> DEFINE L(e) == {b \in C : Before(b, e)}
<1>1. \A e \in C : /\ IsFiniteSet(L(e)) /\ Cardinality(L(e)) \in Nat
                   /\ Cardinality(L(e)) < Cardinality(C)
  <2> TAKE e \in C
  <2>1. L(e) \subseteq C /\ L(e) # C
    BY DEF Before
  <2> QED
    BY <2>1, FS_Subset, FS_CardinalityType
<1>2. \A d, e \in C : Before(d, e) => Cardinality(L(d)) < Cardinality(L(e))
  <2> SUFFICES ASSUME NEW d \in C, NEW e \in C, Before(d, e)
               PROVE  Cardinality(L(d)) < Cardinality(L(e))
    OBVIOUS
  <2>1. L(d) \subseteq L(e) /\ L(d) # L(e)
    BY DEF Before
  <2>2. /\ IsFiniteSet(L(e)) /\ Cardinality(L(e)) \in Nat /\ Cardinality(L(d)) \in Nat
    BY <1>1
  <2> HIDE DEF L
  <2> QED
    BY <2>1, <2>2, FS_Subset
<1>3. \A d \in C : Rank(d, C) = Cardinality(L(d))
  BY DEF Rank, Before
<1>4. \A d \in C : c = d \/ Before(c, d) \/ Before(d, c)
  BY DEF Before
<1>5. Cardinality(C) \in Nat
  BY FS_CardinalityType
<1> HIDE DEF L
<1> QED
  BY <1>1, <1>2, <1>3, <1>4, <1>5

\* A cell gets its old index or a new one, and no two cells share theirs.
LEMMA IndexOfSound ==
  ASSUME NEW s, MapsSound(s), NEW g, Geometry(g)
  PROVE  LET F == Fresh(s, g)
             idx == IndexOf(s, g, F)
         IN  /\ DOMAIN idx = g.cells /\ Cardinality(F) \in Nat
             /\ \A c \in g.cells \cap DOMAIN s.index : idx[c] = s.index[c]
             /\ \A c \in F : idx[c] \in s.next .. s.next + Cardinality(F) - 1
             /\ \A c, d \in g.cells : idx[c] = idx[d] => c = d
             /\ \A c \in g.cells, d \in DOMAIN s.index \ g.cells : idx[c] # s.index[d]
<1> DEFINE F == Fresh(s, g)
           idx == IndexOf(s, g, F)
<1>1. IsFiniteSet(F) /\ F \subseteq Int \X Int /\ Cardinality(F) \in Nat
  BY FS_Subset, FS_CardinalityType DEF Geometry, Fresh
<1>2. \A c \in F : /\ Rank(c, F) \in 0 .. Cardinality(F) - 1
                   /\ \A d \in F : Rank(c, F) = Rank(d, F) => c = d
  BY <1>1, RankDiffers
<1>3. s.next \in Nat /\ \A c \in DOMAIN s.index : s.index[c] \in 0 .. s.next - 1
  BY DEF MapsSound, MapsInverse
<1>4. \A c, d \in DOMAIN s.index : s.index[c] = s.index[d] => c = d
  BY DEF MapsSound, MapsInverse
<1>5. F = g.cells \ DOMAIN s.index
  BY DEF Fresh
<1>6. /\ DOMAIN idx = g.cells
      /\ \A c \in g.cells : idx[c] = IF c \in F THEN s.next + Rank(c, F) ELSE s.index[c]
  BY DEF IndexOf
<1>7. \A c \in F : idx[c] \in s.next .. s.next + Cardinality(F) - 1
  <2> TAKE c \in F
  <2>1. idx[c] = s.next + Rank(c, F)
    BY <1>5, <1>6
  <2> HIDE DEF F, idx
  <2> QED
    BY <2>1, <1>1, <1>2, <1>3
<1> HIDE DEF F, idx
<1>8. \A c \in g.cells \ F : idx[c] = s.index[c] /\ c \in DOMAIN s.index
  BY <1>5, <1>6
<1>9. \A c, d \in g.cells : idx[c] = idx[d] => c = d
  <2> TAKE c, d \in g.cells
  <2>1. CASE c \in F /\ d \in F
    BY <2>1, <1>1, <1>2, <1>3, <1>6
  <2>2. CASE c \in F /\ d \notin F
    BY <2>2, <1>1, <1>3, <1>7, <1>8
  <2>3. CASE c \notin F /\ d \in F
    BY <2>3, <1>1, <1>3, <1>7, <1>8
  <2>4. CASE c \notin F /\ d \notin F
    BY <2>4, <1>4, <1>8
  <2> QED
    BY <2>1, <2>2, <2>3, <2>4
<1>10. \A c \in g.cells, d \in DOMAIN s.index \ g.cells : idx[c] # s.index[d]
  <2> TAKE c \in g.cells, d \in DOMAIN s.index \ g.cells
  <2>1. CASE c \in F
    BY <2>1, <1>1, <1>3, <1>7
  <2>2. CASE c \notin F
    BY <2>2, <1>4, <1>8
  <2> QED
    BY <2>1, <2>2
<1> QED
  BY <1>1, <1>5, <1>6, <1>7, <1>8, <1>9, <1>10 DEF F, idx

\* What taking the cells does to the maps, with the indices idx.
Taken(s, n, g, idx, t) ==
  /\ DOMAIN t = Fields
  /\ DOMAIN t.index = DOMAIN idx \cup DOMAIN s.index
  /\ \A c \in DOMAIN t.index : t.index[c] = IF c \in DOMAIN idx THEN idx[c] ELSE s.index[c]
  /\ DOMAIN t.coord = Image(idx) \cup DOMAIN s.coord
  /\ \A i \in DOMAIN t.coord :
       IF i \in Image(idx) THEN t.coord[i] \in g.cells /\ idx[t.coord[i]] = i
       ELSE t.coord[i] = s.coord[i]
  /\ DOMAIN t.at = g.cells \cup DOMAIN s.at
  /\ \A c \in DOMAIN t.at : t.at[c] = IF c \in g.cells THEN n ELSE s.at[c]
  /\ DOMAIN t.of = Image(idx) \cup DOMAIN s.of
  /\ \A i \in DOMAIN t.of : t.of[i] = IF i \in Image(idx) THEN n ELSE s.of[i]
  /\ t.next = s.next + Cardinality(Fresh(s, g))
  /\ t.data = s.data \cup {idx[c] : c \in g.data}
  /\ DOMAIN t.held = DOMAIN s.held \cup {n} /\ t.held[n] = idx
  /\ \A m \in DOMAIN s.held \ {n} : t.held[m] = s.held[m]
  /\ t.live = s.live /\ t.patch = s.patch /\ t.order = s.order
  /\ t.fault = s.fault

LEMMA OccupyMaps ==
  ASSUME NEW s, DOMAIN s = Fields, NEW n, NEW g
  PROVE  Taken(s, n, g, IndexOf(s, g, Fresh(s, g)), Occupy(s, n, g))
<1> SUFFICES ASSUME NEW idx, DOMAIN idx = g.cells,
                    NEW t, t = OccupyAt(s, n, g, idx, Image(idx))
             PROVE  Taken(s, n, g, idx, t)
  BY DEF Occupy, OccupyBy, IndexOf
<1>1. t.coord = Over([i \in Image(idx) |-> CHOOSE c \in g.cells : idx[c] = i], s.coord)
  BY DEF OccupyAt, Fields, NewSystem
<1>2. /\ DOMAIN t = Fields
      /\ t.index = Over(idx, s.index)
      /\ t.at = Over([c \in g.cells |-> n], s.at)
      /\ t.of = Over([i \in Image(idx) |-> n], s.of)
      /\ t.next = s.next + Cardinality(Fresh(s, g))
      /\ t.data = s.data \cup {idx[c] : c \in g.data}
      /\ t.held = Put(s.held, n, idx)
      /\ t.live = s.live /\ t.patch = s.patch /\ t.order = s.order
      /\ t.fault = s.fault
  BY DEF OccupyAt, Fields, NewSystem
<1>3. /\ DOMAIN t.coord = Image(idx) \cup DOMAIN s.coord
      /\ \A i \in Image(idx) : t.coord[i] \in g.cells /\ idx[t.coord[i]] = i
      /\ \A i \in DOMAIN t.coord \ Image(idx) : t.coord[i] = s.coord[i]
  <2>1. \A i \in Image(idx) : \E c \in g.cells : idx[c] = i
    BY DEF Image
  <2> QED
    BY <2>1, <1>1 DEF Over
<1> QED
  BY <1>2, <1>3 DEF Over, Put, Taken

(***************************************************************************)
(* Taking the cells of a geometry keeps the maps sound, hands out no index *)
(* below next, and makes n own what it holds and nothing else of theirs.   *)
(***************************************************************************)
LEMMA OccupySound ==
  ASSUME NEW s, MapsSound(s), NEW n, NEW g, Geometry(g)
  PROVE  LET t == Occupy(s, n, g)
         IN  /\ MapsSound(t)
             /\ DOMAIN t.coord \cap 0 .. s.next - 1 \subseteq DOMAIN s.coord
             /\ DOMAIN t.held = DOMAIN s.held \cup {n} /\ DOMAIN t.held[n] = g.cells
             /\ \A c \in g.cells : c \in DOMAIN t.index /\ t.index[c] = t.held[n][c]
             /\ \A c \in g.data : t.held[n][c] \in t.data
             /\ s.data \subseteq t.data
             /\ \A m \in DOMAIN s.held \ {n} : t.held[m] = s.held[m]
             /\ \A c \in DOMAIN t.at : t.at[c] = IF c \in g.cells THEN n ELSE s.at[c]
<1> DEFINE t == Occupy(s, n, g)
           F == Fresh(s, g)
           idx == IndexOf(s, g, F)
           K == Cardinality(F)
<1>1. Taken(s, n, g, idx, t)
  BY OccupyMaps DEF MapsSound
<1>2. /\ DOMAIN idx = g.cells /\ K \in Nat
      /\ \A c \in g.cells \cap DOMAIN s.index : idx[c] = s.index[c]
      /\ \A c \in F : idx[c] \in s.next .. s.next + K - 1
      /\ \A c, d \in g.cells : idx[c] = idx[d] => c = d
      /\ \A c \in g.cells, d \in DOMAIN s.index \ g.cells : idx[c] # s.index[d]
  BY IndexOfSound
<1>3. /\ s.next \in Nat /\ DOMAIN s.coord \subseteq 0 .. s.next - 1
      /\ MapsInverse(s) /\ OwnersAgree(s) /\ HeldOnMap(s) /\ LiveOnMap(s)
  BY DEF MapsSound
<1>4. F = g.cells \ DOMAIN s.index /\ g.data \subseteq g.cells
  BY DEF Fresh, Geometry
<1>5. Image(idx) = {idx[c] : c \in g.cells}
  BY <1>2 DEF Image
<1> HIDE DEF t, F, idx, K
<1>6. /\ DOMAIN t.index = g.cells \cup DOMAIN s.index
      /\ \A c \in DOMAIN t.index : t.index[c] = IF c \in g.cells THEN idx[c] ELSE s.index[c]
      /\ DOMAIN t.coord = Image(idx) \cup DOMAIN s.coord
      /\ \A c \in g.cells : idx[c] \in DOMAIN t.coord /\ t.coord[idx[c]] = c
      /\ \A i \in DOMAIN t.coord \ Image(idx) : t.coord[i] = s.coord[i]
  BY <1>1, <1>2, <1>5 DEF Taken
<1>7. /\ DOMAIN t.at = g.cells \cup DOMAIN s.at
      /\ \A c \in DOMAIN t.at : t.at[c] = IF c \in g.cells THEN n ELSE s.at[c]
      /\ DOMAIN t.of = Image(idx) \cup DOMAIN s.of
      /\ \A i \in DOMAIN t.of : t.of[i] = IF i \in Image(idx) THEN n ELSE s.of[i]
  BY <1>1 DEF Taken
<1>8. /\ DOMAIN t.held = DOMAIN s.held \cup {n} /\ t.held[n] = idx
      /\ \A m \in DOMAIN s.held \ {n} : t.held[m] = s.held[m]
  BY <1>1 DEF Taken
<1>9. \A d \in DOMAIN s.index \ g.cells : s.index[d] \notin Image(idx)
  BY <1>2, <1>5
<1>10. \A i \in DOMAIN s.coord \ Image(idx) :
         s.coord[i] \in DOMAIN s.index \ g.cells /\ s.index[s.coord[i]] = i
  BY <1>2, <1>3, <1>5 DEF MapsInverse
<1>11. MapsInverse(t)
  <2>1. \A c \in DOMAIN t.index : t.index[c] \in DOMAIN t.coord /\ t.coord[t.index[c]] = c
    BY <1>3, <1>5, <1>6, <1>9 DEF MapsInverse
  <2>2. \A i \in DOMAIN t.coord : t.coord[i] \in DOMAIN t.index /\ t.index[t.coord[i]] = i
    BY <1>5, <1>6, <1>10
  <2> QED
    BY <2>1, <2>2 DEF MapsInverse
<1>12. OwnersAgree(t)
  BY <1>3, <1>5, <1>6, <1>7, <1>9 DEF OwnersAgree, MapsInverse
<1>13. HeldOnMap(t)
  BY <1>2, <1>3, <1>6, <1>8 DEF HeldOnMap
<1>14. LiveOnMap(t)
  BY <1>1, <1>3, <1>6 DEF LiveOnMap, Taken
<1>15. t.next \in Nat /\ DOMAIN t.coord \subseteq 0 .. t.next - 1
  <2>1. \A c \in g.cells : idx[c] \in 0 .. s.next + K - 1
    <3> TAKE c \in g.cells
    <3>1. CASE c \in F
      BY <3>1, <1>2, <1>3
    <3>2. CASE c \notin F
      BY <3>2, <1>2, <1>3, <1>4 DEF MapsInverse
    <3> QED
      BY <3>1, <3>2
  <2>2. \A i \in DOMAIN t.coord : i \in 0 .. t.next - 1
    BY <2>1, <1>1, <1>2, <1>3, <1>5, <1>6 DEF Taken, F, K
  <2> QED
    BY <2>2, <1>1, <1>2, <1>3 DEF Taken, F, K
<1>16. \A c \in g.data : t.held[n][c] \in t.data
  BY <1>1, <1>8 DEF Taken
<1>17. s.data \subseteq t.data
  BY <1>1 DEF Taken
<1>18. DOMAIN t.coord \cap 0 .. s.next - 1 \subseteq DOMAIN s.coord
  <2> SUFFICES ASSUME NEW c \in g.cells, idx[c] \in 0 .. s.next - 1
               PROVE  idx[c] \in DOMAIN s.coord
    BY <1>5, <1>6
  <2>1. c \notin F
    BY <1>2, <1>3
  <2> QED
    BY <2>1, <1>2, <1>3, <1>4 DEF MapsInverse
<1>19. MapsSound(t)
  BY <1>1, <1>11, <1>12, <1>13, <1>14, <1>15 DEF MapsSound, Taken
<1> QED
  BY <1>2, <1>6, <1>7, <1>8, <1>16, <1>17, <1>18, <1>19 DEF t

-----------------------------------------------------------------------------
(* Patches.                                                                 *)

SameMaps(s, t) ==
  /\ DOMAIN t = Fields
  /\ t.index = s.index /\ t.coord = s.coord /\ t.at = s.at /\ t.of = s.of
  /\ t.next = s.next /\ t.data = s.data /\ t.held = s.held

\* What a call that may take cells for n leaves.
Occupied(s, t, n) ==
  /\ MapsSound(t) /\ NamesSound(t)
  /\ DOMAIN t.coord \cap 0 .. s.next - 1 \subseteq DOMAIN s.coord
  /\ DOMAIN s.held \subseteq DOMAIN t.held /\ DOMAIN t.held \subseteq DOMAIN s.held \cup {n}
  /\ \A m \in DOMAIN s.held \ {n} : t.held[m] = s.held[m]
  /\ \A c \in DOMAIN t.at : t.at[c] = n \/ (c \in DOMAIN s.at /\ t.at[c] = s.at[c])

LEMMA SameMapsSound ==
  ASSUME NEW s, MapsSound(s), NEW t, SameMaps(s, t), LiveOnMap(t)
  PROVE  MapsSound(t) /\ s.next \in Nat
  BY DEF MapsSound, SameMaps, MapsInverse, OwnersAgree, HeldOnMap

LEMMA SameNamesSound ==
  ASSUME NEW s, NamesSound(s), NEW t, SameMaps(s, t), Ok(t) => Ok(s),
         t.patch = s.patch, t.order = s.order
  PROVE  NamesSound(t)
  BY DEF NamesSound, SameMaps, FootprintHeld

LEMMA ChecksAside ==
  ASSUME NEW s, DOMAIN s = Fields, NEW n, NEW g
  PROVE  LET t == RegisterChecks(s, n, g)
         IN  /\ SameMaps(s, t) /\ t.live = s.live /\ t.order = s.order
             /\ \/ t.fault = s.fault /\ t.patch = Put(s.patch, n, g)
                \/ ~ Ok(t) /\ t.patch = s.patch
  BY DEF RegisterChecks, RecordAll, RecordAs, Fail, Ok, SameMaps, Fields, NewSystem

LEMMA DeclaredAside ==
  ASSUME NEW s, DOMAIN s = Fields, NEW k
  PROVE  LET t == DeclareFrom(s, k)
         IN  /\ SameMaps(s, t) /\ t.live = s.live /\ t.order = s.order
             /\ t.fault = s.fault /\ t.patch = s.patch
  BY DEF DeclareFrom, SameMaps, Fields, NewSystem

\* After a geometry has been entered, everything but the list of names holds.
LEMMA EnterSound ==
  ASSUME NEW s, MapsSound(s), NamesSound(s), Ok(s), NEW n, NEW g, Geometry(g), n # Nobody
  PROVE  LET t == Enter(s, n, g)
         IN  /\ MapsSound(t) /\ t.live = s.live /\ t.order = s.order
             /\ DOMAIN t.coord \cap 0 .. s.next - 1 \subseteq DOMAIN s.coord
             /\ DOMAIN t.held = DOMAIN s.held \cup {n} /\ DOMAIN t.held[n] = g.cells
             /\ \A m \in DOMAIN s.held \ {n} : t.held[m] = s.held[m]
             /\ \A c \in DOMAIN t.at : \/ c \in g.cells /\ t.at[c] = n
                                       \/ c \in DOMAIN s.at /\ t.at[c] = s.at[c]
             /\ Ok(t) => DOMAIN t.patch = DOMAIN t.held /\ FootprintHeld(t)
<1> DEFINE o == Occupy(s, n, g)
           r == RegisterChecks(o, n, g)
           t == Enter(s, n, g)
<1>1. /\ MapsSound(o)
      /\ DOMAIN o.coord \cap 0 .. s.next - 1 \subseteq DOMAIN s.coord
      /\ DOMAIN o.held = DOMAIN s.held \cup {n} /\ DOMAIN o.held[n] = g.cells
      /\ \A c \in g.data : o.held[n][c] \in o.data
      /\ s.data \subseteq o.data
      /\ \A m \in DOMAIN s.held \ {n} : o.held[m] = s.held[m]
      /\ \A c \in DOMAIN o.at : o.at[c] = IF c \in g.cells THEN n ELSE s.at[c]
  BY OccupySound
<1>2. /\ DOMAIN o.at = g.cells \cup DOMAIN s.at
      /\ o.live = s.live /\ o.patch = s.patch /\ o.order = s.order
      /\ o.fault = s.fault
  <2>1. DOMAIN s = Fields
    BY DEF MapsSound
  <2>2. Taken(s, n, g, IndexOf(s, g, Fresh(s, g)), o)
    BY <2>1, OccupyMaps
  <2> HIDE DEF o
  <2> QED
    BY <2>2 DEF Taken
<1>3. DOMAIN o = Fields
  BY <1>1 DEF MapsSound
<1> HIDE DEF o
<1>4. /\ SameMaps(o, r) /\ r.live = o.live /\ r.order = o.order
      /\ \/ r.fault = o.fault /\ r.patch = Put(o.patch, n, g)
         \/ ~ Ok(r) /\ r.patch = o.patch
  BY <1>3, ChecksAside
<1>5. DOMAIN r = Fields
  BY <1>4 DEF SameMaps
<1>6. t = DeclareFrom(r, s.next)
  BY DEF Enter, o
<1> HIDE DEF r, t
<1>7. /\ SameMaps(r, t) /\ t.live = r.live /\ t.order = r.order
      /\ t.fault = r.fault /\ t.patch = r.patch
  BY <1>5, <1>6, DeclaredAside
<1>8. SameMaps(o, t) /\ t.live = s.live /\ t.order = s.order
  BY <1>2, <1>4, <1>7 DEF SameMaps
<1>9. MapsSound(t)
  <2>1. LiveOnMap(t)
    BY <1>1, <1>2, <1>8 DEF SameMaps, LiveOnMap, MapsSound
  <2> QED
    BY <1>1, <1>8, <2>1, SameMapsSound
<1>10. \A c \in DOMAIN o.at : c \in g.cells \/ c \in DOMAIN s.at
  BY <1>2
<1>11. Ok(t) => t.patch = Put(s.patch, n, g)
  BY <1>2, <1>4, <1>7 DEF Ok
<1>12. /\ DOMAIN s.patch = DOMAIN s.held
       /\ FootprintHeld(s)
  BY DEF NamesSound
<1>13. Ok(t) => DOMAIN t.patch = DOMAIN t.held
  BY <1>1, <1>8, <1>11, <1>12 DEF Put, Over, SameMaps
<1>14. Ok(t) => FootprintHeld(t)
  <2> SUFFICES ASSUME Ok(t), NEW m \in DOMAIN t.patch
               PROVE  /\ m \in DOMAIN t.held /\ t.patch[m].data \subseteq DOMAIN t.held[m]
                      /\ \A c \in t.patch[m].data : t.held[m][c] \in t.data
    BY DEF FootprintHeld
  <2>1. t.held = o.held /\ t.data = o.data
    BY <1>8 DEF SameMaps
  <2>2. CASE m = n
    <3>1. t.patch[m] = g
      BY <2>2, <1>11 DEF Put, Over
    <3> QED
      BY <3>1, <2>1, <2>2, <1>1 DEF Geometry
  <2>3. CASE m # n
    <3>1. m \in DOMAIN s.patch /\ t.patch[m] = s.patch[m]
      BY <2>3, <1>11 DEF Put, Over
    <3> QED
      BY <3>1, <2>1, <2>3, <1>1, <1>12 DEF FootprintHeld
  <2> QED
    BY <2>2, <2>3
<1> QED
  BY <1>1, <1>8, <1>9, <1>10, <1>13, <1>14 DEF SameMaps, t

\* A refused call leaves everything but the fault.
LEMMA FailSound ==
  ASSUME NEW s, MapsSound(s), NEW what, what # "none", NEW n
  PROVE  LET t == Fail(s, what)
         IN  /\ Occupied(s, t, n) /\ SameMaps(s, t) /\ t.live = s.live
             /\ t.patch = s.patch /\ ~ Ok(t)
<1> DEFINE t == Fail(s, what)
<1>1. SameMaps(s, t) /\ t.live = s.live /\ t.patch = s.patch /\ ~ Ok(t)
  BY DEF Fail, SameMaps, MapsSound, Ok, Fields, NewSystem
<1> HIDE DEF t
<1>2. MapsSound(t)
  BY <1>1, SameMapsSound DEF LiveOnMap, MapsSound, SameMaps
<1> QED
  BY <1>1, <1>2 DEF Occupied, SameMaps, NamesSound, t

\* Listing a name keeps the maps.
LEMMA ListedAside ==
  ASSUME NEW t, DOMAIN t = Fields, Ok(t), NEW n, NEW b
  PROVE  LET u == Listed(t, n, b)
         IN  /\ SameMaps(t, u) /\ u.live = t.live /\ u.patch = t.patch /\ u.fault = t.fault
             /\ u.order = Append(t.order, n)
  BY DEF Listed, SameMaps, Fields, NewSystem

LEMMA ReplacedAside ==
  ASSUME NEW s, NEW t, DOMAIN t = Fields, NEW n
  PROVE  LET u == Replaced(s, t, n)
         IN  /\ SameMaps(t, u) /\ u.live = t.live /\ u.patch = t.patch /\ u.fault = t.fault
             /\ u.order = t.order
  BY DEF Replaced, SameMaps, Fields, NewSystem

(***************************************************************************)
(* add_patch, for a patch or a coupler: whether it is refused or not, the  *)
(* registry is sound afterwards.                                           *)
(***************************************************************************)
LEMMA AddPatchSound ==
  ASSUME NEW s, MapsSound(s), NamesSound(s), Ok(s), NEW n, n # Nobody,
         NEW g, Geometry(g), NEW b
  PROVE  LET t == AddPatch(s, n, g, b)
         IN  /\ Occupied(s, t, n) /\ t.live = s.live
             /\ OwnsHeld(s, n) => OwnsHeld(t, n)
             /\ Ok(t) => n \in DOMAIN t.held
<1> DEFINE t == AddPatch(s, n, g, b)
           e == Enter(s, n, g)
<1>1. CASE n \in DOMAIN s.patch \/ Blocked(s, n, g)
  <2>1. t = Fail(s, "already exists") \/ t = Fail(s, "collision")
    BY <1>1 DEF AddPatch
  <2>2. Occupied(s, t, n) /\ SameMaps(s, t) /\ t.live = s.live /\ ~ Ok(t)
    <3> HIDE DEF t
    <3>1. PICK what : what # "none" /\ t = Fail(s, what)
      BY <2>1
    <3> QED
      BY <3>1, FailSound
  <2> HIDE DEF t
  <2> QED
    BY <2>2 DEF OwnsHeld, SameMaps, t
<1>2. CASE ~ (n \in DOMAIN s.patch \/ Blocked(s, n, g))
  <2>1. t = Listed(e, n, b)
    BY <1>2 DEF AddPatch
  <2>2. /\ MapsSound(e) /\ e.live = s.live /\ e.order = s.order
        /\ DOMAIN e.coord \cap 0 .. s.next - 1 \subseteq DOMAIN s.coord
        /\ DOMAIN e.held = DOMAIN s.held \cup {n} /\ DOMAIN e.held[n] = g.cells
        /\ \A m \in DOMAIN s.held \ {n} : e.held[m] = s.held[m]
        /\ \A c \in DOMAIN e.at : \/ c \in g.cells /\ e.at[c] = n
                                  \/ c \in DOMAIN s.at /\ e.at[c] = s.at[c]
        /\ Ok(e) => DOMAIN e.patch = DOMAIN e.held /\ FootprintHeld(e)
    BY EnterSound
  <2>3. n \notin DOMAIN s.held
    BY <1>2 DEF NamesSound
  <2>d. DOMAIN e = Fields
    BY <2>2 DEF MapsSound
  <2> HIDE DEF e
  <2>4. /\ SameMaps(e, t) /\ t.live = e.live /\ t.patch = e.patch /\ t.fault = e.fault
        /\ t.order = IF Ok(e) THEN Append(e.order, n) ELSE e.order
    <3>1. CASE Ok(e)
      BY <3>1, <2>1, <2>d, ListedAside
    <3>2. CASE ~ Ok(e)
      BY <3>2, <2>1, <2>d DEF Listed, SameMaps
    <3> QED
      BY <3>1, <3>2
  <2> HIDE DEF t
  <2>5. MapsSound(t)
    BY <2>2, <2>4, SameMapsSound DEF LiveOnMap, MapsSound, SameMaps
  <2>6. NamesSound(t)
    <3> SUFFICES ASSUME Ok(t) PROVE NamesSound(t)
      BY DEF NamesSound
    <3>1. Ok(e) /\ t.order = Append(s.order, n)
      BY <2>2, <2>4 DEF Ok
    <3>2. DOMAIN t.held = DOMAIN s.held \cup {n} /\ DOMAIN t.patch = DOMAIN t.held
      BY <2>2, <2>4, <3>1 DEF SameMaps
    <3>3. FootprintHeld(t)
      BY <2>2, <2>4, <3>1 DEF FootprintHeld, SameMaps
    <3>4. /\ Nobody \notin DOMAIN s.held /\ s.order \in Seq(DOMAIN s.held)
          /\ \A m \in DOMAIN s.held : \E k \in DOMAIN s.order : s.order[k] = m
          /\ \A k, l \in DOMAIN s.order : s.order[k] = s.order[l] => k = l
      BY DEF NamesSound
    <3>5. /\ t.order \in Seq(DOMAIN t.held) /\ Len(t.order) = Len(s.order) + 1
          /\ DOMAIN s.order = 1 .. Len(s.order) /\ DOMAIN t.order = 1 .. Len(s.order) + 1
          /\ \A k \in 1 .. Len(s.order) : t.order[k] = s.order[k] /\ s.order[k] # n
          /\ t.order[Len(s.order) + 1] = n /\ Len(s.order) \in Nat
      BY <2>3, <3>1, <3>2, <3>4
    <3>6. ASSUME NEW m \in DOMAIN t.held
          PROVE  \E k \in DOMAIN t.order : t.order[k] = m
      <4>1. CASE m = n
        BY <3>5, <4>1
      <4>2. CASE m # n
        <5>1. PICK k \in 1 .. Len(s.order) : s.order[k] = m
          BY <3>2, <3>4, <3>5, <4>2
        <5>2. k \in DOMAIN t.order /\ t.order[k] = m
          BY <3>5, <5>1
        <5> QED
          BY <5>2
      <4> QED
        BY <4>1, <4>2
    <3>7. ASSUME NEW k \in DOMAIN t.order, NEW l \in DOMAIN t.order, t.order[k] = t.order[l]
          PROVE  k = l
      <4>1. CASE k \in 1 .. Len(s.order) /\ l \in 1 .. Len(s.order)
        BY <3>4, <3>5, <3>7, <4>1
      <4>2. CASE k \notin 1 .. Len(s.order)
        BY <3>5, <3>7, <4>2
      <4>3. CASE l \notin 1 .. Len(s.order)
        BY <3>5, <3>7, <4>3
      <4> QED
        BY <4>1, <4>2, <4>3
    <3> QED
      BY <3>2, <3>3, <3>4, <3>5, <3>6, <3>7 DEF NamesSound
  <2>7. OwnsHeld(s, n) => OwnsHeld(t, n)
    BY <2>2, <2>3, <2>4 DEF OwnsHeld, SameMaps
  <2>8. Occupied(s, t, n)
    BY <2>2, <2>4, <2>5, <2>6 DEF Occupied, SameMaps
  <2> QED
    BY <2>2, <2>4, <2>7, <2>8 DEF SameMaps, t
<1> QED
  BY <1>1, <1>2

(***************************************************************************)
(* The three deformations of a registered patch.                           *)
(***************************************************************************)
LEMMA ApplyGeometrySound ==
  ASSUME NEW s, MapsSound(s), NamesSound(s), Ok(s), NEW n \in DOMAIN s.patch,
         NEW g, Geometry(g)
  PROVE  LET t == ApplyGeometry(s, n, g)
         IN  Occupied(s, t, n) /\ t.live = s.live
             /\ (Ok(t) => SameMaps(Occupy(s, n, g), t))
<1> DEFINE t == ApplyGeometry(s, n, g)
           e == Enter(s, n, g)
<1>n. n # Nobody /\ n \in DOMAIN s.held
  BY DEF NamesSound
<1>1. CASE t = Fail(s, "collision")
  BY <1>1, FailSound
<1>2. CASE t = Replaced(s, e, n)
  <2>2. /\ MapsSound(e) /\ e.live = s.live /\ e.order = s.order
        /\ DOMAIN e.coord \cap 0 .. s.next - 1 \subseteq DOMAIN s.coord
        /\ DOMAIN e.held = DOMAIN s.held \cup {n}
        /\ \A m \in DOMAIN s.held \ {n} : e.held[m] = s.held[m]
        /\ \A c \in DOMAIN e.at : \/ c \in g.cells /\ e.at[c] = n
                                  \/ c \in DOMAIN s.at /\ e.at[c] = s.at[c]
        /\ Ok(e) => DOMAIN e.patch = DOMAIN e.held /\ FootprintHeld(e)
    BY <1>n, EnterSound
  <2>d. DOMAIN e = Fields
    BY <2>2 DEF MapsSound
  <2>o. SameMaps(Occupy(s, n, g), e)
    <3>1. DOMAIN Occupy(s, n, g) = Fields
      BY OccupyMaps DEF MapsSound, Taken
    <3>2. SameMaps(Occupy(s, n, g), RegisterChecks(Occupy(s, n, g), n, g))
      BY <3>1, ChecksAside
    <3>3. SameMaps(RegisterChecks(Occupy(s, n, g), n, g), e)
      BY <3>2, DeclaredAside DEF Enter, SameMaps
    <3> QED
      BY <3>2, <3>3 DEF SameMaps
  <2> HIDE DEF e
  <2>4. /\ SameMaps(e, t) /\ t.live = e.live /\ t.patch = e.patch /\ t.fault = e.fault
        /\ t.order = e.order
    BY <1>2, <2>d, ReplacedAside
  <2> HIDE DEF t
  <2>5. MapsSound(t)
    BY <2>2, <2>4, SameMapsSound DEF LiveOnMap, MapsSound, SameMaps
  <2>6. NamesSound(t)
    <3> SUFFICES ASSUME Ok(t) PROVE NamesSound(t)
      BY DEF NamesSound
    <3>1. Ok(e) /\ t.order = s.order /\ t.patch = e.patch
      BY <2>2, <2>4 DEF Ok
    <3>2. t.held = e.held /\ t.data = e.data /\ DOMAIN e.held = DOMAIN s.held
      BY <1>n, <2>2, <2>4 DEF SameMaps
    <3>3. DOMAIN t.patch = DOMAIN t.held /\ FootprintHeld(t)
      BY <2>2, <3>1, <3>2 DEF FootprintHeld
    <3> QED
      BY <3>1, <3>2, <3>3 DEF NamesSound
  <2>7. Occupied(s, t, n)
    BY <2>2, <2>4, <2>5, <2>6 DEF Occupied, SameMaps
  <2> QED
    BY <2>2, <2>4, <2>7, <2>o DEF SameMaps, t
<1> QED
  BY <1>1, <1>2 DEF ApplyGeometry

LEMMA GrowPatchSound ==
  ASSUME NEW s, MapsSound(s), NamesSound(s), Ok(s), NEW n \in DOMAIN s.patch,
         NEW g, Geometry(g)
  PROVE  LET t == GrowPatch(s, n, g)
         IN  Occupied(s, t, n) /\ t.live = s.live
             /\ (Ok(t) => SameMaps(Occupy(s, n, g), t))
  BY FailSound, ApplyGeometrySound DEF GrowPatch

LEMMA MoveCornersSound ==
  ASSUME NEW s, MapsSound(s), NamesSound(s), Ok(s), NEW n \in DOMAIN s.patch,
         NEW g, Geometry(g)
  PROVE  LET t == MoveCorners(s, n, g) IN Occupied(s, t, n) /\ t.live = s.live
  BY FailSound, GrowPatchSound DEF MoveCorners

LEMMA ShrinkPatchSound ==
  ASSUME NEW s, MapsSound(s), NamesSound(s), Ok(s), NEW n \in DOMAIN s.patch,
         NEW g, Geometry(g)
  PROVE  LET t == ShrinkPatch(s, n, g) IN Occupied(s, t, n)
<1> DEFINE a == ApplyGeometry(s, n, g)
           t == ShrinkPatch(s, n, g)
           u == ShrinkIfCovered(s, a, n, Removed(s, n, g), LiveData(s, n) \ Removed(s, n, g))
<1>1. CASE t # u
  BY <1>1, FailSound DEF ShrinkPatch
<1>2. CASE t = u
  <2>1. Occupied(s, a, n)
    BY ApplyGeometrySound
  <2>2. MapsSound(a) /\ NamesSound(a)
    BY <2>1 DEF Occupied
  <2>3. DOMAIN a = Fields /\ LiveOnMap(a)
    BY <2>2 DEF MapsSound
  <2> HIDE DEF a
  <2>4. /\ SameMaps(a, u) /\ u.live \subseteq a.live
        /\ u.patch = a.patch /\ u.order = a.order /\ (Ok(u) => Ok(a))
    BY <2>3 DEF ShrinkIfCovered, Fail, SameMaps, Fields, NewSystem, Ok
  <2> HIDE DEF u
  <2>5. MapsSound(u)
    BY <2>2, <2>3, <2>4, SameMapsSound DEF LiveOnMap, SameMaps
  <2>6. NamesSound(u)
    BY <2>2, <2>4, SameNamesSound
  <2>7. Occupied(s, u, n)
    BY <2>1, <2>4, <2>5, <2>6 DEF Occupied, SameMaps
  <2> QED
    BY <1>2, <2>7
<1> QED
  BY <1>1, <1>2

-----------------------------------------------------------------------------
(* Retirement, couplers and the builder's calls.                            *)

\* The first name of a list that is one of the holders, if any is listed.
LEMMA FirstOfSound ==
  ASSUME NEW s, NEW S, s.order \in Seq(S), NEW H, H \subseteq S,
         \A h \in H : \E k \in DOMAIN s.order : s.order[k] = h
  PROVE  IF H = {} THEN FirstOf(s, H) = Nobody ELSE FirstOf(s, H) \in H
<1> DEFINE places == {k \in DOMAIN s.order : s.order[k] \in H}
<1>1. places \in SUBSET Nat
  OBVIOUS
<1>2. CASE H = {}
  BY <1>2 DEF FirstOf
<1>3. CASE H # {}
  <2>1. places # {}
    BY <1>3
  <2>2. Min(places) \in places
    BY <1>1, <2>1, LeastOne
  <2> QED
    BY <1>3, <2>1, <2>2 DEF FirstOf
<1> QED
  BY <1>2, <1>3

\* What the removal of n does to the maps, the cells in lapse going for good.
Gone(s, n, heirOf, free, lapse, t) ==
  /\ DOMAIN t = Fields /\ t.fault = s.fault /\ t.next = s.next /\ t.live = s.live
  /\ DOMAIN t.index = DOMAIN s.index \ lapse
  /\ \A c \in DOMAIN t.index : t.index[c] = s.index[c]
  /\ DOMAIN t.coord = DOMAIN s.coord \ free
  /\ \A i \in DOMAIN t.coord : t.coord[i] = s.coord[i]
  /\ DOMAIN t.at = DOMAIN s.at \ lapse
  /\ \A c \in DOMAIN t.at : t.at[c] = IF s.at[c] = n THEN heirOf[s.index[c]] ELSE s.at[c]
  /\ DOMAIN t.of = DOMAIN s.of \ free
  /\ \A i \in DOMAIN t.of :
       t.of[i] = IF i \in DOMAIN heirOf /\ s.of[i] = n THEN heirOf[i] ELSE s.of[i]
  /\ t.data = s.data \ free /\ t.syn = s.syn \ free
  /\ DOMAIN t.held = DOMAIN s.patch \ {n}
  /\ \A m \in DOMAIN t.held : t.held[m] = s.held[m]
  /\ DOMAIN t.patch = DOMAIN s.patch \ {n}
  /\ \A m \in DOMAIN t.patch : t.patch[m] = s.patch[m]
  /\ t.order = RemoveAt(s.order, CHOOSE k \in DOMAIN s.order : s.order[k] = n)

LEMMA FreedMaps ==
  ASSUME NEW s, DOMAIN s = Fields, NEW n, NEW heirOf, NEW heirTo, NEW free, NEW lapse
  PROVE  Gone(s, n, heirOf, free, lapse, Freed(s, n, heirOf, heirTo, free, lapse))
<1> SUFFICES ASSUME NEW t, t = Freed(s, n, heirOf, heirTo, free, lapse)
             PROVE  Gone(s, n, heirOf, free, lapse, t)
  OBVIOUS
<1>1. /\ DOMAIN t = Fields /\ t.fault = s.fault /\ t.next = s.next /\ t.live = s.live
      /\ t.at = [c \in DOMAIN s.at \ lapse |->
                    IF s.at[c] = n THEN heirOf[s.index[c]] ELSE s.at[c]]
      /\ t.index = Only(s.index, DOMAIN s.index \ lapse)
      /\ t.data = s.data \ free /\ t.syn = s.syn \ free
      /\ t.of = [i \in DOMAIN s.of \ free |->
                    IF i \in DOMAIN heirOf /\ s.of[i] = n THEN heirOf[i] ELSE s.of[i]]
      /\ t.coord = Only(s.coord, DOMAIN s.coord \ free)
      /\ t.held = Only(s.held, DOMAIN s.patch \ {n})
      /\ t.patch = Only(s.patch, DOMAIN s.patch \ {n})
      /\ t.order = RemoveAt(s.order, CHOOSE k \in DOMAIN s.order : s.order[k] = n)
  BY DEF Freed, Fields, NewSystem
<1> QED
  BY <1>1 DEF Only, Gone

\* A list without one of its places.
LEMMA RemoveAtSound ==
  ASSUME NEW S, NEW q \in Seq(S), NEW k \in DOMAIN q
  PROVE  LET r == RemoveAt(q, k)
         IN  /\ r \in Seq(S) /\ Len(r) = Len(q) - 1
             /\ \A l \in 1 .. Len(r) : r[l] = IF l < k THEN q[l] ELSE q[l + 1]
<1> DEFINE a == SubSeq(q, 1, k - 1)
           b == SubSeq(q, k + 1, Len(q))
<1>1. Len(q) \in Nat /\ k \in 1 .. Len(q)
  OBVIOUS
<1>2. /\ a \in Seq(S) /\ Len(a) = k - 1
      /\ \A l \in 1 .. k - 1 : a[l] = q[l]
  BY <1>1, SubSeqProperties
<1>3. /\ b \in Seq(S) /\ Len(b) = Len(q) - k
      /\ \A l \in 1 .. Len(q) - k : b[l] = q[k + l]
  BY <1>1, SubSeqProperties
<1>4. RemoveAt(q, k) = a \o b
  BY DEF RemoveAt
<1> HIDE DEF a, b
<1>5. /\ a \o b \in Seq(S) /\ Len(a \o b) = Len(q) - 1
      /\ \A l \in 1 .. Len(q) - 1 : (a \o b)[l] = IF l <= k - 1 THEN a[l] ELSE b[l - (k - 1)]
  <2>1. /\ a \o b \in Seq(S) /\ Len(a \o b) = Len(a) + Len(b)
        /\ \A l \in 1 .. Len(a) + Len(b) :
             (a \o b)[l] = IF l <= Len(a) THEN a[l] ELSE b[l - Len(a)]
    BY <1>2, <1>3, ConcatProperties
  <2>2. Len(a) + Len(b) = Len(q) - 1
    BY <1>1, <1>2, <1>3
  <2> QED
    BY <1>2, <2>1, <2>2
<1>6. ASSUME NEW l \in 1 .. Len(q) - 1
      PROVE  (a \o b)[l] = IF l < k THEN q[l] ELSE q[l + 1]
  <2>1. CASE l < k
    BY <1>1, <1>2, <1>5, <2>1
  <2>2. CASE ~ (l < k)
    <3>1. l - (k - 1) \in 1 .. Len(q) - k /\ k + (l - (k - 1)) = l + 1 /\ ~ (l <= k - 1)
      BY <1>1, <2>2
    <3> QED
      BY <1>3, <1>5, <2>2, <3>1
  <2> QED
    BY <2>1, <2>2
<1> QED
  BY <1>4, <1>5, <1>6

\* What is left when n has been removed, the cells that go being its own.
Removal(s, t, n) ==
  LET own == {s.index[c] : c \in Exclusive(s, n)}
  IN  /\ DOMAIN t.index = DOMAIN s.index \ Exclusive(s, n)
      /\ \A c \in DOMAIN t.index : t.index[c] = s.index[c]
      /\ DOMAIN t.at = DOMAIN s.at \ Exclusive(s, n)
      /\ \A c \in DOMAIN t.at :
           IF s.at[c] = n THEN t.at[c] \in DOMAIN t.held /\ c \in DOMAIN t.held[t.at[c]]
                          ELSE t.at[c] = s.at[c]
      /\ DOMAIN t.held = DOMAIN s.held \ {n} /\ \A m \in DOMAIN t.held : t.held[m] = s.held[m]
      /\ DOMAIN t.patch = DOMAIN t.held /\ \A m \in DOMAIN t.held : t.patch[m] = s.patch[m]
      /\ t.data = s.data \ own /\ t.syn = s.syn \ own /\ t.live = s.live

(***************************************************************************)
(* remove_coupler: the cells that go are exactly those only the coupler    *)
(* holds, and each of the others has an heir that holds it.                *)
(***************************************************************************)
LEMMA RemoveCouplerSound ==
  ASSUME NEW s, MapsSound(s), NamesSound(s), Ok(s), NEW n,
         OwnsHeld(s, n), n \in DOMAIN s.held => CleanToRemove(s, n)
  PROVE  LET t == RemoveCoupler(s, n)
         IN  /\ MapsSound(t) /\ NamesSound(t)
             /\ DOMAIN t.coord \subseteq DOMAIN s.coord
             /\ DOMAIN s.held \ {n} \subseteq DOMAIN t.held
             /\ \A m : OwnsHeld(s, m) => OwnsHeld(t, m)
             /\ Ok(t) => Removal(s, t, n)
<1> DEFINE t == RemoveCoupler(s, n)
           heirOf == [i \in Image(s.held[n]) |-> HeirOfCell(s, n, i)]
           heirTo == [u \in RecordsOf(s, n) |-> HeirOfCheck(s, n, u)]
           free == Heirless(heirOf)
           lapse == Lapsing(s, n, heirOf)
           X == Exclusive(s, n)
<1>1. CASE \E what : what # "none" /\ t = Fail(s, what)
  <2>1. /\ SameMaps(s, t) /\ MapsSound(t) /\ NamesSound(t) /\ ~ Ok(t)
    BY <1>1, FailSound DEF Occupied
  <2> QED
    BY <2>1 DEF SameMaps, OwnsHeld
<1>2. CASE ~ \E what : what # "none" /\ t = Fail(s, what)
  <2>1. n \in DOMAIN s.patch /\ t = Freed(s, n, heirOf, heirTo, free, lapse)
    BY <1>2 DEF RemoveCoupler, FreeExclusive
  <2>2. /\ DOMAIN s.patch = DOMAIN s.held /\ Nobody \notin DOMAIN s.held
        /\ FootprintHeld(s)
        /\ s.order \in Seq(DOMAIN s.held)
        /\ \A m \in DOMAIN s.held : \E k \in DOMAIN s.order : s.order[k] = m
        /\ \A k, l \in DOMAIN s.order : s.order[k] = s.order[l] => k = l
    BY DEF NamesSound
  <2>3. /\ DOMAIN s = Fields /\ s.next \in Nat /\ DOMAIN s.coord \subseteq 0 .. s.next - 1
        /\ MapsInverse(s) /\ OwnersAgree(s) /\ HeldOnMap(s) /\ LiveOnMap(s)
    BY DEF MapsSound
  <2>4. /\ CleanToRemove(s, n) /\ n \in DOMAIN s.held
    BY <2>1, <2>2
  \* Who holds an index and who holds its cell.
  <2>5. \A m \in DOMAIN s.held : \A c \in DOMAIN s.index :
          s.index[c] \in Image(s.held[m]) <=> c \in DOMAIN s.held[m]
    BY <2>3 DEF Image, HeldOnMap, MapsInverse
  <2>6. \A c \in DOMAIN s.held[n] : c \in DOMAIN s.index /\ s.index[c] \in DOMAIN heirOf
    BY <2>3, <2>4, <2>5 DEF HeldOnMap
  <2>7. \A i \in DOMAIN heirOf : \E c \in DOMAIN s.held[n] : i = s.index[c]
    BY <2>3, <2>4 DEF Image, HeldOnMap
  <2>8. \A i \in DOMAIN heirOf :
          LET H == OtherHolders(s, n, i)
          IN  IF H = {} THEN heirOf[i] = Nobody ELSE heirOf[i] \in H
    <3> TAKE i \in DOMAIN heirOf
    <3>1. OtherHolders(s, n, i) \subseteq DOMAIN s.held
      BY DEF OtherHolders
    <3>2. heirOf[i] = FirstOf(s, OtherHolders(s, n, i))
      BY DEF HeirOfCell
    <3> QED
      BY <2>2, <3>1, <3>2, FirstOfSound
  <2> HIDE DEF heirOf
  <2>9. \A c \in DOMAIN s.held[n] :
          /\ c \in X <=> s.index[c] \in free
          /\ c \notin X => /\ heirOf[s.index[c]] \in DOMAIN s.held \ {n}
                           /\ c \in DOMAIN s.held[heirOf[s.index[c]]]
    BY <2>2, <2>5, <2>6, <2>8 DEF Exclusive, OtherHolders, Heirless
  <2>10. free = {s.index[c] : c \in X} /\ X \subseteq DOMAIN s.held[n]
    BY <2>6, <2>7, <2>9 DEF Heirless, Exclusive
  <2>11. lapse = X
    <3>1. \A c \in lapse : c \in X
      BY <2>3, <2>5, <2>6, <2>9 DEF Lapsing, OwnsHeld, OwnersAgree
    <3>2. \A c \in X : c \in lapse
      BY <2>4, <2>6, <2>9, <2>10 DEF Lapsing, CleanToRemove
    <3> QED
      BY <3>1, <3>2
  <2>g. Gone(s, n, heirOf, free, X, t)
    BY <2>1, <2>3, <2>11, FreedMaps
  <2> HIDE DEF t, free, lapse, heirTo, X
  <2>12. /\ DOMAIN t = Fields /\ t.fault = s.fault /\ t.next = s.next /\ t.live = s.live
         /\ DOMAIN t.at = DOMAIN s.at \ X
         /\ \A c \in DOMAIN t.at :
              t.at[c] = IF s.at[c] = n THEN heirOf[s.index[c]] ELSE s.at[c]
         /\ DOMAIN t.of = DOMAIN s.of \ free
         /\ \A i \in DOMAIN t.of :
              t.of[i] = IF i \in DOMAIN heirOf /\ s.of[i] = n THEN heirOf[i] ELSE s.of[i]
         /\ t.data = s.data \ free /\ t.syn = s.syn \ free
         /\ t.order = RemoveAt(s.order, CHOOSE k \in DOMAIN s.order : s.order[k] = n)
    BY <2>g DEF Gone
  <2>13. /\ DOMAIN t.index = DOMAIN s.index \ X /\ DOMAIN t.coord = DOMAIN s.coord \ free
         /\ \A c \in DOMAIN t.index : t.index[c] = s.index[c]
         /\ \A i \in DOMAIN t.coord : t.coord[i] = s.coord[i]
         /\ DOMAIN t.held = DOMAIN s.held \ {n} /\ \A m \in DOMAIN t.held : t.held[m] = s.held[m]
         /\ DOMAIN t.patch = DOMAIN t.held /\ \A m \in DOMAIN t.held : t.patch[m] = s.patch[m]
    BY <2>2, <2>g DEF Gone
  <2>14. \A c \in DOMAIN s.index : s.index[c] \in free <=> c \in X
    BY <2>3, <2>6, <2>10 DEF MapsInverse
  <2>15. MapsInverse(t)
    BY <2>3, <2>13, <2>14 DEF MapsInverse
  <2>16. \A c \in DOMAIN s.at \ X : s.at[c] = n => s.index[c] \in DOMAIN heirOf /\ c \in DOMAIN s.held[n]
    BY <2>6 DEF OwnsHeld
  <2>17. OwnersAgree(t)
    <3>1. DOMAIN t.at = DOMAIN t.index /\ DOMAIN t.of = DOMAIN t.coord
      BY <2>3, <2>12, <2>13 DEF OwnersAgree
    <3>2. ASSUME NEW c \in DOMAIN t.index PROVE t.of[t.index[c]] = t.at[c]
      <4>1. /\ c \in DOMAIN s.at \ X /\ s.index[c] \in DOMAIN s.of \ free
            /\ s.of[s.index[c]] = s.at[c] /\ t.index[c] = s.index[c]
        BY <2>3, <2>13, <2>14 DEF OwnersAgree, MapsInverse
      <4>2. t.at[c] = IF s.at[c] = n THEN heirOf[s.index[c]] ELSE s.at[c]
        BY <2>12, <4>1
      <4>3. t.of[s.index[c]] = IF s.index[c] \in DOMAIN heirOf /\ s.at[c] = n
                               THEN heirOf[s.index[c]] ELSE s.at[c]
        BY <2>12, <4>1
      <4> QED
        BY <2>16, <4>1, <4>2, <4>3
    <3> QED
      BY <3>1, <3>2 DEF OwnersAgree
  <2>18. \A m \in DOMAIN t.held : \A c \in DOMAIN t.held[m] : c \notin X
    BY <2>13 DEF X, Exclusive
  <2>19. HeldOnMap(t)
    BY <2>3, <2>13, <2>18 DEF HeldOnMap
  <2>20. LiveOnMap(t)
    <3>1. \A i \in free : i \notin s.live
      BY <2>3, <2>4, <2>10 DEF CleanToRemove, HeldOnMap, X
    <3> QED
      BY <2>3, <2>12, <2>13, <3>1 DEF LiveOnMap
  <2>21. MapsSound(t)
    BY <2>3, <2>12, <2>13, <2>15, <2>17, <2>19, <2>20 DEF MapsSound
  <2>22. FootprintHeld(t)
    <3> SUFFICES ASSUME NEW m \in DOMAIN t.patch
                 PROVE  /\ m \in DOMAIN t.held /\ t.patch[m].data \subseteq DOMAIN t.held[m]
                        /\ \A c \in t.patch[m].data : t.held[m][c] \in t.data
      BY DEF FootprintHeld
    <3>1. /\ m \in DOMAIN t.held /\ m \in DOMAIN s.patch
          /\ t.patch[m] = s.patch[m] /\ t.held[m] = s.held[m]
      BY <2>2, <2>13
    <3>2. /\ s.patch[m].data \subseteq DOMAIN s.held[m]
          /\ \A c \in s.patch[m].data : s.held[m][c] \in s.data
      BY <2>2, <3>1 DEF FootprintHeld
    <3>3. \A c \in DOMAIN s.held[m] : s.held[m][c] \notin free
      BY <2>2, <2>3, <2>14, <2>18, <3>1 DEF HeldOnMap
    <3> QED
      BY <2>12, <3>1, <3>2, <3>3
  <2>23. NamesSound(t)
    <3>1. PICK k \in DOMAIN s.order : /\ s.order[k] = n
                                      /\ k = CHOOSE l \in DOMAIN s.order : s.order[l] = n
      BY <2>2, <2>4
    <3>2. t.order = RemoveAt(s.order, k)
      BY <2>12, <3>1
    <3>3. /\ t.order \in Seq(DOMAIN s.held) /\ Len(t.order) = Len(s.order) - 1
          /\ \A l \in 1 .. Len(t.order) :
               t.order[l] = IF l < k THEN s.order[l] ELSE s.order[l + 1]
      <4>1. s.order \in Seq(DOMAIN s.held)
        BY <2>2
      <4> QED
        BY <4>1, <3>2, RemoveAtSound
    <3>4. /\ Len(s.order) \in Nat /\ DOMAIN s.order = 1 .. Len(s.order)
          /\ DOMAIN t.order = 1 .. Len(s.order) - 1 /\ k \in 1 .. Len(s.order)
      BY <2>2, <3>3
    <3>5. \A l \in DOMAIN t.order : t.order[l] \in DOMAIN t.held
      <4> TAKE l \in DOMAIN t.order
      <4>1. \E j \in DOMAIN s.order : j # k /\ t.order[l] = s.order[j]
        <5>1. CASE l < k
          BY <5>1, <3>3, <3>4
        <5>2. CASE ~ (l < k)
          <6>1. l + 1 \in DOMAIN s.order /\ l + 1 # k
            BY <5>2, <3>4
          <6> QED
            BY <6>1, <5>2, <3>3, <3>4
        <5> QED
          BY <5>1, <5>2
      <4> QED
        BY <2>2, <2>13, <3>1, <4>1
    <3>6. t.order \in Seq(DOMAIN t.held)
      BY <3>3, <3>5
    <3>7. ASSUME NEW m \in DOMAIN t.held PROVE \E l \in DOMAIN t.order : t.order[l] = m
      <4>1. PICK j \in DOMAIN s.order : s.order[j] = m
        BY <2>2, <2>13
      <4>2. j # k
        BY <2>13, <3>1, <4>1
      <4>3. CASE j < k
        <5>1. j \in DOMAIN t.order /\ t.order[j] = s.order[j]
          BY <3>3, <3>4, <4>3
        <5> QED
          BY <4>1, <5>1
      <4>4. CASE j > k
        <5>1. j - 1 \in DOMAIN t.order /\ ~ (j - 1 < k) /\ (j - 1) + 1 = j
          BY <3>4, <4>4
        <5>2. t.order[j - 1] = s.order[j]
          BY <3>3, <3>4, <5>1
        <5> QED
          BY <4>1, <5>1, <5>2
      <4> QED
        BY <3>4, <4>2, <4>3, <4>4
    <3>8. ASSUME NEW a \in DOMAIN t.order, NEW b \in DOMAIN t.order, t.order[a] = t.order[b]
          PROVE  a = b
      <4> DEFINE src(l) == IF l < k THEN l ELSE l + 1
      <4>1. /\ src(a) \in DOMAIN s.order /\ src(b) \in DOMAIN s.order
            /\ t.order[a] = s.order[src(a)] /\ t.order[b] = s.order[src(b)]
        <5>1. ASSUME NEW l \in DOMAIN t.order
              PROVE  src(l) \in DOMAIN s.order /\ t.order[l] = s.order[src(l)]
          <6>1. l \in 1 .. Len(s.order) - 1 /\ l \in Nat /\ k \in Nat
            BY <3>4
          <6>2. CASE l < k
            BY <3>3, <3>4, <6>1, <6>2
          <6>3. CASE ~ (l < k)
            BY <3>3, <3>4, <6>1, <6>3
          <6> QED
            BY <6>2, <6>3
        <5> QED
          BY <5>1
      <4>2. src(a) = src(b)
        BY <2>2, <3>8, <4>1
      <4> QED
        BY <3>4, <4>2
    <3> QED
      BY <2>2, <2>13, <2>22, <3>6, <3>7, <3>8 DEF NamesSound
  <2>24. ASSUME NEW m, OwnsHeld(s, m) PROVE OwnsHeld(t, m)
    <3> SUFFICES ASSUME NEW c \in DOMAIN t.at, t.at[c] = m
                 PROVE  m \in DOMAIN t.held /\ c \in DOMAIN t.held[m]
      BY DEF OwnsHeld
    <3>1. /\ c \in DOMAIN s.at \ X /\ c \in DOMAIN s.index
          /\ m = IF s.at[c] = n THEN heirOf[s.index[c]] ELSE s.at[c]
      BY <2>3, <2>12 DEF OwnersAgree
    <3>2. CASE s.at[c] = n
      BY <3>1, <3>2, <2>9, <2>13, <2>16
    <3>3. CASE s.at[c] # n
      BY <2>24, <3>1, <3>3, <2>13 DEF OwnsHeld
    <3> QED
      BY <3>2, <3>3
  <2>25. Removal(s, t, n)
    <3>1. \A c \in DOMAIN t.at :
            IF s.at[c] = n THEN t.at[c] \in DOMAIN t.held /\ c \in DOMAIN t.held[t.at[c]]
                           ELSE t.at[c] = s.at[c]
      BY <2>9, <2>12, <2>13, <2>16
    <3> QED
      BY <2>10, <2>12, <2>13, <3>1 DEF Removal, X
  <2> QED
    BY <2>13, <2>21, <2>23, <2>24, <2>25 DEF t
<1> QED
  BY <1>1, <1>2

-----------------------------------------------------------------------------
(* The calls that leave the maps of cells as they are.                      *)

Quiet(s, t) ==
  /\ SameMaps(s, t) /\ t.patch = s.patch /\ t.order = s.order /\ (Ok(t) => Ok(s))

\* Such a call keeps the registry sound if what it brings into use is on the map.
LEMMA QuietSound ==
  ASSUME NEW s, MapsSound(s), NamesSound(s), NEW t, Quiet(s, t),
         t.live \subseteq s.data \cap DOMAIN s.coord
  PROVE  /\ MapsSound(t) /\ NamesSound(t) /\ DOMAIN t.coord = DOMAIN s.coord
         /\ t.held = s.held /\ \A m : OwnsHeld(s, m) => OwnsHeld(t, m)
<1>1. LiveOnMap(t)
  BY DEF LiveOnMap, Quiet, SameMaps
<1> QED
  BY <1>1, SameMapsSound, SameNamesSound DEF Quiet, SameMaps, OwnsHeld

LEMMA QuietTwice ==
  ASSUME NEW s, NEW t, Quiet(s, t), NEW u, Quiet(t, u)
  PROVE  Quiet(s, u)
  BY DEF Quiet, SameMaps

\* Retirement, the seam checks, resets, readouts and rounds are such calls.
LEMMA CallsAside ==
  ASSUME NEW s, DOMAIN s = Fields, NEW n, NEW I
  PROVE  /\ Quiet(s, RetireMeasuredPatch(s, n)) /\ RetireMeasuredPatch(s, n).live \subseteq s.live
         /\ Quiet(s, ActivateCoupler(s, n)) /\ ActivateCoupler(s, n).live = s.live
         /\ Quiet(s, DeactivateCoupler(s, n)) /\ DeactivateCoupler(s, n).live = s.live
         /\ Quiet(s, Initialize(s, I)) /\ Initialize(s, I).live = s.live \cup I
         /\ Quiet(s, ApplyDataReadout(s, I)) /\ ApplyDataReadout(s, I).live \subseteq s.live
         /\ Quiet(s, ApplySyndromeExtraction(s)) /\ ApplySyndromeExtraction(s).live = s.live
         /\ Quiet(s, WriteCoordinates([s EXCEPT !.tracked = TRUE]))
         /\ WriteCoordinates([s EXCEPT !.tracked = TRUE]).live = s.live
<1>1. Quiet(s, RetireMeasuredPatch(s, n)) /\ RetireMeasuredPatch(s, n).live \subseteq s.live
  BY DEF RetireMeasuredPatch, Quiet, SameMaps, Ok, Fields, NewSystem
<1>2. Quiet(s, ActivateCoupler(s, n)) /\ ActivateCoupler(s, n).live = s.live
  BY DEF ActivateCoupler, Quiet, SameMaps, Ok, Fields, NewSystem
<1>3. Quiet(s, DeactivateCoupler(s, n)) /\ DeactivateCoupler(s, n).live = s.live
  BY DEF DeactivateCoupler, Quiet, SameMaps, Ok, Fields, NewSystem
<1>4. Quiet(s, Initialize(s, I)) /\ Initialize(s, I).live = s.live \cup I
  BY DEF Initialize, Quiet, SameMaps, Ok, Fields, NewSystem
<1>5. Quiet(s, ApplyDataReadout(s, I)) /\ ApplyDataReadout(s, I).live \subseteq s.live
  BY DEF ApplyDataReadout, Quiet, SameMaps, Ok, Fields, NewSystem
<1>6. Quiet(s, ApplySyndromeExtraction(s)) /\ ApplySyndromeExtraction(s).live = s.live
  BY DEF ApplySyndromeExtraction, Fail, Quiet, SameMaps, Ok, Fields, NewSystem
<1>7. /\ Quiet(s, WriteCoordinates([s EXCEPT !.tracked = TRUE]))
      /\ WriteCoordinates([s EXCEPT !.tracked = TRUE]).live = s.live
  BY DEF WriteCoordinates, Quiet, SameMaps, Ok, Fields, NewSystem
<1> QED
  BY <1>1, <1>2, <1>3, <1>4, <1>5, <1>6, <1>7

-----------------------------------------------------------------------------
(* The layouts of a rotation are geometries.                                *)

LEMMA RectGeometry ==
  ASSUME NEW y0 \in Int, NEW rows \in Nat, NEW edge
  PROVE  Geometry(Rect(y0, rows, edge))
<1> DEFINE g == Rect(y0, rows, edge)
           box == (0 .. 2 * D) \X (y0 .. y0 + 2 * rows)
<1>d. D \in Nat
  BY DAssumption
<1>1. IsFiniteSet(box) /\ box \subseteq Int \X Int
  <2>1. IsFiniteSet(0 .. 2 * D) /\ IsFiniteSet(y0 .. y0 + 2 * rows)
    BY <1>d, FS_Interval
  <2>2. IsFiniteSet(box)
    BY <2>1, FS_Product, Zenon
  <2>3. box \subseteq Int \X Int
    BY <1>d
  <2> QED
    BY <2>2, <2>3
<1>2. DataOf(y0, rows) \subseteq box
  BY <1>d DEF DataOf
<1>3. Rim(y0, rows) \subseteq box
  BY <1>d DEF Rim
<1>4. {<<2 * i, y0 + 2 * j>> : i \in 1 .. D - 1, j \in 1 .. rows - 1} \subseteq box
  BY <1>d
<1> HIDE DEF box
<1>5. g.cells \subseteq box /\ g.data \subseteq g.cells
  BY <1>2, <1>3, <1>4 DEF Rect
<1> QED
  BY <1>1, <1>5, FS_Subset DEF Geometry

LEMMA LayoutsAreGeometries ==
  ASSUME NEW y \in Int
  PROVE  /\ Geometry(Start(y)) /\ Geometry(Grown(y)) /\ Geometry(Moved(y))
         /\ Geometry(Far(y)) /\ Geometry(Bar2(y)) /\ Geometry(Shrunk(y))
<1>1. y - Reach \in Int /\ D \in Nat /\ 2 * D - 1 \in Nat
  BY DAssumption DEF Reach
<1> QED
  BY <1>1, RectGeometry
     DEF Start, Grown, Moved, Far, Bar2, Shrunk, GrownBar, RectBoundary

-----------------------------------------------------------------------------
(* What a call of build() may do to the registry.                           *)

Good(s) ==
  MapsSound(s) /\ NamesSound(s) /\ \A i \in 1 .. NSteps : OwnsHeld(s, Coupler[i])

Kept(s, t) ==
  /\ Good(t)
  /\ DOMAIN t.coord \cap 0 .. s.next - 1 \subseteq DOMAIN s.coord
  /\ Ok(t) => DOMAIN s.held \subseteq DOMAIN t.held

LEMMA KeptSame ==
  ASSUME NEW s, Good(s)
  PROVE  Kept(s, s)
  BY DEF Kept

LEMMA KeptThenQuiet ==
  ASSUME NEW s, NEW t, Kept(s, t), NEW u, Quiet(t, u),
         u.live \subseteq t.data \cap DOMAIN t.coord
  PROVE  Kept(s, u)
<1>1. MapsSound(t) /\ NamesSound(t)
  BY DEF Kept, Good
<1>2. /\ MapsSound(u) /\ NamesSound(u) /\ DOMAIN u.coord = DOMAIN t.coord
      /\ u.held = t.held /\ \A m : OwnsHeld(t, m) => OwnsHeld(u, m)
  BY <1>1, QuietSound
<1> QED
  BY <1>2 DEF Kept, Good, Quiet

LEMMA KeptOccupied ==
  ASSUME NEW s, Good(s), NEW n, NEW t, Occupied(s, t, n),
         \A i \in 1 .. NSteps : Coupler[i] = n => OwnsHeld(t, n)
  PROVE  Kept(s, t)
<1>1. ASSUME NEW i \in 1 .. NSteps PROVE OwnsHeld(t, Coupler[i])
  <2>1. CASE Coupler[i] = n
    BY <2>1
  <2>2. CASE Coupler[i] # n
    <3>1. OwnsHeld(s, Coupler[i])
      BY DEF Good
    <3> QED
      BY <3>1, <2>2 DEF Occupied, OwnsHeld
  <2> QED
    BY <2>1, <2>2
<1> QED
  BY <1>1 DEF Kept, Good, Occupied

\* A round after a call keeps what the call kept.
LEMMA KeptThenRound ==
  ASSUME NEW s, NEW t, Kept(s, t)
  PROVE  Kept(s, ApplySyndromeExtraction(t))
<1>1. DOMAIN t = Fields /\ LiveOnMap(t)
  BY DEF Kept, Good, MapsSound
<1>2. Quiet(t, ApplySyndromeExtraction(t)) /\ ApplySyndromeExtraction(t).live = t.live
  BY <1>1, CallsAside
<1> QED
  BY <1>1, <1>2, KeptThenQuiet DEF LiveOnMap

\* Resetting qubits that are data on the map, and then a round.
LEMMA KeptThenReset ==
  ASSUME NEW s, NEW t, Kept(s, t), NEW I, I \subseteq t.data \cap DOMAIN t.coord
  PROVE  Kept(s, Initialize(t, I))
<1>1. DOMAIN t = Fields /\ LiveOnMap(t)
  BY DEF Kept, Good, MapsSound
<1>2. Quiet(t, Initialize(t, I)) /\ Initialize(t, I).live = t.live \cup I
  BY <1>1, CallsAside
<1> QED
  BY <1>1, <1>2, KeptThenQuiet DEF LiveOnMap

\* A readout.
LEMMA KeptThenRead ==
  ASSUME NEW s, NEW t, Kept(s, t), NEW I
  PROVE  Kept(s, ApplyDataReadout(t, I))
<1>1. DOMAIN t = Fields /\ LiveOnMap(t)
  BY DEF Kept, Good, MapsSound
<1>2. Quiet(t, ApplyDataReadout(t, I)) /\ ApplyDataReadout(t, I).live \subseteq t.live
  BY <1>1, CallsAside
<1> QED
  BY <1>1, <1>2, KeptThenQuiet DEF LiveOnMap

\* What a patch or a coupler owns or holds as data is data on the map.
LEMMA FootprintOnMap ==
  ASSUME NEW s, Good(s), NEW n
  PROVE  /\ OwnedData(s, n) \subseteq s.data \cap DOMAIN s.coord
         /\ Ok(s) /\ n \in DOMAIN s.patch => CorridorData(s, n) \subseteq s.data \cap DOMAIN s.coord
<1>1. MapsInverse(s) /\ OwnersAgree(s) /\ HeldOnMap(s)
  BY DEF Good, MapsSound
<1>2. OwnedData(s, n) \subseteq s.data \cap DOMAIN s.coord
  BY <1>1 DEF OwnedData, Owned, OwnersAgree
<1>3. ASSUME Ok(s), n \in DOMAIN s.patch
      PROVE  CorridorData(s, n) \subseteq s.data \cap DOMAIN s.coord
  <2>1. FootprintHeld(s)
    BY <1>3 DEF Good, NamesSound
  <2> QED
    BY <1>1, <1>3, <2>1 DEF CorridorData, FootprintHeld, HeldOnMap, MapsInverse
<1> QED
  BY <1>2, <1>3

\* Initialisation and the baseline rounds.
LEMMA KeptBaseline ==
  ASSUME NEW s, NEW t, Kept(s, t), NEW P
  PROVE  Kept(s, InitAndBaseline(t, P))
<1> DEFINE I == UNION {OwnedData(t, p) : p \in P}
<1>1. I \subseteq t.data \cap DOMAIN t.coord
  BY FootprintOnMap DEF Kept
<1> HIDE DEF I
<1>2. Kept(s, ApplySyndromeExtraction(Initialize(t, I)))
  BY <1>1, KeptThenReset, KeptThenRound
<1> QED
  BY <1>2 DEF InitAndBaseline, I

-----------------------------------------------------------------------------
(* The parts of a rotation.                                                 *)

LEMMA GrowToKept ==
  ASSUME NEW s, Good(s), Ok(s), NEW n \in DOMAIN s.patch, NEW g, Geometry(g),
         \A i \in 1 .. NSteps : Coupler[i] # n,
         NEW t, t = GrowPatch(s, n, g)
  PROVE  Kept(s, IF Ok(t) THEN Initialize(t, NewData(s, n, g)) ELSE t)
<1>1. MapsSound(s) /\ NamesSound(s)
  BY DEF Good
<1>2. Occupied(s, t, n) /\ (Ok(t) => SameMaps(Occupy(s, n, g), t))
  BY <1>1, GrowPatchSound
<1>3. Kept(s, t)
  BY <1>2, KeptOccupied
<1>4. ASSUME Ok(t) PROVE NewData(s, n, g) \subseteq t.data \cap DOMAIN t.coord
  <2> DEFINE idx == IndexOf(s, g, Fresh(s, g))
             o == Occupy(s, n, g)
  <2>1. Taken(s, n, g, idx, o)
    BY <1>1, OccupyMaps DEF MapsSound
  <2>2. t.data = o.data /\ t.coord = o.coord
    BY <1>2, <1>4 DEF SameMaps
  <2>3. NewData(s, n, g) \subseteq {idx[c] : c \in g.data} /\ DOMAIN idx = g.cells
    BY DEF NewData, At, IndexOf
  <2> HIDE DEF idx, o
  <2> QED
    BY <2>1, <2>2, <2>3 DEF Taken, Image, Geometry
<1> QED
  BY <1>3, <1>4, KeptThenReset

LEMMA ShrinkToKept ==
  ASSUME NEW s, Good(s), Ok(s), NEW n \in DOMAIN s.patch, NEW g, Geometry(g),
         \A i \in 1 .. NSteps : Coupler[i] # n, NEW out
  PROVE  Kept(s, ShrinkPatch(ApplyDataReadout(s, out), n, g))
<1> DEFINE r == ApplyDataReadout(s, out)
           t == ShrinkPatch(r, n, g)
<1>1. DOMAIN s = Fields
  BY DEF Good, MapsSound
<1>2. Quiet(s, r) /\ Ok(r)
  <2>1. Quiet(s, r)
    BY <1>1, CallsAside
  <2> QED
    BY <2>1 DEF ApplyDataReadout, Ok
<1>3. Kept(s, r)
  BY KeptSame, KeptThenRead
<1> HIDE DEF r
<1>4. MapsSound(r) /\ NamesSound(r) /\ n \in DOMAIN r.patch
  BY <1>2, <1>3 DEF Kept, Good, Quiet
<1>5. Occupied(r, t, n)
  BY <1>2, <1>4, ShrinkPatchSound
<1> HIDE DEF t
<1>6. Occupied(s, t, n)
  BY <1>2, <1>5 DEF Occupied, Quiet, SameMaps
<1> QED
  BY <1>6, KeptOccupied DEF r, t

LEMMA MoveCornersKept ==
  ASSUME NEW s, Good(s), Ok(s), NEW n \in DOMAIN s.patch, NEW g, Geometry(g),
         \A i \in 1 .. NSteps : Coupler[i] # n
  PROVE  Kept(s, MoveCorners(s, n, g))
<1>1. Occupied(s, MoveCorners(s, n, g), n)
  BY MoveCornersSound DEF Good
<1> QED
  BY <1>1, KeptOccupied

\* A refused call.
LEMMA FailKept ==
  ASSUME NEW s, Good(s), NEW what, what # "none"
  PROVE  Kept(s, Fail(s, what)) /\ ~ Ok(Fail(s, what))
<1>1. Occupied(s, Fail(s, what), Nobody) /\ ~ Ok(Fail(s, what))
  BY FailSound DEF Good
<1> QED
  BY <1>1, KeptOccupied, NamesAssumption

-----------------------------------------------------------------------------
(* The steps.                                                               *)

\* No index that was handed out before and is free is handed out again.
NoneReturns ==
  \A i \in 0 .. sys.next - 1 : i \notin DOMAIN sys.coord => i \notin DOMAIN sys'.coord

Named == {"merge", "split", "register", "rotate", "rotated", "register again"}

LEMMA InitSound ==
  ASSUME Init PROVE RegistryInv
<1>1. /\ sys.index = Empty /\ sys.coord = Empty /\ sys.at = Empty /\ sys.of = Empty
      /\ sys.next = 0 /\ sys.live = {} /\ sys.held = Empty /\ sys.patch = Empty
      /\ sys.order = <<>> /\ DOMAIN sys = Fields
  BY DEF Init, NewSystem, Fields
<1>2. DOMAIN Empty = {}
  BY DEF Empty
<1>3. MapsSound(sys)
  BY <1>1, <1>2 DEF MapsSound, MapsInverse, OwnersAgree, HeldOnMap, LiveOnMap
<1>4. NamesSound(sys)
  BY <1>1, <1>2 DEF NamesSound, FootprintHeld
<1>5. \A i \in 1 .. NSteps : OwnsHeld(sys, Coupler[i])
  BY <1>1, <1>2 DEF OwnsHeld
<1>6. ControlSound
  <2>1. Legal(prog)
    BY ProgramsAssumption DEF Init
  <2>s. step = 1
    BY DEF Init
  <2>2. routes = {} /\ phase = "up front"
    BY DEF Init
  <2>3. moving = [patch |-> Nobody, stage |-> 0]
    BY DEF Init
  <2>4. moving \in [patch : Patches \cup {Nobody}, stage : 0 .. 6]
    BY <2>3
  <2>5. step \in 1 .. NSteps
    BY <2>s, StepsAssumption
  <2> QED
    BY <2>1, <2>2, <2>4, <2>5, Zenon DEF ControlSound
<1> QED
  BY <1>3, <1>4, <1>5, <1>6 DEF RegistryInv

\* A step that keeps to the names it had and calls none of them next.
LEMMA ControlKept ==
  ASSUME ControlSound, Ok(sys), Kept(sys, sys'), UNCHANGED <<prog, routes, moving>>,
         step' \in 1 .. NSteps, phase' \notin Named
  PROVE  ControlSound'
  BY DEF ControlSound, Kept, Named

LEMMA GoodNow ==
  ASSUME RegistryInv, Ok(sys)
  PROVE  /\ Good(sys) /\ Kept(sys, sys) /\ DOMAIN sys.patch = DOMAIN sys.held
         /\ DOMAIN sys = Fields /\ LiveOnMap(sys)
  BY KeptSame DEF RegistryInv, Good, NamesSound, MapsSound

\* The patches are not couplers, and the registry takes them.
LEMMA AllocKept ==
  ASSUME RegistryInv, Ok(sys), NEW p \in Patches
  PROVE  Kept(sys, Alloc(p))
<1>1. Geometry(Start(Home[p])) /\ p # Nobody /\ \A i \in 1 .. NSteps : Coupler[i] # p
  BY HomeAssumption, NamesAssumption, LayoutsAreGeometries
<1>2. Good(sys)
  BY GoodNow
<1>3. Occupied(sys, Alloc(p), p)
  BY <1>1, <1>2, AddPatchSound DEF Alloc, Good
<1> QED
  BY <1>1, <1>2, <1>3, KeptOccupied

\* A coupler whose step fits.
LEMMA CouplerKept ==
  ASSUME RegistryInv, Ok(sys), Fits(step),
         NEW t, t = RegisterCoupler(sys, Coupler[step], RouteOf(step))
  PROVE  Kept(sys, t) /\ (Ok(t) => Coupler[step] \in DOMAIN t.held)
<1>1. step \in 1 .. NSteps
  BY DEF RegistryInv, ControlSound
<1>2. Geometry(RouteOf(step)) /\ Coupler[step] # Nobody
  BY <1>1, NamesAssumption DEF RegistryInv, ControlSound, Legal, Fits, RouteOf
<1>3. Good(sys)
  BY GoodNow
<1>4. /\ Occupied(sys, t, Coupler[step])
      /\ OwnsHeld(sys, Coupler[step]) => OwnsHeld(t, Coupler[step])
      /\ Ok(t) => Coupler[step] \in DOMAIN t.held
  BY <1>2, <1>3, AddPatchSound DEF Good, RegisterCoupler
<1> QED
  BY <1>1, <1>3, <1>4, KeptOccupied DEF Good

LEMMA StepUpFront ==
  ASSUME RegistryInv, AllocateUpFront \/ RegisterUpFront \/ SetUp
  PROVE  Kept(sys, sys') /\ ControlSound'
<1>o. Ok(sys)
  BY DEF AllocateUpFront, RegisterUpFront, SetUp, Go
<1>c. ControlSound
  BY DEF RegistryInv
<1>1. CASE AllocateUpFront
  <2>1. PICK p \in UpFront \ Allocated : sys' = Alloc(p)
    BY <1>1 DEF AllocateUpFront
  <2>2. Kept(sys, sys')
    BY <1>o, <2>1, AllocKept DEF UpFront, Used
  <2>3. step' \in 1 .. NSteps /\ phase' \notin Named /\ UNCHANGED <<prog, routes, moving>>
    BY <1>1, <1>c DEF AllocateUpFront, Go, Named, ControlSound
  <2> QED
    BY <1>o, <1>c, <2>2, <2>3, ControlKept
<1>2. CASE RegisterUpFront
  <2>1. step \in 1 .. NSteps /\ step' \in 1 .. NSteps /\ phase' \notin Named
    <3>1. step \in 1 .. NSteps
      BY <1>c DEF ControlSound
    <3>2. step' = IF step = NSteps THEN 1 ELSE step + 1
      BY <1>2 DEF RegisterUpFront
    <3>3. phase' \in {"set up", "up front"}
      BY <1>2 DEF RegisterUpFront, Go
    <3>4. step' \in 1 .. NSteps
      BY <3>1, <3>2, StepsAssumption
    <3> QED
      BY <3>1, <3>3, <3>4 DEF Named
  <2>2. UNCHANGED <<prog, moving>>
    BY <1>2 DEF RegisterUpFront
  <2>3. CASE UNCHANGED <<sys, routes>>
    <3>1. Kept(sys, sys')
      BY <1>o, <2>3, GoodNow
    <3> QED
      BY <1>o, <1>c, <2>1, <2>2, <2>3, <3>1, ControlKept
  <2>4. CASE ~ UNCHANGED <<sys, routes>>
    <3>1. /\ Fits(step) /\ sys' = RegisterCoupler(sys, Coupler[step], RouteOf(step))
          /\ routes' = routes \cup {step}
      BY <1>2, <2>4 DEF RegisterUpFront
    <3>2. Kept(sys, sys') /\ (Ok(sys') => Coupler[step] \in DOMAIN sys'.held)
      BY <1>o, <3>1, CouplerKept
    <3>3. ControlSound'
      BY <1>o, <1>c, <2>1, <2>2, <3>1, <3>2 DEF ControlSound, Kept, Named
    <3> QED
      BY <3>2, <3>3
  <2> QED
    BY <2>3, <2>4
<1>3. CASE SetUp
  <2> DEFINE w == WriteCoordinates([sys EXCEPT !.tracked = TRUE])
  <2>1. sys' = InitAndBaseline(w, UpFront)
    BY <1>3 DEF SetUp
  <2>2. Quiet(sys, w) /\ w.live = sys.live
    BY <1>o, GoodNow, CallsAside
  <2> HIDE DEF w
  <2>3. Kept(sys, w)
    BY <1>o, <2>2, GoodNow, KeptThenQuiet DEF LiveOnMap
  <2>4. Kept(sys, sys')
    BY <2>1, <2>3, KeptBaseline
  <2>5. step' \in 1 .. NSteps /\ phase' \notin Named /\ UNCHANGED <<prog, routes, moving>>
    BY <1>3, <1>c DEF SetUp, Go, Named, ControlSound
  <2> QED
    BY <1>o, <1>c, <2>4, <2>5, ControlKept
<1> QED
  BY <1>1, <1>2, <1>3

LEMMA TargetsArePatches ==
  ASSUME ControlSound
  PROVE  Targets(step) \subseteq Patches
<1> DEFINE tg == prog.steps[step].targets
<1>1. tg \in Seq(Patches)
  BY DEF ControlSound, Legal
<1>2. Targets(step) = {tg[k] : k \in DOMAIN tg}
  BY DEF Targets, Image
<1> HIDE DEF tg
<1> QED
  BY <1>1, <1>2

LEMMA StepBringIn ==
  ASSUME RegistryInv, AllocateFirstUsed \/ BringIn
  PROVE  Kept(sys, sys') /\ ControlSound'
<1>o. Ok(sys)
  BY DEF AllocateFirstUsed, BringIn, Go
<1>c. ControlSound
  BY DEF RegistryInv
<1>1. CASE AllocateFirstUsed
  <2>1. PICK p \in Targets(step) \ Allocated : sys' = Alloc(p)
    BY <1>1 DEF AllocateFirstUsed
  <2>2. p \in Patches
    BY <1>c, <2>1, TargetsArePatches
  <2>3. Kept(sys, sys')
    BY <1>o, <2>1, <2>2, AllocKept
  <2>4. step' \in 1 .. NSteps /\ phase' \notin Named /\ UNCHANGED <<prog, routes, moving>>
    BY <1>1, <1>c DEF AllocateFirstUsed, Go, Named, ControlSound
  <2> QED
    BY <1>o, <1>c, <2>3, <2>4, ControlKept
<1>2. CASE BringIn
  <2>1. sys' = sys \/ sys' = InitAndBaseline(sys, newly)
    BY <1>2 DEF BringIn
  <2>2. Kept(sys, sys')
    BY <1>o, <2>1, GoodNow, KeptBaseline
  <2>3. /\ UNCHANGED <<prog, step, routes, moving>> /\ phase' = "register"
        /\ Targets(step) \subseteq DOMAIN sys.patch
    BY <1>2 DEF BringIn, Go, Allocated
  <2>4. Targets(step)' = Targets(step)
    BY <2>3 DEF Targets, Image
  <2>5. DOMAIN sys.patch = DOMAIN sys.held
    BY <1>o, GoodNow
  <2>6. ControlSound'
    BY <1>o, <1>c, <2>2, <2>3, <2>4, <2>5 DEF ControlSound, Kept
  <2> QED
    BY <2>2, <2>6
<1> QED
  BY <1>1, <1>2

LEMMA StepRegister ==
  ASSUME RegistryInv, UseRegistered \/ RegisterStep \/ BeginRepair
  PROVE  Kept(sys, sys') /\ ControlSound'
<1>o. Ok(sys)
  BY DEF UseRegistered, RegisterStep, BeginRepair, Go
<1>c. ControlSound
  BY DEF RegistryInv
<1>1. CASE UseRegistered
  <2>1. /\ UNCHANGED <<prog, sys, step, routes, moving>>
        /\ phase' = "merge" /\ step \in routes
    BY <1>1 DEF UseRegistered, Go
  <2>2. Kept(sys, sys')
    BY <1>o, <2>1, GoodNow
  <2>3. ControlSound'
    BY <1>o, <1>c, <2>1 DEF ControlSound
  <2> QED
    BY <2>2, <2>3
<1>2. CASE RegisterStep
  <2>1. /\ UNCHANGED <<prog, step, moving>> /\ phase' = "merge"
        /\ routes' = routes \cup {step}
        /\ sys' = IF Registrable THEN CouplerPlaced
                  ELSE Fail(sys, "the step cannot be registered")
    BY <1>2 DEF RegisterStep, Go
  <2>2. Kept(sys, sys') /\ (Ok(sys') => Coupler[step] \in DOMAIN sys'.held)
    <3>1. CASE Registrable
      BY <1>o, <2>1, <3>1, CouplerKept DEF Registrable, CouplerPlaced
    <3>2. CASE ~ Registrable
      <4>1. sys' = Fail(sys, "the step cannot be registered")
        BY <2>1, <3>2
      <4> QED
        BY <1>o, <4>1, GoodNow, FailKept
    <3> QED
      BY <3>1, <3>2
  <2>3. ControlSound'
    BY <1>o, <1>c, <2>1, <2>2 DEF ControlSound, Kept
  <2> QED
    BY <2>2, <2>3
<1>3. CASE BeginRepair
  <2>1. /\ UNCHANGED <<prog, sys, step, routes>> /\ phase = "register" /\ phase' = "rotate"
        /\ Repairs # {}
        /\ moving' = [patch |-> prog.steps[step].targets[Min(Repairs)], stage |-> 1]
    BY <1>3 DEF BeginRepair, Go, Blocking
  <2>2. moving'.patch \in Targets(step)
    <3> DEFINE tg == prog.steps[step].targets
    <3>1. tg \in Seq(Patches)
      BY <1>c DEF ControlSound, Legal
    <3>2. Repairs \subseteq DOMAIN tg
      BY DEF Repairs
    <3>3. Targets(step) = {tg[k] : k \in DOMAIN tg} /\ moving'.patch = tg[Min(Repairs)]
      BY <2>1 DEF Targets, Image
    <3> HIDE DEF tg
    <3>4. Repairs \in SUBSET Nat
      BY <3>1, <3>2
    <3>5. Min(Repairs) \in Repairs
      BY <2>1, <3>4, LeastOne
    <3> QED
      BY <3>2, <3>3, <3>5
  <2>3. Targets(step)' = Targets(step) /\ Targets(step) \subseteq Patches
    BY <1>c, <2>1, TargetsArePatches DEF Targets, Image
  <2>4. moving' \in [patch : Patches \cup {Nobody}, stage : 0 .. 6]
    BY <2>1, <2>2, <2>3
  <2>5. Kept(sys, sys')
    BY <1>o, <2>1, GoodNow
  <2>6. ControlSound'
    BY <1>o, <1>c, <2>1, <2>2, <2>3, <2>4 DEF ControlSound
  <2> QED
    BY <2>5, <2>6
<1> QED
  BY <1>1, <1>2, <1>3

\* The patch under rotation is registered.
LEMMA TurningSound ==
  ASSUME RegistryInv, Ok(sys), phase = "rotate"
  PROVE  /\ Turning \in DOMAIN sys.patch /\ HomeY \in Int
         /\ \A i \in 1 .. NSteps : Coupler[i] # Turning
<1>1. ControlSound /\ Turning \in Targets(step) /\ Targets(step) \subseteq DOMAIN sys.held
  BY DEF RegistryInv, ControlSound, Turning
<1>2. Turning \in Patches
  BY <1>1, TargetsArePatches
<1> QED
  BY <1>1, <1>2, GoodNow, HomeAssumption, NamesAssumption DEF HomeY

LEMMA StageSound ==
  ASSUME RegistryInv, NEW k \in 1 .. 5, NEW after, Stage(k, after), Kept(sys, after)
  PROVE  Kept(sys, sys') /\ ControlSound'
<1>1. /\ Ok(sys) /\ phase = "rotate" /\ phase' \in {"rotate", "rotated"}
      /\ UNCHANGED <<prog, step, routes>>
      /\ sys' = IF Ok(after) THEN ApplySyndromeExtraction(after) ELSE after
      /\ moving' = [moving EXCEPT !.stage = k + 1]
  BY DEF Stage, Go
<1>2. Kept(sys, sys')
  BY <1>1, KeptThenRound
<1>c. ControlSound
  BY DEF RegistryInv
<1>3. /\ moving' \in [patch : Patches \cup {Nobody}, stage : 0 .. 6]
      /\ moving'.patch = moving.patch
  <2>1. moving \in [patch : Patches \cup {Nobody}, stage : 0 .. 6]
    BY <1>c DEF ControlSound
  <2>2. k + 1 \in 0 .. 6
    OBVIOUS
  <2> QED
    BY <1>1, <2>1, <2>2
<1>4. Targets(step)' = Targets(step)
  BY <1>1 DEF Targets, Image
<1>5. ControlSound'
  BY <1>c, <1>1, <1>2, <1>3, <1>4 DEF ControlSound, Kept
<1> QED
  BY <1>2, <1>5

LEMMA StepRotate ==
  ASSUME RegistryInv,
         \/ RotateGrow \/ RotateMoveCorners \/ RotateShrink \/ RotateGrowBack \/ RotateShrinkHome
  PROVE  Kept(sys, sys') /\ ControlSound'
<1>1. Ok(sys) /\ phase = "rotate"
  BY DEF RotateGrow, RotateMoveCorners, RotateShrink, RotateGrowBack, RotateShrinkHome,
         Stage, Go
<1>2. /\ Turning \in DOMAIN sys.patch /\ HomeY \in Int
      /\ \A i \in 1 .. NSteps : Coupler[i] # Turning
  BY <1>1, TurningSound
<1>3. Good(sys)
  BY <1>1, GoodNow
<1>4. /\ Geometry(Grown(HomeY)) /\ Geometry(Moved(HomeY)) /\ Geometry(Far(HomeY))
      /\ Geometry(Bar2(HomeY)) /\ Geometry(Shrunk(HomeY))
  BY <1>2, LayoutsAreGeometries
<1>5. Kept(sys, GrowTo(Grown(HomeY))) /\ Kept(sys, GrowTo(Bar2(HomeY)))
  BY <1>1, <1>2, <1>3, <1>4, GrowToKept DEF GrowTo
<1>6. CASE RotateGrow
  <2> DEFINE bad == \/ Cardinality(LiveData(sys, Turning)) # D * D
                    \/ LiveLobes # StartLobes
             after == IF bad THEN Fail(sys, "not the start layout") ELSE GrowTo(Grown(HomeY))
  <2>1. Stage(1, after)
    BY <1>6 DEF RotateGrow
  <2> HIDE DEF bad
  <2>2. Kept(sys, after)
    BY <1>3, <1>5, FailKept
  <2> HIDE DEF after
  <2> QED
    BY <2>1, <2>2, StageSound
<1>7. CASE RotateMoveCorners
  BY <1>1, <1>2, <1>3, <1>4, <1>7, MoveCornersKept, StageSound DEF RotateMoveCorners
<1>8. CASE RotateShrink
  BY <1>1, <1>2, <1>3, <1>4, <1>8, ShrinkToKept, StageSound DEF RotateShrink, ShrinkTo
<1>9. CASE RotateGrowBack
  BY <1>5, <1>9, StageSound DEF RotateGrowBack
<1>10. CASE RotateShrinkHome
  BY <1>1, <1>2, <1>3, <1>4, <1>10, ShrinkToKept, StageSound DEF RotateShrinkHome, ShrinkTo
<1> QED
  BY <1>6, <1>7, <1>8, <1>9, <1>10

\* A removal, when what is freed is the coupler's own and not in use.
LEMMA StepInvalidate ==
  ASSUME RegistryInv, RemovalsClean, Invalidate \/ Rotated
  PROVE  /\ Good(sys') /\ DOMAIN sys'.coord \cap 0 .. sys.next - 1 \subseteq DOMAIN sys.coord
         /\ ControlSound'
<1>o. Ok(sys) /\ phase = "rotated"
  BY DEF Invalidate, Rotated, Go
<1>c. ControlSound
  BY DEF RegistryInv
<1>1. CASE Invalidate
  <2>1. PICK j \in Stale : sys' = RemoveCoupler(sys, Coupler[j]) /\ routes' = routes \ {j}
    BY <1>1 DEF Invalidate
  <2>2. UNCHANGED <<prog, step, moving>> /\ phase' = "rotated"
    BY <1>1 DEF Invalidate, Go
  <2>3. j \in routes /\ j \in 1 .. NSteps /\ CleanToRemove(sys, Coupler[j])
    BY <1>o, <1>c DEF Stale, RemovalsClean, ControlSound
  <2>4. Good(sys)
    BY <1>o, GoodNow
  <2>5. /\ MapsSound(sys') /\ NamesSound(sys')
        /\ DOMAIN sys'.coord \subseteq DOMAIN sys.coord
        /\ DOMAIN sys.held \ {Coupler[j]} \subseteq DOMAIN sys'.held
        /\ \A m : OwnsHeld(sys, m) => OwnsHeld(sys', m)
    BY <1>o, <2>1, <2>3, <2>4, RemoveCouplerSound DEF Good
  <2>6. Good(sys')
    BY <2>4, <2>5 DEF Good
  <2>7. Targets(step)' = Targets(step) /\ Targets(step) \subseteq Patches
    BY <1>c, <2>2, TargetsArePatches DEF Targets, Image
  <2>8. \A i \in routes' : Coupler[i] \in DOMAIN sys'.held
    BY <1>o, <1>c, <2>1, <2>3, <2>5, NamesAssumption DEF ControlSound
  <2>9. Targets(step) \subseteq DOMAIN sys'.held
    BY <1>o, <1>c, <2>3, <2>5, <2>7, NamesAssumption DEF ControlSound
  <2>10. ControlSound'
    BY <1>o, <1>c, <2>1, <2>2, <2>7, <2>8, <2>9 DEF ControlSound
  <2> QED
    BY <2>5, <2>6, <2>10
<1>2. CASE Rotated
  <2>1. UNCHANGED <<prog, sys, step, routes, moving>> /\ phase' = "register again"
    BY <1>2 DEF Rotated, Go
  <2>2. Targets(step)' = Targets(step)
    BY <2>1 DEF Targets, Image
  <2>3. ControlSound'
    BY <1>o, <1>c, <2>1, <2>2 DEF ControlSound
  <2> QED
    BY <1>o, <2>1, <2>3, GoodNow
<1> QED
  BY <1>1, <1>2

LEMMA StepMerge ==
  ASSUME RegistryInv, Merge \/ Split
  PROVE  Kept(sys, sys') /\ ControlSound'
<1> DEFINE n == Coupler[step]
           a == ActivateCoupler(sys, n)
           d == DeactivateCoupler(sys, n)
           I == CorridorData(sys, n)
<1>1. /\ Ok(sys) /\ UNCHANGED <<prog, step, routes, moving>>
      /\ phase \in {"merge", "split"} /\ phase' \in {"split", "retire"}
  BY DEF Merge, Split, Go
<1>c. ControlSound
  BY DEF RegistryInv
<1>2. step \in routes /\ n \in DOMAIN sys.patch
  BY <1>1, <1>c, GoodNow DEF ControlSound
<1>3. I \subseteq sys.data \cap DOMAIN sys.coord
  BY <1>1, <1>2, GoodNow, FootprintOnMap
<1>4. /\ Quiet(sys, a) /\ a.live = sys.live
      /\ Quiet(sys, d) /\ d.live = sys.live
  BY <1>1, GoodNow, CallsAside
<1>5. ASSUME Merge PROVE Kept(sys, sys')
  <2>1. sys' = ApplySyndromeExtraction(Initialize(a, I))
    BY <1>5 DEF Merge
  <2> HIDE DEF a, I, n
  <2>2. Kept(sys, a)
    BY <1>1, <1>4, GoodNow, KeptThenQuiet DEF LiveOnMap
  <2>3. I \subseteq a.data \cap DOMAIN a.coord
    BY <1>3, <1>4 DEF Quiet, SameMaps
  <2> QED
    BY <2>1, <2>2, <2>3, KeptThenReset, KeptThenRound
<1>6. ASSUME Split PROVE Kept(sys, sys')
  <2>1. sys' = ApplyDataReadout(d, I)
    BY <1>6 DEF Split
  <2> HIDE DEF d, I, n
  <2>2. Kept(sys, d)
    BY <1>1, <1>4, GoodNow, KeptThenQuiet DEF LiveOnMap
  <2> QED
    BY <2>1, <2>2, KeptThenRead
<1>7. Kept(sys, sys')
  BY <1>5, <1>6
<1>8. ControlSound'
  BY <1>c, <1>1, <1>2, <1>7 DEF ControlSound, Kept
<1> QED
  BY <1>7, <1>8

LEMMA StepFinish ==
  ASSUME RegistryInv, RetireConsumed \/ NextStep \/ ReadOut
  PROVE  Kept(sys, sys') /\ ControlSound'
<1>c. ControlSound
  BY DEF RegistryInv
<1>1. Ok(sys) /\ UNCHANGED <<prog, routes, moving>> /\ phase' \notin Named
  BY DEF RetireConsumed, NextStep, ReadOut, Go, Named
<1>2. step \in 1 .. NSteps /\ step' \in 1 .. NSteps
  <2>1. step \in 1 .. NSteps
    BY <1>c DEF ControlSound
  <2>2. step' = step \/ step' = IF step = NSteps THEN step ELSE step + 1
    BY DEF RetireConsumed, NextStep, ReadOut
  <2> QED
    BY <2>1, <2>2, StepsAssumption
<1>3. CASE RetireConsumed
  <2>1. PICK p : sys' = RetireMeasuredPatch(ApplyDataReadout(sys, OwnedData(sys, p)), p)
    BY <1>3 DEF RetireConsumed
  <2> DEFINE r == ApplyDataReadout(sys, OwnedData(sys, p))
  <2>2. Kept(sys, r)
    BY <1>1, GoodNow, KeptThenRead
  <2>3. DOMAIN r = Fields /\ LiveOnMap(r)
    BY <2>2 DEF Kept, Good, MapsSound
  <2> HIDE DEF r
  <2>4. /\ Quiet(r, RetireMeasuredPatch(r, p))
        /\ RetireMeasuredPatch(r, p).live \subseteq r.live
    BY <2>3, CallsAside
  <2>5. Kept(sys, RetireMeasuredPatch(r, p))
    BY <2>2, <2>3, <2>4, KeptThenQuiet DEF LiveOnMap
  <2> QED
    BY <1>c, <1>1, <1>2, <2>1, <2>5, ControlKept DEF r
<1>4. CASE NextStep
  <2>1. Kept(sys, sys')
    BY <1>1, <1>4, GoodNow DEF NextStep
  <2> QED
    BY <1>c, <1>1, <1>2, <2>1, ControlKept
<1>5. CASE ReadOut
  <2>1. Kept(sys, sys')
    BY <1>1, <1>5, GoodNow, KeptThenRead DEF ReadOut
  <2> QED
    BY <1>c, <1>1, <1>2, <2>1, ControlKept
<1> QED
  BY <1>3, <1>4, <1>5

(***************************************************************************)
(* Every step keeps the invariant and hands out no index that was handed   *)
(* out before and is free.                                                 *)
(***************************************************************************)
LEMMA StepSound ==
  ASSUME RegistryInv, RemovalsClean, [Next]_vars
  PROVE  RegistryInv' /\ NoneReturns
<1>n. ASSUME Good(sys'), DOMAIN sys'.coord \cap 0 .. sys.next - 1 \subseteq DOMAIN sys.coord,
             ControlSound'
      PROVE  RegistryInv' /\ NoneReturns
  BY <1>n DEF Good, RegistryInv, NoneReturns
<1>1. CASE Invalidate \/ Rotated
  BY <1>1, <1>n, StepInvalidate
<1>k. ASSUME Kept(sys, sys'), ControlSound'
      PROVE  RegistryInv' /\ NoneReturns
  BY <1>k, <1>n DEF Kept
<1>2. CASE AllocateUpFront \/ RegisterUpFront \/ SetUp
  BY <1>2, <1>k, StepUpFront
<1>3. CASE AllocateFirstUsed \/ BringIn
  BY <1>3, <1>k, StepBringIn
<1>4. CASE UseRegistered \/ RegisterStep \/ BeginRepair
  BY <1>4, <1>k, StepRegister
<1>5. CASE \/ RotateGrow \/ RotateMoveCorners \/ RotateShrink
           \/ RotateGrowBack \/ RotateShrinkHome
  BY <1>5, <1>k, StepRotate
<1>6. CASE Merge \/ Split
  BY <1>6, <1>k, StepMerge
<1>7. CASE RetireConsumed \/ NextStep \/ ReadOut
  BY <1>7, <1>k, StepFinish
<1>8. CASE Done \/ UNCHANGED vars
  <2>1. UNCHANGED vars
    BY <1>8 DEF Done
  <2>2. UNCHANGED <<prog, sys, step, phase, routes, moving>>
    BY <2>1 DEF vars
  <2>3. Targets(step)' = Targets(step)
    BY <2>2 DEF Targets, Image
  <2> QED
    BY <2>2, <2>3 DEF RegistryInv, ControlSound, NoneReturns
<1> QED
  BY <1>1, <1>2, <1>3, <1>4, <1>5, <1>6, <1>7, <1>8 DEF Next

-----------------------------------------------------------------------------
(* The theorems.                                                            *)

(***************************************************************************)
(* Unless a coupler is removed that is not clean to remove, the invariant  *)
(* holds: the maps agree, and the calls go to registered names.            *)
(***************************************************************************)
THEOREM RegistryKept ==
  Spec /\ []RemovalsClean => []RegistryInv
<1>1. Init => RegistryInv
  BY InitSound
<1>2. RegistryInv /\ RemovalsClean /\ [Next]_vars => RegistryInv'
  BY StepSound
<1> QED
  BY <1>1, <1>2, PTL DEF Spec

(***************************************************************************)
(* Coordinates and indices stay inverse, the owner maps agree, and what is *)
(* held or in use is on the map, through every merge, rotation, repair and *)
(* retirement of every program.                                            *)
(***************************************************************************)
THEOREM MapsStayAgreed ==
  Spec /\ []RemovalsClean => []MapsAgree
<1>1. RegistryInv => MapsAgree
  BY DEF RegistryInv, MapsSound, MapsAgree
<1> QED
  BY <1>1, RegistryKept, PTL

(***************************************************************************)
(* A freed index is never used again, as remove_coupler's comment says:    *)
(* only a removal that is not clean makes it untrue.                       *)
(***************************************************************************)
THEOREM FreedIndexStaysFree ==
  Spec /\ []RemovalsClean => FreedStaysFree
<1>1. RegistryInv /\ RemovalsClean /\ [Next]_vars => [NoneReturns]_vars
  BY StepSound
<1>2. [NoneReturns]_vars
        => [\A i \in 0 .. sys.next - 1 :
              i \notin DOMAIN sys.coord => i \notin DOMAIN sys'.coord]_vars
  BY DEF NoneReturns
<1> QED
  BY <1>1, <1>2, RegistryKept, PTL DEF Spec, FreedStaysFree
=============================================================================
