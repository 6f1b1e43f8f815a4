----------------------- MODULE RegistryLedger_proofs -----------------------
(***************************************************************************)
(* The registry's ledgers of use are exact, and a removal frees only what  *)
(* is the coupler's own.  The argument goes by cells: the maps being       *)
(* inverse, a set of indices is the image of a set of coordinates.         *)
(***************************************************************************)
EXTENDS RegistryInvariants, RegistryCalls_proofs

Idx(s, A) == {s.index[c] : c \in A}

\* The data sites n owns, those of them it has not retired, and what is in use.
Sited(s, n) == {c \in DOMAIN s.index : s.at[c] = n /\ DataSite(c)}
Mine(s, n)  == {c \in Sited(s, n) : s.index[c] \notin s.retired}
InUse(s)    == {c \in DOMAIN s.index : s.index[c] \in s.live}

(***************************************************************************)
(* The ledgers in terms of cells.                                          *)
(***************************************************************************)
LEMMA CellsOf ==
  ASSUME NEW s, MapsSound(s), Tidy(s)
  PROVE  /\ \A c \in DOMAIN s.index : \A A \in SUBSET DOMAIN s.index :
              s.index[c] \in Idx(s, A) <=> c \in A
         /\ \A m : OwnedData(s, m) = Idx(s, Sited(s, m)) /\ LiveData(s, m) = Idx(s, Mine(s, m))
         /\ \A n \in DOMAIN s.patch :
              /\ s.patch[n].data \subseteq s.patch[n].cells
              /\ s.patch[n].cells \subseteq DOMAIN s.index
              /\ CorridorData(s, n) = Idx(s, s.patch[n].data)
              /\ DataIn(s, n) = Idx(s, s.patch[n].data)
         /\ s.live = Idx(s, InUse(s))
<1>1. /\ MapsInverse(s) /\ OwnersAgree(s) /\ HeldOnMap(s) /\ LiveOnMap(s)
      /\ SitesSorted(s) /\ Shaped(s)
  BY DEF MapsSound, Tidy
<1>2. \A c \in DOMAIN s.index : \A A \in SUBSET DOMAIN s.index :
        s.index[c] \in Idx(s, A) <=> c \in A
  BY <1>1 DEF MapsInverse, Idx
<1>3. ASSUME NEW m
      PROVE  OwnedData(s, m) = Idx(s, Sited(s, m)) /\ LiveData(s, m) = Idx(s, Mine(s, m))
  <2>1. \A i : i \in OwnedData(s, m) <=> i \in Idx(s, Sited(s, m))
    BY <1>1 DEF OwnedData, Owned, Idx, Sited, MapsInverse, OwnersAgree, SitesSorted
  <2>2. \A i : i \in LiveData(s, m) <=> i \in Idx(s, Mine(s, m))
    BY <2>1 DEF LiveData, Mine, Idx
  <2> QED
    BY <2>1, <2>2
<1>4. ASSUME NEW n \in DOMAIN s.patch
      PROVE  /\ s.patch[n].data \subseteq s.patch[n].cells
             /\ s.patch[n].cells \subseteq DOMAIN s.index
             /\ CorridorData(s, n) = Idx(s, s.patch[n].data)
             /\ DataIn(s, n) = Idx(s, s.patch[n].data)
  <2>1. /\ n \in DOMAIN s.held /\ DOMAIN s.held[n] = s.patch[n].cells
        /\ s.patch[n].data \subseteq s.patch[n].cells
    BY <1>1 DEF Shaped
  <2>2. \A c \in s.patch[n].cells : c \in DOMAIN s.index /\ s.index[c] = s.held[n][c]
    BY <1>1, <2>1 DEF HeldOnMap
  <2>3. CorridorData(s, n) = Idx(s, s.patch[n].data)
    BY <2>1, <2>2 DEF CorridorData, Idx
  <2> QED
    BY <2>1, <2>2, <2>3 DEF DataIn, Idx
<1>5. s.live = Idx(s, InUse(s))
  <2>1. \A i : i \in s.live <=> i \in Idx(s, InUse(s))
    BY <1>1 DEF LiveOnMap, Idx, InUse, MapsInverse
  <2> QED
    BY <2>1
<1> QED
  BY <1>2, <1>3, <1>4, <1>5

-----------------------------------------------------------------------------
(* Taking the cells of a geometry.                                          *)

Parted(g) == Geometry(g) /\ g.data = {c \in g.cells : DataSite(c)}

\* What placing g for n does to a registry.
Placed(s, t, n, g) ==
  /\ DOMAIN t.index = g.cells \cup DOMAIN s.index
  /\ \A c \in DOMAIN s.index : t.index[c] = s.index[c]
  /\ \A c \in g.cells : t.index[c] = IndexOf(s, g, Fresh(s, g))[c]
  /\ DOMAIN t.at = DOMAIN t.index
  /\ \A c \in DOMAIN t.at : t.at[c] = IF c \in g.cells THEN n ELSE s.at[c]
  /\ DOMAIN t.held = DOMAIN s.held \cup {n} /\ DOMAIN t.held[n] = g.cells
  /\ \A m \in DOMAIN s.held \ {n} : t.held[m] = s.held[m]
  /\ t.patch = Put(s.patch, n, g)
  /\ t.live = s.live /\ t.retired = s.retired \ Idx(t, g.cells)
  /\ t.paused = s.paused /\ t.tracked = s.tracked
  /\ MapsSound(t) /\ Tidy(t)

\* Recording the checks leaves the ledgers of use.
SameUse(s, t) ==
  /\ t.syn = s.syn /\ t.retired = s.retired /\ t.live = s.live
  /\ t.paused = s.paused /\ t.tracked = s.tracked

LEMMA OccupyUse ==
  ASSUME NEW s, DOMAIN s = Fields, NEW n, NEW g
  PROVE  LET t == Occupy(s, n, g)
             idx == IndexOf(s, g, Fresh(s, g))
         IN  /\ t.syn = s.syn \cup {idx[c] : c \in g.cells \ g.data}
             /\ t.retired = s.retired \ Image(idx)
             /\ t.paused = s.paused /\ t.tracked = s.tracked
  BY DEF Occupy, OccupyBy, OccupyAt, Fields, NewSystem

LEMMA EnterUse ==
  ASSUME NEW s, DOMAIN s = Fields, NEW n, NEW g
  PROVE  LET o == Occupy(s, n, g)
             t == Enter(s, n, g)
         IN  /\ SameMaps(o, t) /\ SameUse(o, t)
             /\ t.fault \in {s.fault, "coordinate not found"}
             /\ Ok(t) => t.patch = Put(s.patch, n, g)
<1> DEFINE o == Occupy(s, n, g)
           r == RegisterChecks(o, n, g)
           t == DeclareFrom(r, s.next)
<1>1. DOMAIN o = Fields /\ o.patch = s.patch /\ o.fault = s.fault
  BY OccupyMaps DEF Taken
<1> HIDE DEF o
<1>2. /\ SameMaps(o, r) /\ SameUse(o, r) /\ r.fault \in {o.fault, "coordinate not found"}
      /\ Ok(r) => r.patch = Put(o.patch, n, g)
  BY <1>1 DEF RegisterChecks, RecordAll, RecordAs, Fail, Ok, SameMaps, SameUse, Fields, NewSystem
<1>3. DOMAIN r = Fields
  BY <1>2 DEF SameMaps
<1> HIDE DEF r
<1>4. SameMaps(r, t) /\ SameUse(r, t) /\ t.fault = r.fault /\ t.patch = r.patch
  BY <1>3 DEF DeclareFrom, SameMaps, SameUse, Fields, NewSystem
<1>5. t = Enter(s, n, g)
  BY DEF Enter, o, r
<1> HIDE DEF t
<1>6. SameMaps(o, t) /\ SameUse(o, t)
  BY <1>2, <1>4 DEF SameMaps, SameUse
<1> QED
  BY <1>1, <1>2, <1>4, <1>5, <1>6 DEF Ok, o

LEMMA EnterPlaced ==
  ASSUME NEW s, MapsSound(s), NamesSound(s), Ok(s), Tidy(s), NEW n, n # Nobody,
         NEW g, Parted(g), Ok(Enter(s, n, g))
  PROVE  Placed(s, Enter(s, n, g), n, g)
<1> DEFINE o == Occupy(s, n, g)
           t == Enter(s, n, g)
           idx == IndexOf(s, g, Fresh(s, g))
<1>0. DOMAIN s = Fields /\ Geometry(g)
  BY DEF MapsSound, Parted
<1>1. Taken(s, n, g, idx, o)
  BY <1>0, OccupyMaps
<1>2. /\ DOMAIN idx = g.cells
      /\ \A c \in g.cells \cap DOMAIN s.index : idx[c] = s.index[c]
  BY <1>0, IndexOfSound
<1>3. /\ o.syn = s.syn \cup {idx[c] : c \in g.cells \ g.data}
      /\ o.retired = s.retired \ Image(idx)
      /\ o.paused = s.paused /\ o.tracked = s.tracked
  BY <1>0, OccupyUse
<1>4. /\ SameMaps(o, t) /\ SameUse(o, t) /\ t.patch = Put(s.patch, n, g)
  BY <1>0, EnterUse
<1>5. MapsSound(t) /\ t.live = s.live
  BY <1>0, EnterSound
<1>6. /\ MapsInverse(s) /\ OwnersAgree(s) /\ HeldOnMap(s) /\ SitesSorted(s)
      /\ OwnersNamed(s) /\ Shaped(s) /\ DOMAIN s.patch = DOMAIN s.held
  BY DEF MapsSound, Tidy, NamesSound
<1>7. MapsInverse(t) /\ OwnersAgree(t)
  BY <1>5 DEF MapsSound
<1> HIDE DEF o, t, idx
<1>8. /\ DOMAIN t.index = g.cells \cup DOMAIN s.index
      /\ \A c \in DOMAIN t.index : t.index[c] = IF c \in g.cells THEN idx[c] ELSE s.index[c]
      /\ DOMAIN t.held = DOMAIN s.held \cup {n} /\ t.held[n] = idx
      /\ \A m \in DOMAIN s.held \ {n} : t.held[m] = s.held[m]
      /\ DOMAIN t.at = g.cells \cup DOMAIN s.at
      /\ \A c \in DOMAIN t.at : t.at[c] = IF c \in g.cells THEN n ELSE s.at[c]
      /\ DOMAIN t.of = Image(idx) \cup DOMAIN s.of
      /\ \A i \in DOMAIN t.of : t.of[i] = IF i \in Image(idx) THEN n ELSE s.of[i]
      /\ t.data = s.data \cup {idx[c] : c \in g.data}
      /\ t.syn = s.syn \cup {idx[c] : c \in g.cells \ g.data}
      /\ t.retired = s.retired \ Image(idx)
      /\ t.paused = s.paused /\ t.tracked = s.tracked
  BY <1>1, <1>2, <1>3, <1>4 DEF Taken, SameMaps, SameUse
<1>9. \A c \in DOMAIN s.index : t.index[c] = s.index[c]
  BY <1>2, <1>8
<1>10. Image(idx) = Idx(t, g.cells)
  BY <1>2, <1>8 DEF Image, Idx
<1>11. SitesSorted(t)
  <2>1. \A i \in DOMAIN t.coord : \E c \in DOMAIN t.index : t.index[c] = i /\ t.coord[i] = c
    BY <1>7 DEF MapsInverse
  <2>2. \A c \in DOMAIN t.index : /\ t.index[c] \in DOMAIN t.coord /\ t.coord[t.index[c]] = c
    BY <1>7 DEF MapsInverse
  <2>3. \A c \in DOMAIN s.index : /\ t.index[c] \in s.data <=> DataSite(c)
                                  /\ t.index[c] \in s.syn <=> ~ DataSite(c)
    BY <1>6, <1>9 DEF SitesSorted, MapsInverse
  <2>4. \A i \in s.data \cup s.syn : \E c \in DOMAIN s.index : t.index[c] = i
    BY <1>6, <1>9 DEF SitesSorted, MapsInverse
  <2>5. \A c \in g.cells : t.index[c] = idx[c] /\ (c \in g.data <=> DataSite(c))
    BY <1>8 DEF Parted
  <2>6. g.data \subseteq g.cells
    BY DEF Parted
  <2>7. \A i : i \in t.data <=> i \in DOMAIN t.coord /\ DataSite(t.coord[i])
    <3> TAKE i
    <3>1. ASSUME i \in t.data PROVE i \in DOMAIN t.coord /\ DataSite(t.coord[i])
      <4>1. \E c \in DOMAIN t.index : t.index[c] = i /\ DataSite(c)
        BY <1>8, <2>3, <2>4, <2>5, <2>6, <3>1
      <4> QED
        BY <4>1, <2>2
    <3>2. ASSUME i \in DOMAIN t.coord, DataSite(t.coord[i]) PROVE i \in t.data
      <4>1. PICK c \in DOMAIN t.index : t.index[c] = i /\ DataSite(c)
        BY <2>1, <3>2
      <4> QED
        BY <4>1, <1>8, <2>3, <2>5
    <3> QED
      BY <3>1, <3>2
  <2>8. \A i : i \in t.syn <=> i \in DOMAIN t.coord /\ ~ DataSite(t.coord[i])
    <3> TAKE i
    <3>1. ASSUME i \in t.syn PROVE i \in DOMAIN t.coord /\ ~ DataSite(t.coord[i])
      <4>1. \E c \in DOMAIN t.index : t.index[c] = i /\ ~ DataSite(c)
        BY <1>8, <2>3, <2>4, <2>5, <2>6, <3>1
      <4> QED
        BY <4>1, <2>2
    <3>2. ASSUME i \in DOMAIN t.coord, ~ DataSite(t.coord[i]) PROVE i \in t.syn
      <4>1. PICK c \in DOMAIN t.index : t.index[c] = i /\ ~ DataSite(c)
        BY <2>1, <3>2
      <4> QED
        BY <4>1, <1>8, <2>3, <2>5
    <3> QED
      BY <3>1, <3>2
  <2> QED
    BY <2>7, <2>8 DEF SitesSorted
<1>12. OwnersNamed(t)
  BY <1>6, <1>8 DEF OwnersNamed
<1>13. Shaped(t)
  <2> SUFFICES ASSUME NEW m \in DOMAIN t.patch
               PROVE  /\ m \in DOMAIN t.held /\ DOMAIN t.held[m] = t.patch[m].cells
                      /\ t.patch[m].data = {c \in t.patch[m].cells : DataSite(c)}
    BY DEF Shaped
  <2>1. CASE m = n
    <3>1. t.patch[m] = g
      BY <1>4, <2>1 DEF Put, Over
    <3> QED
      BY <1>2, <1>8, <2>1, <3>1 DEF Parted
  <2>2. CASE m # n
    <3>1. m \in DOMAIN s.patch /\ t.patch[m] = s.patch[m]
      BY <1>4, <2>2 DEF Put, Over
    <3> QED
      BY <1>6, <1>8, <2>2, <3>1 DEF Shaped
  <2> QED
    BY <2>1, <2>2
<1> QED
  BY <1>2, <1>4, <1>5, <1>7, <1>8, <1>9, <1>10, <1>11, <1>12, <1>13
     DEF Placed, Tidy, OwnersAgree, t, idx

\* Who has what after g has been placed for n.
TakenOver(s, t, n, g) ==
  /\ Mine(t, n) = g.data \cup (Mine(s, n) \ g.cells)
  /\ \A m : m # n => Mine(t, m) = Mine(s, m) \ g.cells
  /\ InUse(t) = InUse(s)
  /\ t.patch[n] = g /\ DOMAIN t.patch = DOMAIN s.patch \cup {n}
  /\ \A m \in DOMAIN s.patch : m # n => t.patch[m] = s.patch[m]

LEMMA PlacedCells ==
  ASSUME NEW s, MapsSound(s), Tidy(s), NEW n, NEW g, Parted(g), NEW t, Placed(s, t, n, g)
  PROVE  TakenOver(s, t, n, g)
<1>1. /\ \A c \in DOMAIN t.index : \A A \in SUBSET DOMAIN t.index :
           t.index[c] \in Idx(t, A) <=> c \in A
      /\ MapsInverse(s) /\ OwnersAgree(s) /\ LiveOnMap(s)
  BY CellsOf DEF Placed, MapsSound
<1>2. /\ DOMAIN t.index = g.cells \cup DOMAIN s.index
      /\ \A c \in DOMAIN s.index : t.index[c] = s.index[c]
      /\ DOMAIN t.at = DOMAIN t.index
      /\ \A c \in DOMAIN t.at : t.at[c] = IF c \in g.cells THEN n ELSE s.at[c]
      /\ t.live = s.live /\ t.retired = s.retired \ Idx(t, g.cells)
      /\ t.patch = Put(s.patch, n, g)
  BY DEF Placed
<1>3. g.data = {c \in g.cells : DataSite(c)}
  BY DEF Parted
<1>4. \A c \in DOMAIN t.index : t.index[c] \in t.retired
                                  <=> t.index[c] \in s.retired /\ c \notin g.cells
  <2>1. \A c \in DOMAIN t.index : t.index[c] \in Idx(t, g.cells) <=> c \in g.cells
    BY <1>1, <1>2
  <2> QED
    BY <1>2, <2>1
<1>5. \A m, c : c \in Mine(t, m) <=>
        /\ c \in DOMAIN t.index /\ t.at[c] = m /\ DataSite(c) /\ t.index[c] \notin t.retired
  BY DEF Mine, Sited
<1>6. \A m, c : c \in Mine(s, m) <=>
        /\ c \in DOMAIN s.index /\ s.at[c] = m /\ DataSite(c) /\ s.index[c] \notin s.retired
  BY DEF Mine, Sited
<1>7. Mine(t, n) = g.data \cup (Mine(s, n) \ g.cells)
  BY <1>2, <1>3, <1>4, <1>5, <1>6
<1>8. \A m : m # n => Mine(t, m) = Mine(s, m) \ g.cells
  BY <1>2, <1>4, <1>5, <1>6
<1>9. InUse(t) = InUse(s)
  <2>1. \A c \in DOMAIN t.index : t.index[c] \in s.live => c \in DOMAIN s.index
    <3> SUFFICES ASSUME NEW c \in DOMAIN t.index, t.index[c] \in s.live
                 PROVE  c \in DOMAIN s.index
      OBVIOUS
    <3>1. PICK d \in DOMAIN s.index : s.index[d] = t.index[c]
      BY <1>1 DEF LiveOnMap, MapsInverse
    <3>2. t.index[d] = t.index[c] /\ {d} \in SUBSET DOMAIN t.index
      BY <1>2, <3>1
    <3>3. t.index[c] \in Idx(t, {d})
      BY <3>2 DEF Idx
    <3> QED
      BY <1>1, <3>2, <3>3
  <2> QED
    BY <1>2, <2>1 DEF InUse
<1> QED
  BY <1>2, <1>7, <1>8, <1>9 DEF Put, Over, TakenOver

LEMMA PlacedThen ==
  ASSUME NEW s, NEW n, NEW g, NEW e, Placed(s, e, n, g),
         NEW t, SameMaps(e, t), SameUse(e, t), t.patch = e.patch
  PROVE  Placed(s, t, n, g)
<1>1. MapsSound(e) /\ Tidy(e)
  BY DEF Placed
<1>2. MapsSound(t)
  BY <1>1, SameMapsSound DEF LiveOnMap, MapsSound, SameMaps, SameUse
<1>3. Tidy(t)
  BY <1>1 DEF Tidy, SitesSorted, OwnersNamed, Shaped, SameMaps, SameUse
<1>4. Idx(t, g.cells) = Idx(e, g.cells)
  BY DEF Idx, SameMaps
<1> QED
  BY <1>2, <1>3, <1>4 DEF Placed, SameMaps, SameUse

\* A registry that takes calls.
Ready(s) == MapsSound(s) /\ NamesSound(s) /\ Ok(s) /\ Tidy(s)

\* add_patch, where it is not refused.
LEMMA AddPatchPlaced ==
  ASSUME NEW s, Ready(s), NEW n, n # Nobody, NEW g, Parted(g), NEW b,
         Ok(AddPatch(s, n, g, b))
  PROVE  /\ n \notin DOMAIN s.patch /\ ~ Blocked(s, n, g)
         /\ Placed(s, AddPatch(s, n, g, b), n, g)
<1> DEFINE e == Enter(s, n, g)
           t == AddPatch(s, n, g, b)
<1>1. n \notin DOMAIN s.patch /\ ~ Blocked(s, n, g) /\ t = Listed(e, n, b)
  BY DEF AddPatch, Fail, Ok, Ready, MapsSound, Fields, NewSystem
<1>2. Ok(e)
  BY <1>1 DEF Listed
<1>3. Placed(s, e, n, g)
  BY <1>2, EnterPlaced DEF Ready
<1>4. DOMAIN e = Fields
  BY <1>3 DEF Placed, MapsSound
<1> HIDE DEF e
<1>5. SameMaps(e, t) /\ SameUse(e, t) /\ t.patch = e.patch
  BY <1>1, <1>2, <1>4 DEF Listed, SameMaps, SameUse, Fields, NewSystem
<1> QED
  BY <1>1, <1>3, <1>5, PlacedThen

\* The engine of the deformations, where it is not refused.
LEMMA ApplyGeometryPlaced ==
  ASSUME NEW s, Ready(s), NEW n, n # Nobody, NEW g, Parted(g), Ok(ApplyGeometry(s, n, g))
  PROVE  /\ \A c \in g.cells \cap DOMAIN s.index : s.at[c] = n \/ s.index[c] \notin s.live
         /\ Placed(s, ApplyGeometry(s, n, g), n, g)
<1> DEFINE e == Enter(s, n, g)
           t == ApplyGeometry(s, n, g)
           free == \A c \in g.cells \cap DOMAIN s.index : s.at[c] = n \/ s.index[c] \notin s.live
<1>1. free /\ t = Replaced(s, e, n)
  BY DEF ApplyGeometry, Fail, Ok, Ready, MapsSound, Fields, NewSystem
<1>2. Ok(e)
  BY <1>1 DEF Replaced
<1>3. Placed(s, e, n, g)
  BY <1>2, EnterPlaced DEF Ready
<1>4. DOMAIN e = Fields
  BY <1>3 DEF Placed, MapsSound
<1> HIDE DEF e
<1>5. SameMaps(e, t) /\ SameUse(e, t) /\ t.patch = e.patch
  BY <1>1, <1>2, <1>4 DEF Replaced, SameMaps, SameUse, Fields, NewSystem
<1> QED
  BY <1>1, <1>3, <1>5, PlacedThen

-----------------------------------------------------------------------------
(* The deformations of a rotation.                                          *)

\* The coordinates of what n has in use.
LEMMA CoordsOf ==
  ASSUME NEW s, MapsSound(s), NEW A \in SUBSET DOMAIN s.index
  PROVE  Coords(s, Idx(s, A)) = A
<1>1. \A c \in A : s.coord[s.index[c]] = c
  BY DEF MapsSound, MapsInverse
<1> QED
  BY <1>1 DEF Coords, At, Idx

\* A patch that had its data is given the data of g, and nobody else loses
\* what is in use.
Relaid(s, t, n, g) ==
  /\ MapsSound(t) /\ Tidy(t) /\ t.tracked = s.tracked /\ t.paused = s.paused
  /\ Mine(t, n) = g.data /\ InUse(t) = (InUse(s) \ Mine(s, n)) \cup g.data
  /\ \A m : m # n /\ Mine(s, m) \subseteq InUse(s) => Mine(t, m) = Mine(s, m)
  /\ DOMAIN t.patch = DOMAIN s.patch /\ t.patch[n] = g
  /\ \A m \in DOMAIN s.patch : m # n => t.patch[m] = s.patch[m]
  /\ DOMAIN t.held = DOMAIN s.held /\ DOMAIN t.held[n] = g.cells
  /\ \A m \in DOMAIN s.held : m # n => t.held[m] = s.held[m]
  /\ DOMAIN t.at = g.cells \cup DOMAIN s.at
  /\ \A c \in DOMAIN t.at : t.at[c] = IF c \in g.cells THEN n ELSE s.at[c]

\* A call that only brings qubits into use or out of it.
Steady(s, t) ==
  /\ SameMaps(s, t) /\ t.syn = s.syn /\ t.patch = s.patch
  /\ t.paused = s.paused /\ t.tracked = s.tracked

LEMMA SteadyKeeps ==
  ASSUME NEW s, MapsSound(s), Tidy(s), NEW t, Steady(s, t),
         t.live \subseteq s.data \cap DOMAIN s.coord
  PROVE  /\ MapsSound(t) /\ Tidy(t) /\ DOMAIN t.index = DOMAIN s.index
         /\ \A m : Sited(t, m) = Sited(s, m)
         /\ \A A : Idx(t, A) = Idx(s, A)
<1>1. MapsSound(t)
  BY SameMapsSound DEF LiveOnMap, MapsSound, SameMaps, Steady
<1>2. Tidy(t)
  BY DEF Tidy, SitesSorted, OwnersNamed, Shaped, SameMaps, Steady
<1> QED
  BY <1>1, <1>2 DEF Idx, Sited, SameMaps, Steady

LEMMA NewDataCells ==
  ASSUME NEW s, Ready(s), NEW n, NEW g, Parted(g), NEW t, Placed(s, t, n, g)
  PROVE  NewData(s, n, g) = Idx(t, g.data \ Mine(s, n))
<1> DEFINE idx == IndexOf(s, g, Fresh(s, g))
<1>1. /\ MapsInverse(s) /\ OwnersAgree(s) /\ MapsInverse(t)
  BY DEF Ready, MapsSound, Placed
<1>2. /\ DOMAIN t.index = g.cells \cup DOMAIN s.index
      /\ \A c \in DOMAIN s.index : t.index[c] = s.index[c]
      /\ \A c \in g.cells : t.index[c] = idx[c]
  BY DEF Placed
<1>3. g.data \subseteq g.cells /\ \A c \in g.data : DataSite(c)
  BY DEF Parted
<1>4. \A i : i \in NewData(s, n, g) <=> \E c \in g.data : i = idx[c]
                                         /\ (i \notin Owned(s, n) \/ i \in s.retired)
  BY DEF NewData, At
<1> HIDE DEF idx
<1>5. \A c \in g.cells : idx[c] \in Owned(s, n) <=> c \in DOMAIN s.index /\ s.at[c] = n
  BY <1>1, <1>2 DEF Owned, OwnersAgree, MapsInverse
<1>6. \A c \in g.data : (idx[c] \notin Owned(s, n) \/ idx[c] \in s.retired)
                            <=> c \notin Mine(s, n)
  BY <1>2, <1>3, <1>5 DEF Mine, Sited
<1>7. \A i : i \in Idx(t, g.data \ Mine(s, n))
                <=> \E c \in g.data : i = idx[c] /\ c \notin Mine(s, n)
  BY <1>2, <1>3 DEF Idx
<1>8. \A i : i \in NewData(s, n, g) <=> i \in Idx(t, g.data \ Mine(s, n))
  BY <1>4, <1>6, <1>7, Zenon
<1> QED
  BY <1>8

\* Placing g over what the patch has, the rest of its data being g's.
LEMMA PlacedRelaid ==
  ASSUME NEW s, Ready(s), NEW n \in DOMAIN s.patch, NEW g, Parted(g),
         NEW t, Placed(s, t, n, g),
         \A c \in g.cells \cap DOMAIN s.index : s.at[c] = n \/ s.index[c] \notin s.live,
         NEW u, Steady(t, u), MapsSound(u), Tidy(u),
         NEW out, out \subseteq Mine(s, n), Mine(s, n) \ g.cells \subseteq out,
         out \cap g.data = {}, \A c \in DOMAIN t.index :
                                   u.index[c] \in u.retired <=> t.index[c] \in t.retired \/ c \in out,
         InUse(u) = (InUse(s) \ Mine(s, n)) \cup g.data
  PROVE  Relaid(s, u, n, g)
<1>1. /\ Mine(t, n) = g.data \cup (Mine(s, n) \ g.cells)
      /\ \A m : m # n => Mine(t, m) = Mine(s, m) \ g.cells
      /\ t.patch[n] = g /\ DOMAIN t.patch = DOMAIN s.patch \cup {n}
      /\ \A m \in DOMAIN s.patch : m # n => t.patch[m] = s.patch[m]
  BY PlacedCells DEF Ready, TakenOver
<1>2. \A m : Mine(u, m) = Mine(t, m) \ out
  BY DEF Mine, Sited, Steady, SameMaps
<1>3. \A m : m # n => Mine(s, m) \cap Mine(s, n) = {}
  BY DEF Mine, Sited
<1>4. \A m : m # n /\ Mine(s, m) \subseteq InUse(s) => Mine(s, m) \cap g.cells = {}
  BY DEF Mine, Sited, InUse
<1>5. Mine(u, n) = g.data
  <2>1. Mine(u, n) = (g.data \cup (Mine(s, n) \ g.cells)) \ out
    BY <1>1, <1>2
  <2> QED
    BY <2>1
<1>6. ASSUME NEW m, m # n, Mine(s, m) \subseteq InUse(s)
      PROVE  Mine(u, m) = Mine(s, m)
  <2>1. Mine(u, m) = (Mine(s, m) \ g.cells) \ out
    BY <1>1, <1>2, <1>6
  <2>2. Mine(s, m) \cap g.cells = {} /\ Mine(s, m) \cap Mine(s, n) = {}
    BY <1>3, <1>4, <1>6
  <2> QED
    BY <2>1, <2>2
<1>7. DOMAIN s.patch = DOMAIN s.held
  BY DEF Ready, NamesSound
<1>8. OwnersAgree(s)
  BY DEF Ready, MapsSound
<1>9. /\ u.patch = t.patch /\ u.held = t.held /\ u.at = t.at
      /\ u.paused = s.paused /\ u.tracked = s.tracked
      /\ DOMAIN t.held = DOMAIN s.held \cup {n} /\ DOMAIN t.held[n] = g.cells
      /\ \A m \in DOMAIN s.held : m # n => t.held[m] = s.held[m]
      /\ DOMAIN t.at = g.cells \cup DOMAIN s.at
      /\ \A c \in DOMAIN t.at : t.at[c] = IF c \in g.cells THEN n ELSE s.at[c]
  BY <1>8 DEF Placed, Steady, SameMaps, OwnersAgree
<1>10. /\ DOMAIN u.patch = DOMAIN s.patch /\ DOMAIN u.held = DOMAIN s.held
       /\ u.patch[n] = g /\ \A m \in DOMAIN s.patch : m # n => u.patch[m] = s.patch[m]
  <2>1. DOMAIN s.patch \cup {n} = DOMAIN s.patch /\ DOMAIN s.held \cup {n} = DOMAIN s.held
    BY <1>7
  <2> QED
    BY <1>1, <1>9, <2>1
<1> QED
  BY <1>5, <1>6, <1>9, <1>10 DEF Relaid

\* Indices of data sites are data on the map; bringing them into use or out.
LEMMA IdxData ==
  ASSUME NEW s, MapsSound(s), Tidy(s), NEW A \in SUBSET DOMAIN s.index,
         \A c \in A : DataSite(c)
  PROVE  Idx(s, A) \subseteq s.data \cap DOMAIN s.coord
  BY DEF Idx, MapsSound, MapsInverse, Tidy, SitesSorted

LEMMA ResetCells ==
  ASSUME NEW s, MapsSound(s), Tidy(s), NEW A \in SUBSET DOMAIN s.index,
         \A c \in A : DataSite(c)
  PROVE  LET t == Initialize(s, Idx(s, A))
         IN  /\ Steady(s, t) /\ MapsSound(t) /\ Tidy(t) /\ t.fault = s.fault
             /\ t.retired = s.retired /\ InUse(t) = InUse(s) \cup A
             /\ t.order = s.order
<1> DEFINE I == Idx(s, A)
           t == Initialize(s, I)
<1>1. DOMAIN s = Fields /\ LiveOnMap(s)
  BY DEF MapsSound
<1>2. I \subseteq s.data \cap DOMAIN s.coord
  BY IdxData
<1>3. \A c \in DOMAIN s.index : s.index[c] \in I <=> c \in A
  BY CellsOf
<1> HIDE DEF I
<1>4. /\ Steady(s, t) /\ t.fault = s.fault /\ t.retired = s.retired /\ t.live = s.live \cup I
      /\ t.order = s.order
  BY <1>1 DEF Initialize, Steady, SameMaps, Fields, NewSystem
<1> HIDE DEF t
<1>5. t.live \subseteq s.data \cap DOMAIN s.coord
  BY <1>1, <1>2, <1>4 DEF LiveOnMap
<1>6. InUse(t) = InUse(s) \cup A
  BY <1>3, <1>4 DEF InUse, Steady, SameMaps
<1> QED
  BY <1>4, <1>5, <1>6, SteadyKeeps DEF t, I

LEMMA ReadCells ==
  ASSUME NEW s, MapsSound(s), Tidy(s), NEW A \in SUBSET DOMAIN s.index
  PROVE  LET t == ApplyDataReadout(s, Idx(s, A))
         IN  /\ Steady(s, t) /\ MapsSound(t) /\ Tidy(t) /\ t.fault = s.fault
             /\ t.retired = s.retired /\ InUse(t) = InUse(s) \ A
             /\ t.order = s.order
<1> DEFINE I == Idx(s, A)
           t == ApplyDataReadout(s, I)
<1>1. DOMAIN s = Fields /\ LiveOnMap(s)
  BY DEF MapsSound
<1>3. \A c \in DOMAIN s.index : s.index[c] \in I <=> c \in A
  BY CellsOf
<1> HIDE DEF I
<1>4. /\ Steady(s, t) /\ t.fault = s.fault /\ t.retired = s.retired /\ t.live = s.live \ I
      /\ t.order = s.order
  BY <1>1 DEF ApplyDataReadout, Steady, SameMaps, Fields, NewSystem
<1> HIDE DEF t
<1>5. t.live \subseteq s.data \cap DOMAIN s.coord
  BY <1>1, <1>4 DEF LiveOnMap
<1>6. InUse(t) = InUse(s) \ A
  BY <1>3, <1>4 DEF InUse, Steady, SameMaps
<1> QED
  BY <1>4, <1>5, <1>6, SteadyKeeps DEF t, I

\* The cells of what n has in use.
LEMMA MineCells ==
  ASSUME NEW s, Ready(s), NEW n
  PROVE  /\ Mine(s, n) \subseteq DOMAIN s.index /\ \A c \in Mine(s, n) : DataSite(c)
         /\ LiveData(s, n) = Idx(s, Mine(s, n)) /\ Coords(s, LiveData(s, n)) = Mine(s, n)
         /\ n \in DOMAIN s.patch => n # Nobody
<1>1. Mine(s, n) \subseteq DOMAIN s.index /\ \A c \in Mine(s, n) : DataSite(c)
  BY DEF Mine, Sited
<1>2. LiveData(s, n) = Idx(s, Mine(s, n))
  BY CellsOf DEF Ready
<1> QED
  BY <1>1, <1>2, CoordsOf DEF Ready, NamesSound

\* A growth, with the reset of the data qubits it adds.
LEMMA GrowRelaid ==
  ASSUME NEW s, Ready(s), NEW n \in DOMAIN s.patch, NEW g, Parted(g),
         Mine(s, n) \subseteq InUse(s), Ok(GrowPatch(s, n, g))
  PROVE  LET u == Initialize(GrowPatch(s, n, g), NewData(s, n, g))
         IN  Relaid(s, u, n, g)
<1> DEFINE t == ApplyGeometry(s, n, g)
           A == g.data \ Mine(s, n)
           u == Initialize(t, Idx(t, A))
<1>1. /\ Mine(s, n) \subseteq DOMAIN s.index /\ \A c \in Mine(s, n) : DataSite(c)
      /\ Coords(s, LiveData(s, n)) = Mine(s, n) /\ n # Nobody
  BY MineCells
<1>2. GrowPatch(s, n, g) = t /\ Mine(s, n) \subseteq g.cells
  BY <1>1 DEF GrowPatch, Fail, Ok, Ready, MapsSound, Fields, NewSystem
<1>3. /\ \A c \in g.cells \cap DOMAIN s.index : s.at[c] = n \/ s.index[c] \notin s.live
      /\ Placed(s, t, n, g)
  BY <1>1, <1>2, ApplyGeometryPlaced
<1> HIDE DEF t
<1>4. MapsSound(t) /\ Tidy(t) /\ g.cells \subseteq DOMAIN t.index
  BY <1>3 DEF Placed
<1>5. NewData(s, n, g) = Idx(t, A)
  BY <1>3, NewDataCells
<1>6. A \subseteq DOMAIN t.index /\ \A c \in A : DataSite(c)
  BY <1>4 DEF Parted
<1>7. /\ Steady(t, u) /\ MapsSound(u) /\ Tidy(u) /\ u.retired = t.retired
      /\ InUse(u) = InUse(t) \cup A
  BY <1>4, <1>6, ResetCells
<1>8. InUse(t) = InUse(s)
  BY <1>3, PlacedCells DEF Ready, TakenOver
<1>9. Mine(s, n) \subseteq g.data
  BY <1>1, <1>2 DEF Parted
<1>10. InUse(u) = (InUse(s) \ Mine(s, n)) \cup g.data
  BY <1>7, <1>8, <1>9
<1> HIDE DEF u, A
<1>11. \A c \in DOMAIN t.index : u.index[c] \in u.retired <=> t.index[c] \in t.retired \/ c \in {}
  BY <1>7 DEF Steady, SameMaps
<1>12. Mine(s, n) \ g.cells = {}
  BY <1>2
<1>13. Relaid(s, u, n, g)
  BY <1>3, <1>7, <1>10, <1>11, <1>12, PlacedRelaid
<1> QED
  BY <1>2, <1>5, <1>13 DEF u

\* A move of the corners.
LEMMA MoveRelaid ==
  ASSUME NEW s, Ready(s), NEW n \in DOMAIN s.patch, NEW g, Parted(g),
         Mine(s, n) \subseteq InUse(s), Ok(MoveCorners(s, n, g))
  PROVE  Relaid(s, MoveCorners(s, n, g), n, g)
<1> DEFINE t == ApplyGeometry(s, n, g)
<1>1. Coords(s, LiveData(s, n)) = Mine(s, n) /\ n # Nobody
  BY MineCells
<1>2. MoveCorners(s, n, g) = t /\ Mine(s, n) = g.data
  BY <1>1 DEF MoveCorners, GrowPatch, Fail, Ok, Ready, MapsSound, Fields, NewSystem
<1>3. /\ \A c \in g.cells \cap DOMAIN s.index : s.at[c] = n \/ s.index[c] \notin s.live
      /\ Placed(s, t, n, g)
  BY <1>1, <1>2, ApplyGeometryPlaced
<1> HIDE DEF t
<1>4. MapsSound(t) /\ Tidy(t)
  BY <1>3 DEF Placed
<1>5. Steady(t, t)
  BY <1>4 DEF Steady, SameMaps, MapsSound
<1>6. InUse(t) = (InUse(s) \ Mine(s, n)) \cup g.data
  BY <1>2, <1>3, PlacedCells DEF Ready, TakenOver
<1>7. Mine(s, n) \ g.cells = {}
  BY <1>2 DEF Parted
<1>8. \A c \in DOMAIN t.index : t.index[c] \in t.retired <=> t.index[c] \in t.retired \/ c \in {}
  OBVIOUS
<1> QED
  BY <1>2, <1>3, <1>4, <1>5, <1>6, <1>7, <1>8, PlacedRelaid

\* A shrinking, after the readout of data qubits that g leaves out.
LEMMA ShrinkPatchRelaid ==
  ASSUME NEW s, Ready(s), NEW n \in DOMAIN s.patch, NEW g, Parted(g),
         g.data \cap Mine(s, n) \subseteq InUse(s), Ok(ShrinkPatch(s, n, g))
  PROVE  Relaid(s, ShrinkPatch(s, n, g), n, g) /\ g.data \subseteq Mine(s, n)
<1> DEFINE a == ApplyGeometry(s, n, g)
           t == ShrinkPatch(s, n, g)
           out == Mine(s, n) \ g.data
           rem == Removed(s, n, g)
<1>1. /\ Mine(s, n) \subseteq DOMAIN s.index /\ \A c \in Mine(s, n) : DataSite(c)
      /\ LiveData(s, n) = Idx(s, Mine(s, n))
      /\ Coords(s, LiveData(s, n)) = Mine(s, n) /\ n # Nobody
  BY MineCells
<1>2. /\ t = ShrinkIfCovered(s, a, n, rem, LiveData(s, n) \ rem)
      /\ g.data \subseteq Mine(s, n)
  BY <1>1 DEF ShrinkPatch, Fail, Ok, Ready, MapsSound, Fields, NewSystem
<1>3. rem = Idx(s, out)
  <2>1. \A c \in DOMAIN s.index : s.coord[s.index[c]] = c
    BY DEF Ready, MapsSound, MapsInverse
  <2>2. \A i : i \in rem <=> i \in Idx(s, out)
    BY <1>1, <2>1 DEF Removed, Idx
  <2> QED
    BY <2>2
<1>t. Ok(t)
  OBVIOUS
<1> HIDE DEF rem, a, t
<1>4. Ok(a)
  BY <1>2, <1>t DEF ShrinkIfCovered
<1>5. /\ \A c \in g.cells \cap DOMAIN s.index : s.at[c] = n \/ s.index[c] \notin s.live
      /\ Placed(s, a, n, g)
  BY <1>1, <1>4, ApplyGeometryPlaced DEF a
<1>6. /\ MapsSound(a) /\ Tidy(a) /\ DOMAIN a = Fields
      /\ DOMAIN s.index \subseteq DOMAIN a.index
      /\ \A c \in DOMAIN s.index : a.index[c] = s.index[c]
  BY <1>5 DEF Placed, MapsSound
<1>7. Idx(a, out) = rem
  BY <1>1, <1>3, <1>6 DEF Idx
<1>8. a.live \subseteq a.data \cap DOMAIN a.coord /\ a.data \cap a.syn = {}
  BY <1>6 DEF MapsSound, LiveOnMap, Tidy, SitesSorted
<1>9. t = [a EXCEPT !.retired = @ \cup rem,
                    !.live = (@ \ rem) \ ((a.syn \cap Owned(a, n)) \ Measuring(a))]
  BY <1>2, <1>4, <1>6, <1>t DEF ShrinkIfCovered, Fail, Ok, Fields, NewSystem
<1>10. /\ Steady(a, t) /\ t.retired = a.retired \cup rem /\ t.live = a.live \ rem
  <2>1. /\ Steady(a, t) /\ t.retired = a.retired \cup rem
        /\ t.live = (a.live \ rem) \ ((a.syn \cap Owned(a, n)) \ Measuring(a))
    BY <1>6, <1>9 DEF Steady, SameMaps, Fields, NewSystem
  <2> QED
    BY <1>8, <2>1
<1>11. MapsSound(t) /\ Tidy(t)
  BY <1>6, <1>8, <1>10, SteadyKeeps
<1>12. out \subseteq DOMAIN a.index
  BY <1>1, <1>6
<1>13. \A c \in DOMAIN a.index : a.index[c] \in rem <=> c \in out
  BY <1>6, <1>7, <1>12, CellsOf
<1> HIDE DEF out
<1>14. \A c \in DOMAIN a.index : t.index[c] \in t.retired <=> a.index[c] \in a.retired \/ c \in out
  BY <1>10, <1>13 DEF Steady, SameMaps
<1>15. InUse(t) = InUse(a) \ out
  BY <1>10, <1>13 DEF InUse, Steady, SameMaps
<1>16. InUse(a) = InUse(s)
  BY <1>5, PlacedCells DEF Ready, TakenOver
<1>17. InUse(t) = (InUse(s) \ Mine(s, n)) \cup g.data
  BY <1>2, <1>15, <1>16 DEF out
<1>18. out \subseteq Mine(s, n) /\ Mine(s, n) \ g.cells \subseteq out /\ out \cap g.data = {}
  BY DEF out, Parted
<1>19. Relaid(s, t, n, g)
  BY <1>5, <1>10, <1>11, <1>14, <1>17, <1>18, PlacedRelaid
<1> QED
  BY <1>2, <1>19 DEF t

LEMMA ShrinkRelaid ==
  ASSUME NEW s, Ready(s), NEW n \in DOMAIN s.patch, NEW g, Parted(g),
         Mine(s, n) \subseteq InUse(s),
         NEW O \in SUBSET Mine(s, n), O \cap g.data = {},
         Ok(ShrinkPatch(ApplyDataReadout(s, Idx(s, O)), n, g))
  PROVE  Relaid(s, ShrinkPatch(ApplyDataReadout(s, Idx(s, O)), n, g), n, g)
<1> DEFINE r == ApplyDataReadout(s, Idx(s, O))
           t == ShrinkPatch(r, n, g)
<1>1. O \in SUBSET DOMAIN s.index
  BY DEF Mine, Sited
<1>2. /\ Steady(s, r) /\ MapsSound(r) /\ Tidy(r) /\ r.fault = s.fault
      /\ r.retired = s.retired /\ InUse(r) = InUse(s) \ O /\ r.order = s.order
  BY <1>1, ReadCells DEF Ready
<1> HIDE DEF r
<1>3. Ready(r) /\ n \in DOMAIN r.patch
  BY <1>2, SameNamesSound DEF Ready, Ok, Steady
<1>4. \A m : Mine(r, m) = Mine(s, m)
  BY <1>2 DEF Mine, Sited, Steady, SameMaps
<1>5. g.data \cap Mine(r, n) \subseteq InUse(r)
  BY <1>2, <1>4
<1>6. Relaid(r, t, n, g) /\ g.data \subseteq Mine(r, n)
  BY <1>3, <1>5, ShrinkPatchRelaid DEF r
<1> HIDE DEF t
<1>7. InUse(t) = (InUse(s) \ Mine(s, n)) \cup g.data
  <2>1. InUse(t) = (InUse(r) \ Mine(r, n)) \cup g.data
    BY <1>6 DEF Relaid
  <2>2. InUse(t) = ((InUse(s) \ O) \ Mine(s, n)) \cup g.data
    BY <1>2, <1>4, <2>1
  <2> QED
    BY <2>2
<1>8. ASSUME NEW m, m # n, Mine(s, m) \subseteq InUse(s)
      PROVE  Mine(t, m) = Mine(s, m)
  <2>1. Mine(s, m) \cap Mine(s, n) = {}
    BY <1>8 DEF Mine, Sited
  <2>2. Mine(r, m) \subseteq InUse(r)
    BY <1>2, <1>4, <1>8, <2>1
  <2>3. Mine(t, m) = Mine(r, m)
    BY <1>6, <1>8, <2>2 DEF Relaid
  <2> QED
    BY <1>4, <2>3
<1> QED
  BY <1>2, <1>6, <1>7, <1>8 DEF Relaid, Steady, SameMaps, t, r

-----------------------------------------------------------------------------
(* The removal of a coupler that is clean to remove.                        *)

LEMMA RemovalAside ==
  ASSUME NEW s, DOMAIN s = Fields, NEW n, Ok(s), NEW t, t = RemoveCoupler(s, n), Ok(t)
  PROVE  /\ n \in DOMAIN s.patch
         /\ t.retired = s.retired /\ t.paused = s.paused /\ t.tracked = s.tracked
<1>1. n \in DOMAIN s.patch /\ n \notin DOMAIN s.paused
  BY DEF RemoveCoupler, Fail, Ok, Fields, NewSystem
<1> QED
  BY <1>1 DEF RemoveCoupler, FreeExclusive, Freed, Fields, NewSystem

LEMMA RemovedCells ==
  ASSUME NEW s, Ready(s), NEW n, OwnsHeld(s, n), n \in DOMAIN s.held => CleanToRemove(s, n),
         NEW t, t = RemoveCoupler(s, n), Ok(t)
  PROVE  /\ n \in DOMAIN s.patch /\ Removal(s, t, n) /\ MapsSound(t) /\ Tidy(t)
         /\ t.retired = s.retired /\ t.paused = s.paused /\ t.tracked = s.tracked
         /\ InUse(t) = InUse(s)
         /\ \A m \in DOMAIN s.patch :
              m # n /\ Mine(s, m) = s.patch[m].data => Mine(t, m) = Mine(s, m)
<1>1. MapsSound(t) /\ Removal(s, t, n)
  BY RemoveCouplerSound DEF Ready
<1>2. /\ n \in DOMAIN s.patch
      /\ t.retired = s.retired /\ t.paused = s.paused /\ t.tracked = s.tracked
  BY RemovalAside DEF Ready, MapsSound
<1> DEFINE X == Exclusive(s, n)
           own == {s.index[c] : c \in X}
<1>3. /\ DOMAIN t.index = DOMAIN s.index \ X
      /\ \A c \in DOMAIN t.index : t.index[c] = s.index[c]
      /\ DOMAIN t.at = DOMAIN s.at \ X
      /\ \A c \in DOMAIN t.at :
           IF s.at[c] = n THEN t.at[c] \in DOMAIN t.held /\ c \in DOMAIN t.held[t.at[c]]
                          ELSE t.at[c] = s.at[c]
      /\ DOMAIN t.held = DOMAIN s.held \ {n} /\ \A m \in DOMAIN t.held : t.held[m] = s.held[m]
      /\ DOMAIN t.patch = DOMAIN t.held /\ \A m \in DOMAIN t.held : t.patch[m] = s.patch[m]
      /\ t.data = s.data \ own /\ t.syn = s.syn \ own /\ t.live = s.live
  BY <1>1 DEF Removal
<1>4. /\ MapsInverse(s) /\ OwnersAgree(s) /\ HeldOnMap(s) /\ SitesSorted(s)
      /\ OwnersNamed(s) /\ Shaped(s) /\ DOMAIN s.patch = DOMAIN s.held
      /\ CleanToRemove(s, n)
  BY <1>2 DEF Ready, MapsSound, Tidy, NamesSound
<1>5. MapsInverse(t) /\ OwnersAgree(t)
  BY <1>1 DEF MapsSound
<1>6. \A c \in X : c \in DOMAIN s.at /\ s.at[c] = n /\ c \in DOMAIN s.index /\ s.index[c] \notin s.live
  BY <1>2, <1>4 DEF CleanToRemove, Exclusive, HeldOnMap
<1>7. \A c \in DOMAIN s.index : s.index[c] \in own <=> c \in X
  BY <1>4, <1>6 DEF MapsInverse
<1> HIDE DEF X, own
<1>8. SitesSorted(t)
  <2>1. \A i \in DOMAIN t.coord : /\ t.coord[i] \in DOMAIN t.index /\ t.index[t.coord[i]] = i
    BY <1>5 DEF MapsInverse
  <2>2. \A c \in DOMAIN t.index : /\ s.index[c] \in DOMAIN t.coord /\ t.coord[s.index[c]] = c
                                  /\ c \in DOMAIN s.index /\ s.index[c] \notin own
    BY <1>3, <1>5, <1>7 DEF MapsInverse
  <2>3. \A c \in DOMAIN s.index : /\ s.index[c] \in s.data <=> DataSite(c)
                                  /\ s.index[c] \in s.syn <=> ~ DataSite(c)
    BY <1>4 DEF SitesSorted, MapsInverse
  <2>4. \A i \in (s.data \cup s.syn) \ own : \E c \in DOMAIN t.index : s.index[c] = i
    BY <1>3, <1>4, <1>7 DEF SitesSorted, MapsInverse
  <2>5. \A i : i \in t.data <=> i \in DOMAIN t.coord /\ DataSite(t.coord[i])
    <3> TAKE i
    <3>1. ASSUME i \in t.data PROVE i \in DOMAIN t.coord /\ DataSite(t.coord[i])
      <4>1. i \in s.data /\ i \notin own
        BY <1>3, <3>1
      <4>2. PICK c \in DOMAIN t.index : s.index[c] = i
        BY <2>4, <4>1
      <4>3. DataSite(c)
        <5>1. c \in DOMAIN s.index /\ s.index[c] \in s.data
          BY <1>3, <4>1, <4>2
        <5> QED
          BY <2>3, <5>1
      <4>4. i \in DOMAIN t.coord /\ t.coord[i] = c
        BY <2>2, <4>2
      <4> QED
        BY <4>3, <4>4
    <3>2. ASSUME i \in DOMAIN t.coord, DataSite(t.coord[i]) PROVE i \in t.data
      <4>1. t.coord[i] \in DOMAIN t.index /\ s.index[t.coord[i]] = i
        BY <1>3, <2>1, <3>2
      <4> QED
        BY <1>3, <2>2, <2>3, <3>2, <4>1
    <3> QED
      BY <3>1, <3>2
  <2>6. \A i : i \in t.syn <=> i \in DOMAIN t.coord /\ ~ DataSite(t.coord[i])
    <3> TAKE i
    <3>1. ASSUME i \in t.syn PROVE i \in DOMAIN t.coord /\ ~ DataSite(t.coord[i])
      <4>1. i \in s.syn /\ i \notin own
        BY <1>3, <3>1
      <4>2. PICK c \in DOMAIN t.index : s.index[c] = i
        BY <2>4, <4>1
      <4>3. ~ DataSite(c)
        <5>1. c \in DOMAIN s.index /\ s.index[c] \in s.syn
          BY <1>3, <4>1, <4>2
        <5> QED
          BY <2>3, <5>1
      <4>4. i \in DOMAIN t.coord /\ t.coord[i] = c
        BY <2>2, <4>2
      <4> QED
        BY <4>3, <4>4
    <3>2. ASSUME i \in DOMAIN t.coord, ~ DataSite(t.coord[i]) PROVE i \in t.syn
      <4>1. t.coord[i] \in DOMAIN t.index /\ s.index[t.coord[i]] = i
        BY <1>3, <2>1, <3>2
      <4> QED
        BY <1>3, <2>2, <2>3, <3>2, <4>1
    <3> QED
      BY <3>1, <3>2
  <2> QED
    BY <2>5, <2>6 DEF SitesSorted
<1>9. OwnersNamed(t)
  <2> SUFFICES ASSUME NEW i \in DOMAIN t.of PROVE t.of[i] \in DOMAIN t.held
    BY DEF OwnersNamed
  <2>1. PICK c \in DOMAIN t.index : t.index[c] = i
    BY <1>5 DEF OwnersAgree, MapsInverse
  <2>2. t.of[i] = t.at[c] /\ c \in DOMAIN t.at /\ c \in DOMAIN s.index
    BY <1>3, <1>5, <2>1 DEF OwnersAgree
  <2>3. s.at[c] \in DOMAIN s.held
    BY <1>4, <2>2 DEF OwnersAgree, OwnersNamed, MapsInverse
  <2> QED
    BY <1>3, <2>2, <2>3
<1>10. Shaped(t)
  BY <1>3, <1>4 DEF Shaped
<1>11. InUse(t) = InUse(s)
  BY <1>3, <1>6 DEF InUse
<1>12. ASSUME NEW m \in DOMAIN s.patch, m # n, Mine(s, m) = s.patch[m].data
       PROVE  Mine(t, m) = Mine(s, m)
  <2>1. ASSUME NEW c \in Mine(t, m) PROVE c \in Mine(s, m)
    <3>1. /\ c \in DOMAIN t.index /\ t.at[c] = m /\ DataSite(c) /\ t.index[c] \notin t.retired
      BY <2>1 DEF Mine, Sited
    <3>2. c \in DOMAIN s.index /\ c \in DOMAIN t.at /\ s.index[c] \notin s.retired
      BY <1>2, <1>3, <1>4, <3>1 DEF OwnersAgree
    <3>3. s.at[c] # n
      <4> SUFFICES ASSUME s.at[c] = n PROVE FALSE
        OBVIOUS
      <4>1. c \in DOMAIN s.held[m]
        BY <1>3, <3>1, <3>2
      <4>2. c \in Mine(s, m)
        BY <1>4, <1>12, <3>1, <4>1 DEF Shaped
      <4> QED
        BY <1>12, <4>2 DEF Mine, Sited
    <3> QED
      BY <1>3, <3>1, <3>2, <3>3 DEF Mine, Sited
  <2>2. ASSUME NEW c \in Mine(s, m) PROVE c \in Mine(t, m)
    <3>1. /\ c \in DOMAIN s.index /\ s.at[c] = m /\ DataSite(c) /\ s.index[c] \notin s.retired
      BY <2>2 DEF Mine, Sited
    <3>2. c \notin X
      BY <1>6, <1>12, <3>1
    <3> QED
      BY <1>2, <1>3, <1>4, <1>12, <3>1, <3>2 DEF Mine, Sited, OwnersAgree
  <2> QED
    BY <2>1, <2>2
<1> QED
  BY <1>1, <1>2, <1>8, <1>9, <1>10, <1>11, <1>12 DEF Tidy

-----------------------------------------------------------------------------
(* The layouts: their data qubits are at the data sites, and where.         *)

LEMMA RectParted ==
  ASSUME NEW y0 \in Int, NEW rows \in Nat, NEW edge
  PROVE  /\ Parted(Rect(y0, rows, edge)) /\ Rect(y0, rows, edge).data = DataOf(y0, rows)
         /\ \A c \in DataOf(y0, rows) : DataSite(c)
<1> DEFINE bulk  == {<<2 * i, y0 + 2 * j>> : i \in 1 .. D - 1, j \in 1 .. rows - 1}
           lobes == {c \in Rim(y0, rows) : Ptype(c) = edge[c]}
           g == Rect(y0, rows, edge)
<1>d. D \in Nat
  BY DAssumption
<1>1. ASSUME NEW c \in DataOf(y0, rows) PROVE DataSite(c)
  <2>1. PICK i \in 0 .. D - 1, j \in 0 .. rows - 1 : c = <<2 * i + 1, y0 + 2 * j + 1>>
    BY DEF DataOf
  <2>2. (2 * i + 1) % 2 = 1
    BY <1>d
  <2> QED
    BY <2>1, <2>2 DEF DataSite
<1>2. ASSUME NEW c \in bulk PROVE ~ DataSite(c)
  <2>1. PICK i \in 1 .. D - 1, j \in 1 .. rows - 1 : c = <<2 * i, y0 + 2 * j>>
    OBVIOUS
  <2>2. (2 * i) % 2 = 0
    BY <1>d
  <2> QED
    BY <2>1, <2>2 DEF DataSite
<1>3. ASSUME NEW c \in Rim(y0, rows) PROVE ~ DataSite(c)
  <2>1. \E i \in 0 .. D : c[1] = 2 * i
    BY <1>d DEF Rim
  <2>2. PICK i \in 0 .. D : c[1] = 2 * i
    BY <2>1
  <2>3. (2 * i) % 2 = 0
    BY <1>d
  <2> QED
    BY <2>2, <2>3 DEF DataSite
<1>4. g.data = DataOf(y0, rows) /\ g.cells = DataOf(y0, rows) \cup bulk \cup lobes
  BY DEF Rect
<1>5. lobes \subseteq Rim(y0, rows)
  OBVIOUS
<1> HIDE DEF g, bulk, lobes
<1>6. g.data = {c \in g.cells : DataSite(c)}
  BY <1>1, <1>2, <1>3, <1>4, <1>5
<1>7. Geometry(g)
  BY RectGeometry DEF g
<1> QED
  BY <1>1, <1>4, <1>6, <1>7 DEF Parted, g

LEMMA LayoutsParted ==
  ASSUME NEW y \in Int
  PROVE  /\ Parted(Start(y)) /\ Parted(Grown(y)) /\ Parted(Moved(y))
         /\ Parted(Far(y)) /\ Parted(Bar2(y)) /\ Parted(Shrunk(y))
         /\ Start(y).data = DataOf(y, D) /\ Shrunk(y).data = DataOf(y, D)
         /\ Far(y).data = DataOf(y - Reach, D)
         /\ \A c \in DataOf(y, D) : DataSite(c)
<1>1. y - Reach \in Int /\ D \in Nat /\ 2 * D - 1 \in Nat
  BY DAssumption DEF Reach
<1> QED
  BY <1>1, RectParted
     DEF Start, Grown, Moved, Far, Bar2, Shrunk, GrownBar, RectBoundary

\* What a rotation reads out is what its next layout leaves out.
LEMMA RowsOut ==
  ASSUME NEW y \in Int
  PROVE  /\ \A c \in Far(y).data : ~ (c[2] > y + 1)
         /\ \A c \in Shrunk(y).data : ~ (c[2] < y)
<1>1. D \in Nat /\ Reach = 2 * D - 2
  BY DAssumption DEF Reach
<1>2. Far(y).data = DataOf(y - Reach, D) /\ Shrunk(y).data = DataOf(y, D)
  BY LayoutsParted
<1>3. ASSUME NEW c \in DataOf(y - Reach, D) PROVE ~ (c[2] > y + 1)
  <2>1. PICK i \in 0 .. D - 1, j \in 0 .. D - 1 : c = <<2 * i + 1, y - Reach + 2 * j + 1>>
    BY DEF DataOf
  <2> QED
    BY <1>1, <2>1
<1>4. ASSUME NEW c \in DataOf(y, D) PROVE ~ (c[2] < y)
  <2>1. PICK i \in 0 .. D - 1, j \in 0 .. D - 1 : c = <<2 * i + 1, y + 2 * j + 1>>
    BY DEF DataOf
  <2> QED
    BY <1>1, <2>1
<1> QED
  BY <1>2, <1>3, <1>4

-----------------------------------------------------------------------------
(* The ledgers by cells.                                                    *)

LedgerOf(s, P, R, on) ==
  /\ \A p \in P : Mine(s, p) = s.patch[p].data
  /\ InUse(s) = IF on THEN (UNION {s.patch[p].data : p \in R})
                             \cup (UNION {s.patch[n].data : n \in DOMAIN s.paused})
                ELSE {}

Exact(s, P, R, on) ==
  /\ \A p \in P : Settled(s, p)
  /\ s.live = IF on THEN (UNION {DataIn(s, p) : p \in R})
                           \cup (UNION {CorridorData(s, n) : n \in DOMAIN s.paused})
              ELSE {}

LEMMA LedgerByCells ==
  ASSUME NEW s, MapsSound(s), Tidy(s), NEW P, P \subseteq DOMAIN s.patch, NEW R, R \subseteq P,
         DOMAIN s.paused \subseteq DOMAIN s.patch, NEW on, on \in BOOLEAN
  PROVE  LedgerOf(s, P, R, on) <=> Exact(s, P, R, on)
<1> DEFINE U == (UNION {s.patch[p].data : p \in R}) \cup (UNION {s.patch[n].data : n \in DOMAIN s.paused})
           V == (UNION {DataIn(s, p) : p \in R}) \cup (UNION {CorridorData(s, n) : n \in DOMAIN s.paused})
<1>1. /\ \A c \in DOMAIN s.index : \A A \in SUBSET DOMAIN s.index :
           s.index[c] \in Idx(s, A) <=> c \in A
      /\ \A m : LiveData(s, m) = Idx(s, Mine(s, m))
      /\ \A n \in DOMAIN s.patch :
           /\ s.patch[n].data \subseteq DOMAIN s.index
           /\ CorridorData(s, n) = Idx(s, s.patch[n].data)
           /\ DataIn(s, n) = Idx(s, s.patch[n].data)
      /\ s.live = Idx(s, InUse(s))
  BY CellsOf
<1>2. ASSUME NEW A \in SUBSET DOMAIN s.index, NEW B \in SUBSET DOMAIN s.index
      PROVE  Idx(s, A) = Idx(s, B) <=> A = B
  BY <1>1
<1>3. V = Idx(s, U) /\ U \subseteq DOMAIN s.index
  <2>1. \A i : i \in V <=> i \in Idx(s, U)
    BY <1>1 DEF Idx
  <2> QED
    BY <1>1, <2>1
<1>4. {} = Idx(s, {}) /\ InUse(s) \subseteq DOMAIN s.index
      /\ \A m : Mine(s, m) \subseteq DOMAIN s.index
  BY DEF Idx, InUse, Mine, Sited
<1> HIDE DEF U, V
<1>5. ASSUME NEW p \in P PROVE Settled(s, p) <=> Mine(s, p) = s.patch[p].data
  BY <1>1, <1>2, <1>4 DEF Settled
<1>6. s.live = V <=> InUse(s) = U
  BY <1>1, <1>2, <1>3, <1>4
<1>7. s.live = {} <=> InUse(s) = {}
  BY <1>1, <1>2, <1>4
<1> QED
  BY <1>5, <1>6, <1>7 DEF LedgerOf, Exact, U, V

\* A round changes nothing but what the circuit has touched.
LEMMA RoundAlike ==
  ASSUME NEW s, MapsSound(s), Ok(ApplySyndromeExtraction(s))
  PROVE  LET t == ApplySyndromeExtraction(s)
         IN  /\ Ok(s) /\ Steady(s, t) /\ t.retired = s.retired /\ t.live = s.live
             /\ t.order = s.order /\ t.active = s.active
<1> DEFINE used == UNION {s.recs[u].on \cup {s.recs[u].anc} : u \in s.active}
           t == ApplySyndromeExtraction(s)
<1>1. DOMAIN s = Fields
  BY DEF MapsSound
<1>2. t = IF ~ used \subseteq DOMAIN s.coord THEN Fail(s, "KeyError")
          ELSE [s EXCEPT !.touched = @ \cup used]
  BY DEF ApplySyndromeExtraction
<1> HIDE DEF used
<1>3. t = [s EXCEPT !.touched = @ \cup used]
  BY <1>1, <1>2 DEF Fail, Ok, Fields, NewSystem
<1> QED
  BY <1>1, <1>3 DEF Ok, Steady, SameMaps, Fields, NewSystem

\* A registry that differs only in what no ledger of use reads.
Alike(s, t) == Steady(s, t) /\ t.retired = s.retired /\ t.live = s.live

LEMMA AlikeKeeps ==
  ASSUME NEW s, MapsSound(s), Tidy(s), NEW t, Alike(s, t)
  PROVE  /\ MapsSound(t) /\ Tidy(t) /\ InUse(t) = InUse(s)
         /\ \A m : Mine(t, m) = Mine(s, m) /\ Sited(t, m) = Sited(s, m)
         /\ \A A : Idx(t, A) = Idx(s, A)
         /\ t.patch = s.patch /\ t.paused = s.paused /\ t.tracked = s.tracked
         /\ t.held = s.held /\ t.at = s.at /\ t.index = s.index /\ t.retired = s.retired
         /\ \A P, R, on : LedgerOf(t, P, R, on) <=> LedgerOf(s, P, R, on)
<1>1. t.live \subseteq s.data \cap DOMAIN s.coord
  BY DEF Alike, MapsSound, LiveOnMap
<1>2. MapsSound(t) /\ Tidy(t) /\ \A m : Sited(t, m) = Sited(s, m)
      /\ \A A : Idx(t, A) = Idx(s, A)
  BY <1>1, SteadyKeeps DEF Alike
<1>3. /\ t.patch = s.patch /\ t.paused = s.paused /\ t.tracked = s.tracked
      /\ t.held = s.held /\ t.at = s.at /\ t.index = s.index /\ t.retired = s.retired
      /\ t.live = s.live
  BY DEF Alike, Steady, SameMaps
<1>4. InUse(t) = InUse(s) /\ \A m : Mine(t, m) = Mine(s, m)
  BY <1>2, <1>3 DEF InUse, Mine
<1>5. \A P, R, on : LedgerOf(t, P, R, on) <=> LedgerOf(s, P, R, on)
  BY <1>3, <1>4 DEF LedgerOf
<1> QED
  BY <1>2, <1>3, <1>4, <1>5

\* A name that is not registered owns nothing.
LEMMA Strangers ==
  ASSUME NEW s, MapsSound(s), NamesSound(s), Ok(s), Tidy(s), NEW n, n \notin DOMAIN s.patch
  PROVE  Sited(s, n) = {} /\ Mine(s, n) = {}
<1>1. ASSUME NEW c \in DOMAIN s.index PROVE s.at[c] # n
  BY DEF MapsSound, MapsInverse, OwnersAgree, NamesSound, Tidy, OwnersNamed
<1> QED
  BY <1>1 DEF Sited, Mine
-----------------------------------------------------------------------------
(* The calls and the ledgers.  P are the patches that stand, R those in use.*)

\* What a call that moves no cell from name to name leaves.
Unmoved(s, t) ==
  /\ Tidy(t) /\ t.patch = s.patch /\ t.held = s.held /\ t.at = s.at /\ t.tracked = s.tracked

\* Nothing n owns as data is retired.
Whole(s, n) == Sited(s, n) = Mine(s, n)

LEMMA WholeIs ==
  ASSUME NEW s, MapsSound(s), Tidy(s), NEW n
  PROVE  Whole(s, n) <=> OwnedData(s, n) \cap s.retired = {}
<1>1. OwnedData(s, n) = Idx(s, Sited(s, n))
  BY CellsOf
<1>2. Whole(s, n) <=> \A c \in Sited(s, n) : s.index[c] \notin s.retired
  BY DEF Whole, Mine
<1> QED
  BY <1>1, <1>2 DEF Idx

\* What adding n with the cells of g does to the registry and its ledgers.
Added(s, t, n, g, P, R, on) ==
  /\ n \notin DOMAIN s.patch /\ Placed(s, t, n, g)
  /\ LedgerOf(t, P \cup {n}, R, on)
  /\ Whole(t, n) /\ \A m : Whole(s, m) => Whole(t, m)
  /\ t.patch[n] = g /\ DOMAIN t.patch = DOMAIN s.patch \cup {n}
  /\ \A m \in DOMAIN s.patch : t.patch[m] = s.patch[m]

\* A patch or a coupler is added clear of the patches that stand.
LEMMA AddLedger ==
  ASSUME NEW s, Ready(s), NEW n, n # Nobody, NEW g, Parted(g), NEW b,
         NEW t, t = AddPatch(s, n, g, b), Ok(t),
         NEW P, P \subseteq DOMAIN s.patch, NEW R, R \subseteq P, NEW on,
         DOMAIN s.paused \subseteq DOMAIN s.patch, LedgerOf(s, P, R, on),
         \A p \in P : s.patch[p].data \cap g.cells = {}
  PROVE  Added(s, t, n, g, P, R, on)
<1>1. n \notin DOMAIN s.patch /\ Placed(s, t, n, g)
  BY AddPatchPlaced
<1>2. /\ Mine(t, n) = g.data \cup (Mine(s, n) \ g.cells)
      /\ \A m : m # n => Mine(t, m) = Mine(s, m) \ g.cells
      /\ InUse(t) = InUse(s)
      /\ t.patch[n] = g /\ DOMAIN t.patch = DOMAIN s.patch \cup {n}
      /\ \A m \in DOMAIN s.patch : m # n => t.patch[m] = s.patch[m]
  <2>1. MapsSound(s) /\ Tidy(s)
    BY DEF Ready
  <2>2. TakenOver(s, t, n, g)
    BY <1>1, <2>1, PlacedCells
  <2> QED
    BY <2>2 DEF TakenOver
<1>3. Sited(s, n) = {} /\ Mine(s, n) = {}
  BY <1>1, Strangers DEF Ready
<1>4. g.data = {c \in g.cells : DataSite(c)}
  BY DEF Parted
<1>5. /\ Sited(t, n) = g.data \cup (Sited(s, n) \ g.cells)
      /\ \A m : m # n => Sited(t, m) = Sited(s, m) \ g.cells
  <2>1. /\ DOMAIN t.index = g.cells \cup DOMAIN s.index /\ DOMAIN t.at = DOMAIN t.index
        /\ \A c \in DOMAIN t.at : t.at[c] = IF c \in g.cells THEN n ELSE s.at[c]
    BY <1>1 DEF Placed
  <2> QED
    BY <1>4, <2>1 DEF Sited
<1>6. Whole(t, n) /\ \A m : Whole(s, m) => Whole(t, m)
  BY <1>2, <1>3, <1>5 DEF Whole
<1>7. \A p \in P \cup {n} : Mine(t, p) = t.patch[p].data
  <2>1. Mine(t, n) = t.patch[n].data
    BY <1>2, <1>3
  <2>2. ASSUME NEW p \in P PROVE Mine(t, p) = t.patch[p].data
    <3>1. p # n /\ Mine(s, p) = s.patch[p].data /\ s.patch[p].data \cap g.cells = {}
      BY <1>1 DEF LedgerOf
    <3>2. Mine(t, p) = Mine(s, p) \ g.cells /\ t.patch[p] = s.patch[p]
      BY <1>2, <3>1
    <3> QED
      BY <3>1, <3>2
  <2> QED
    BY <2>1, <2>2
<1>8. t.paused = s.paused
  BY <1>1 DEF Placed
<1>9. /\ \A p \in R : t.patch[p].data = s.patch[p].data
      /\ \A m \in DOMAIN s.paused : t.patch[m].data = s.patch[m].data
  BY <1>1, <1>2
<1>10. /\ UNION {t.patch[p].data : p \in R} = UNION {s.patch[p].data : p \in R}
       /\ UNION {t.patch[m].data : m \in DOMAIN t.paused}
            = UNION {s.patch[m].data : m \in DOMAIN s.paused}
  BY <1>8, <1>9
<1>11. LedgerOf(t, P \cup {n}, R, on)
  BY <1>2, <1>7, <1>10 DEF LedgerOf
<1> QED
  BY <1>1, <1>2, <1>6, <1>11 DEF Added

LEMMA LedgerFewer ==
  ASSUME NEW s, NEW P, NEW Q \in SUBSET P, NEW R, NEW on, LedgerOf(s, P, R, on)
  PROVE  LedgerOf(s, Q, R, on)
  BY DEF LedgerOf

\* After resets the patches in Q are in use.
Refreshed(s, t, P, Q) ==
  LedgerOf(t, P, Q, TRUE) /\ Unmoved(s, t) /\ t.paused = s.paused /\ t.retired = s.retired

\* The resets of the patches in N, none of whose data is retired, and a round.
LEMMA ResetLedger ==
  ASSUME NEW s, Ready(s), NEW P, P \subseteq DOMAIN s.patch, NEW R, R \subseteq P,
         NEW N, N \subseteq P, LedgerOf(s, P, R, TRUE), \A p \in N : Whole(s, p),
         NEW t, t = InitAndBaseline(s, N), Ok(t), NEW Q, Q = R \cup N
  PROVE  Refreshed(s, t, P, Q)
<1> DEFINE A == UNION {s.patch[p].data : p \in N}
           I == UNION {OwnedData(s, p) : p \in N}
           u == Initialize(s, Idx(s, A))
<1>1. \A p \in N : OwnedData(s, p) = Idx(s, s.patch[p].data)
  BY CellsOf DEF LedgerOf, Whole, Ready
<1>2. A \subseteq DOMAIN s.index /\ \A c \in A : DataSite(c)
  <2>1. \A p \in N : s.patch[p].data = Mine(s, p)
    BY DEF LedgerOf
  <2> QED
    BY <2>1 DEF Mine, Sited
<1>3. I = Idx(s, A)
  <2>1. \A i : i \in I <=> i \in Idx(s, A)
    BY <1>1 DEF Idx
  <2> QED
    BY <2>1
<1>4. t = ApplySyndromeExtraction(u)
  BY <1>3 DEF InitAndBaseline
<1> HIDE DEF A, I
<1>5. /\ Steady(s, u) /\ MapsSound(u) /\ Tidy(u) /\ u.retired = s.retired
      /\ InUse(u) = InUse(s) \cup A
  BY <1>2, ResetCells DEF Ready
<1> HIDE DEF u
<1>6. Alike(u, t)
  BY <1>4, <1>5, RoundAlike DEF Alike
<1>7. /\ u.patch = s.patch /\ u.paused = s.paused /\ u.held = s.held /\ u.at = s.at
      /\ u.tracked = s.tracked
  BY <1>5 DEF Steady, SameMaps
<1>8. \A m : Mine(u, m) = Mine(s, m)
  BY <1>5 DEF Mine, Sited, Steady, SameMaps
<1>9. LedgerOf(u, P, Q, TRUE)
  <2>1. UNION {s.patch[p].data : p \in Q} = (UNION {s.patch[p].data : p \in R}) \cup A
    BY DEF A
  <2> QED
    BY <1>5, <1>7, <1>8, <2>1 DEF LedgerOf
<1> QED
  BY <1>5, <1>6, <1>7, <1>9, AlikeKeeps DEF Unmoved, Refreshed

\* A patch that stands is relaid.
LEMMA RelaidLedger ==
  ASSUME NEW s, NEW P, LedgerOf(s, P, P, TRUE), DOMAIN s.paused = {}, P \subseteq DOMAIN s.patch,
         NEW n \in P, NEW g, NEW t, Relaid(s, t, n, g)
  PROVE  LedgerOf(t, P, P, TRUE)
<1>1. /\ \A p \in P : Mine(s, p) = s.patch[p].data
      /\ InUse(s) = UNION {s.patch[p].data : p \in P}
  BY DEF LedgerOf
<1>2. \A p \in P : Mine(s, p) \subseteq InUse(s)
  BY <1>1
<1>3. /\ Mine(t, n) = g.data /\ InUse(t) = (InUse(s) \ Mine(s, n)) \cup g.data
      /\ \A m : m # n /\ Mine(s, m) \subseteq InUse(s) => Mine(t, m) = Mine(s, m)
      /\ t.patch[n] = g /\ t.paused = s.paused
      /\ \A m \in DOMAIN s.patch : m # n => t.patch[m] = s.patch[m]
  BY DEF Relaid
<1>4. \A p \in P : Mine(t, p) = t.patch[p].data
  BY <1>1, <1>2, <1>3
<1>5. \A m : m # n => Mine(s, m) \cap Mine(s, n) = {}
  BY DEF Mine, Sited
<1>6. InUse(t) = UNION {t.patch[p].data : p \in P}
  <2>1. \A c : c \in InUse(t) <=> c \in g.data \/ \E p \in P : p # n /\ c \in s.patch[p].data
    <3> TAKE c
    <3>1. c \in InUse(t) <=> c \in g.data \/ (c \notin Mine(s, n) /\ \E p \in P : c \in Mine(s, p))
      BY <1>1, <1>3
    <3>2. (c \notin Mine(s, n) /\ \E p \in P : c \in Mine(s, p))
             <=> \E p \in P : p # n /\ c \in Mine(s, p)
      BY <1>5
    <3> QED
      BY <1>1, <3>1, <3>2
  <2>2. \A c : c \in InUse(t) <=> \E p \in P : c \in t.patch[p].data
    BY <1>3, <2>1
  <2> QED
    BY <2>2
<1> QED
  BY <1>3, <1>4, <1>6 DEF LedgerOf

\* A coupler is removed.
LEMMA RemovedLedger ==
  ASSUME NEW s, Ready(s), NEW n, OwnsHeld(s, n), n \in DOMAIN s.held => CleanToRemove(s, n),
         NEW t, t = RemoveCoupler(s, n), Ok(t), DOMAIN s.paused = {},
         NEW P, P \subseteq DOMAIN s.patch, n \notin P, LedgerOf(s, P, P, TRUE)
  PROVE  LedgerOf(t, P, P, TRUE) /\ Tidy(t) /\ Removal(s, t, n)
         /\ t.retired = s.retired /\ t.paused = s.paused /\ t.tracked = s.tracked
<1>1. /\ Removal(s, t, n) /\ Tidy(t)
      /\ t.retired = s.retired /\ t.paused = s.paused /\ t.tracked = s.tracked
      /\ InUse(t) = InUse(s)
      /\ \A m \in DOMAIN s.patch :
           m # n /\ Mine(s, m) = s.patch[m].data => Mine(t, m) = Mine(s, m)
  BY RemovedCells
<1>2. \A p \in P : Mine(s, p) = s.patch[p].data
  BY DEF LedgerOf
<1>3. \A p \in P : t.patch[p] = s.patch[p]
  <2>1. /\ DOMAIN t.held = DOMAIN s.held \ {n} /\ DOMAIN s.patch = DOMAIN s.held
        /\ \A m \in DOMAIN t.held : t.patch[m] = s.patch[m]
    BY <1>1 DEF Removal, Ready, NamesSound
  <2> QED
    BY <2>1
<1>4. \A p \in P : Mine(t, p) = t.patch[p].data
  BY <1>1, <1>2, <1>3
<1>5. UNION {t.patch[p].data : p \in P} = UNION {s.patch[p].data : p \in P}
  BY <1>3
<1>6. LedgerOf(t, P, P, TRUE)
  BY <1>1, <1>4, <1>5 DEF LedgerOf
<1> QED
  BY <1>1, <1>6

LEMMA SeamUse ==
  ASSUME NEW s, MapsSound(s), Tidy(s), NEW n
  PROVE  /\ n \notin DOMAIN s.paused =>
              LET t == ActivateCoupler(s, n)
              IN  /\ SameMaps(s, t) /\ t.syn = s.syn /\ t.patch = s.patch
                  /\ t.tracked = s.tracked /\ t.retired = s.retired /\ t.live = s.live
                  /\ DOMAIN t.paused = DOMAIN s.paused \cup {n}
         /\ n \in DOMAIN s.paused =>
              LET t == DeactivateCoupler(s, n)
              IN  /\ SameMaps(s, t) /\ t.syn = s.syn /\ t.patch = s.patch
                  /\ t.tracked = s.tracked /\ t.retired = s.retired /\ t.live = s.live
                  /\ DOMAIN t.paused = DOMAIN s.paused \ {n}
<1>1. DOMAIN s = Fields
  BY DEF MapsSound
<1>2. ASSUME n \notin DOMAIN s.paused, NEW t, t = ActivateCoupler(s, n)
      PROVE  /\ SameMaps(s, t) /\ t.syn = s.syn /\ t.patch = s.patch
             /\ t.tracked = s.tracked /\ t.retired = s.retired /\ t.live = s.live
             /\ DOMAIN t.paused = DOMAIN s.paused \cup {n}
  <2> DEFINE hit == {u \in s.active : s.recs[u].at \in s.patch[n].pauses}
  <2>1. t = [s EXCEPT !.paused = Put(@, n, hit), !.active = (@ \ hit) \cup (s.uids[n] \ hit)]
    BY <1>2 DEF ActivateCoupler
  <2> HIDE DEF hit
  <2>2. t.paused = Put(s.paused, n, hit)
    BY <1>1, <2>1 DEF Fields, NewSystem
  <2>3. DOMAIN t.paused = DOMAIN s.paused \cup {n}
    BY <2>2 DEF Put, Over
  <2> QED
    BY <1>1, <2>1, <2>3 DEF SameMaps, Fields, NewSystem
<1>3. ASSUME n \in DOMAIN s.paused, NEW t, t = DeactivateCoupler(s, n)
      PROVE  /\ SameMaps(s, t) /\ t.syn = s.syn /\ t.patch = s.patch
             /\ t.tracked = s.tracked /\ t.retired = s.retired /\ t.live = s.live
             /\ DOMAIN t.paused = DOMAIN s.paused \ {n}
  <2>1. t = [s EXCEPT !.paused = Only(@, DOMAIN @ \ {n}),
                      !.active = (@ \ s.uids[n]) \cup s.paused[n]]
    BY <1>3 DEF DeactivateCoupler
  <2>2. t.paused = Only(s.paused, DOMAIN s.paused \ {n})
    BY <1>1, <2>1 DEF Fields, NewSystem
  <2>3. DOMAIN t.paused = DOMAIN s.paused \ {n}
    BY <2>2 DEF Only
  <2> QED
    BY <1>1, <2>1, <2>3 DEF SameMaps, Fields, NewSystem
<1> QED
  BY <1>2, <1>3

\* What the registry is to the ledgers before a coupler opens or closes.
LEMMA SeamAside ==
  ASSUME NEW s, MapsSound(s), Tidy(s), NEW t, SameMaps(s, t), t.syn = s.syn,
         t.patch = s.patch, t.tracked = s.tracked, t.retired = s.retired, t.live = s.live
  PROVE  /\ MapsSound(t) /\ Unmoved(s, t) /\ InUse(t) = InUse(s)
         /\ \A m : Mine(t, m) = Mine(s, m)
         /\ \A A : Idx(t, A) = Idx(s, A)
<1>1. MapsSound(t)
  BY SameMapsSound DEF LiveOnMap, MapsSound, SameMaps
<1>2. Tidy(t)
  BY DEF Tidy, SitesSorted, OwnersNamed, Shaped, SameMaps
<1> QED
  BY <1>1, <1>2 DEF Unmoved, InUse, Mine, Sited, Idx, SameMaps

\* A merge: the coupler opens and its corridor is reset.
LEMMA MergedLedger ==
  ASSUME NEW s, Ready(s), DOMAIN s.paused = {}, NEW n \in DOMAIN s.patch,
         NEW P, LedgerOf(s, P, P, TRUE),
         NEW t, Ok(t),
         t = ApplySyndromeExtraction(Initialize(ActivateCoupler(s, n), CorridorData(s, n)))
  PROVE  /\ LedgerOf(t, P, P, TRUE) /\ Unmoved(s, t) /\ DOMAIN t.paused = {n}
         /\ t.retired = s.retired
<1> DEFINE a == ActivateCoupler(s, n)
           A == s.patch[n].data
           u == Initialize(a, Idx(a, A))
           v == ApplySyndromeExtraction(u)
<1>1. /\ MapsSound(s) /\ Tidy(s)
      /\ A \subseteq s.patch[n].cells /\ s.patch[n].cells \subseteq DOMAIN s.index
      /\ CorridorData(s, n) = Idx(s, A)
  BY CellsOf DEF Ready
<1>2. \A c \in A : DataSite(c)
  BY <1>1 DEF Tidy, Shaped
<1>3. /\ SameMaps(s, a) /\ a.syn = s.syn /\ a.patch = s.patch
      /\ a.tracked = s.tracked /\ a.retired = s.retired /\ a.live = s.live
      /\ DOMAIN a.paused = {n}
  BY <1>1, SeamUse
<1> HIDE DEF a
<1>4. /\ MapsSound(a) /\ Unmoved(s, a) /\ InUse(a) = InUse(s)
      /\ \A m : Mine(a, m) = Mine(s, m)
      /\ Idx(a, A) = Idx(s, A)
  BY <1>1, <1>3, SeamAside
<1>5. t = v
  BY <1>1, <1>4 DEF a
<1>6. Tidy(a) /\ A \in SUBSET DOMAIN a.index
  BY <1>1, <1>3, <1>4 DEF Unmoved, SameMaps
<1> HIDE DEF A
<1>7. /\ Steady(a, u) /\ MapsSound(u) /\ Tidy(u) /\ u.retired = a.retired
      /\ InUse(u) = InUse(a) \cup A
  BY <1>2, <1>4, <1>6, ResetCells
<1> HIDE DEF u
<1>8. Alike(u, v)
  BY <1>5, <1>7, RoundAlike DEF Alike
<1> HIDE DEF v
<1>9. /\ u.patch = s.patch /\ u.paused = a.paused /\ u.held = s.held /\ u.at = s.at
      /\ u.tracked = s.tracked
  BY <1>3, <1>7 DEF Steady, SameMaps
<1>10. \A m : Mine(u, m) = Mine(s, m)
  BY <1>4, <1>7 DEF Mine, Sited, Steady, SameMaps
<1>11. LedgerOf(u, P, P, TRUE)
  <2>1. UNION {u.patch[m].data : m \in DOMAIN u.paused} = A
    BY <1>3, <1>9 DEF A
  <2>2. InUse(s) = UNION {s.patch[p].data : p \in P}
    BY DEF LedgerOf
  <2> QED
    BY <1>4, <1>7, <1>9, <1>10, <2>1, <2>2 DEF LedgerOf
<1>12. /\ Tidy(v) /\ v.patch = u.patch /\ v.paused = u.paused /\ v.tracked = u.tracked
       /\ v.held = u.held /\ v.at = u.at /\ v.retired = u.retired
       /\ LedgerOf(v, P, P, TRUE) <=> LedgerOf(u, P, P, TRUE)
  BY <1>7, <1>8, AlikeKeeps
<1> QED
  BY <1>3, <1>5, <1>7, <1>9, <1>11, <1>12 DEF Unmoved

\* A split: the coupler closes and its corridor is read out.
LEMMA SplitLedger ==
  ASSUME NEW s, Ready(s), NEW n \in DOMAIN s.patch, DOMAIN s.paused = {n},
         NEW P, LedgerOf(s, P, P, TRUE), \A p \in P : s.patch[p].data \cap s.patch[n].data = {},
         NEW t, t = ApplyDataReadout(DeactivateCoupler(s, n), CorridorData(s, n))
  PROVE  /\ LedgerOf(t, P, P, TRUE) /\ Unmoved(s, t) /\ DOMAIN t.paused = {}
         /\ t.retired = s.retired
<1> DEFINE a == DeactivateCoupler(s, n)
           A == s.patch[n].data
           u == ApplyDataReadout(a, Idx(a, A))
<1>1. /\ MapsSound(s) /\ Tidy(s)
      /\ A \subseteq s.patch[n].cells /\ s.patch[n].cells \subseteq DOMAIN s.index
      /\ CorridorData(s, n) = Idx(s, A)
  BY CellsOf DEF Ready
<1>3. /\ SameMaps(s, a) /\ a.syn = s.syn /\ a.patch = s.patch
      /\ a.tracked = s.tracked /\ a.retired = s.retired /\ a.live = s.live
      /\ DOMAIN a.paused = {}
  BY <1>1, SeamUse
<1> HIDE DEF a
<1>4. /\ MapsSound(a) /\ Unmoved(s, a) /\ InUse(a) = InUse(s)
      /\ \A m : Mine(a, m) = Mine(s, m)
      /\ Idx(a, A) = Idx(s, A)
  BY <1>1, <1>3, SeamAside
<1>5. t = u
  BY <1>1, <1>4 DEF a
<1>6. Tidy(a) /\ A \in SUBSET DOMAIN a.index
  BY <1>1, <1>3, <1>4 DEF Unmoved, SameMaps
<1> HIDE DEF A
<1>7. /\ Steady(a, u) /\ MapsSound(u) /\ Tidy(u) /\ u.retired = a.retired
      /\ InUse(u) = InUse(a) \ A
  BY <1>4, <1>6, ReadCells
<1> HIDE DEF u
<1>9. /\ u.patch = s.patch /\ u.paused = a.paused /\ u.held = s.held /\ u.at = s.at
      /\ u.tracked = s.tracked
  BY <1>3, <1>7 DEF Steady, SameMaps
<1>10. \A m : Mine(u, m) = Mine(s, m)
  BY <1>4, <1>7 DEF Mine, Sited, Steady, SameMaps
<1>11. LedgerOf(u, P, P, TRUE)
  <2>1. InUse(s) = (UNION {s.patch[p].data : p \in P}) \cup A
    BY DEF LedgerOf, A
  <2>2. (UNION {s.patch[p].data : p \in P}) \cap A = {}
    BY DEF A
  <2>3. InUse(u) = UNION {s.patch[p].data : p \in P}
    BY <1>4, <1>7, <2>1, <2>2
  <2> QED
    BY <1>3, <1>9, <1>10, <2>3 DEF LedgerOf
<1> QED
  BY <1>3, <1>5, <1>7, <1>9, <1>11 DEF Unmoved

\* A patch is read out and retired.
LEMMA RetiredLedger ==
  ASSUME NEW s, Ready(s), DOMAIN s.paused = {}, NEW P, P \subseteq DOMAIN s.patch,
         LedgerOf(s, P, P, TRUE), NEW p \in P,
         NEW t, t = RetireMeasuredPatch(ApplyDataReadout(s, OwnedData(s, p)), p)
  PROVE  LedgerOf(t, P \ {p}, P \ {p}, TRUE) /\ Unmoved(s, t) /\ t.paused = s.paused
<1> DEFINE A == Sited(s, p)
           r == ApplyDataReadout(s, Idx(s, A))
<1>1. MapsSound(s) /\ Tidy(s) /\ A \in SUBSET DOMAIN s.index
  BY DEF Ready, Sited
<1>2. OwnedData(s, p) = Idx(s, A)
  BY <1>1, CellsOf
<1>3. t = RetireMeasuredPatch(r, p)
  BY <1>2
<1>4. \A c \in DOMAIN s.index : s.index[c] \in Idx(s, A) <=> c \in A
  BY <1>1, CellsOf
<1> HIDE DEF A
<1>5. /\ Steady(s, r) /\ MapsSound(r) /\ Tidy(r) /\ r.retired = s.retired
      /\ InUse(r) = InUse(s) \ A
  BY <1>1, ReadCells
<1>6. /\ DOMAIN r = Fields /\ r.live \subseteq r.data /\ r.data \cap r.syn = {}
      /\ r.live \cap Idx(s, A) = {}
  <2>1. r.live = s.live \ Idx(s, A)
    BY <1>1 DEF ApplyDataReadout, MapsSound, Fields, NewSystem
  <2> QED
    BY <1>5, <2>1 DEF MapsSound, LiveOnMap, Tidy, SitesSorted
<1> HIDE DEF r
<1>7. OwnedData(r, p) = Idx(s, A)
  <2>1. Sited(r, p) = Sited(s, p) /\ Idx(r, A) = Idx(s, A)
    BY <1>5 DEF Sited, Idx, Steady, SameMaps
  <2> QED
    BY <1>5, <2>1, CellsOf DEF A
<1>8. /\ Steady(r, t) /\ t.live = r.live /\ t.retired = r.retired \cup Idx(s, A)
  <2>1. CASE OwnedData(r, p) = {}
    <3>1. t = r
      BY <1>3, <2>1 DEF RetireMeasuredPatch
    <3> QED
      BY <1>6, <1>7, <2>1, <3>1 DEF Steady, SameMaps
  <2>2. CASE OwnedData(r, p) # {}
    <3>1. t = [r EXCEPT !.active  = @ \ RecordsOf(r, p),
                        !.retired = @ \cup OwnedData(r, p),
                        !.live    = @ \ (OwnedData(r, p) \cup (r.syn \cap Owned(r, p)))]
      BY <1>3, <2>2 DEF RetireMeasuredPatch
    <3>2. /\ Steady(r, t) /\ t.retired = r.retired \cup OwnedData(r, p)
          /\ t.live = r.live \ (OwnedData(r, p) \cup (r.syn \cap Owned(r, p)))
      BY <1>6, <3>1 DEF Steady, SameMaps, Fields, NewSystem
    <3>3. r.live \cap (OwnedData(r, p) \cup (r.syn \cap Owned(r, p))) = {}
      BY <1>6, <1>7
    <3> QED
      BY <1>7, <3>2, <3>3
  <2> QED
    BY <2>1, <2>2
<1>9. MapsSound(t) /\ Tidy(t)
  <2>1. t.live \subseteq r.data \cap DOMAIN r.coord
    BY <1>5, <1>8 DEF MapsSound, LiveOnMap
  <2> QED
    BY <1>5, <1>8, <2>1, SteadyKeeps
<1>10. /\ t.patch = s.patch /\ t.held = s.held /\ t.at = s.at /\ t.tracked = s.tracked
       /\ t.paused = s.paused /\ t.index = s.index
  BY <1>5, <1>8 DEF Steady, SameMaps
<1>11. InUse(t) = InUse(s) \ A
  BY <1>5, <1>8 DEF InUse, Steady, SameMaps
<1>12. \A m : m # p => Mine(t, m) = Mine(s, m)
  <2>1. \A c \in DOMAIN s.index : t.index[c] \in t.retired <=> s.index[c] \in s.retired \/ c \in A
    BY <1>4, <1>5, <1>8, <1>10
  <2> QED
    BY <1>10, <2>1 DEF Mine, Sited, A
<1>13. LedgerOf(t, P \ {p}, P \ {p}, TRUE)
  <2>1. /\ InUse(s) = UNION {s.patch[q].data : q \in P}
        /\ \A q \in P : Mine(s, q) = s.patch[q].data
    BY DEF LedgerOf
  <2>2. s.patch[p].data \subseteq A /\ \A q \in P \ {p} : s.patch[q].data \cap A = {}
    BY <2>1 DEF A, Mine, Sited
  <2>3. InUse(t) = UNION {s.patch[q].data : q \in P \ {p}}
    <3>1. \A c : c \in InUse(t) <=> \E q \in P \ {p} : c \in s.patch[q].data
      BY <1>11, <2>1, <2>2
    <3> QED
      BY <3>1
  <2>4. \A q \in P \ {p} : Mine(t, q) = t.patch[q].data
    BY <1>10, <1>12, <2>1
  <2> QED
    BY <1>10, <2>3, <2>4 DEF LedgerOf
<1> QED
  BY <1>9, <1>10, <1>13 DEF Unmoved

\* What stands is read out at the end.
LEMMA ReadOutLedger ==
  ASSUME NEW s, Ready(s), DOMAIN s.paused = {}, NEW P, P \subseteq DOMAIN s.patch,
         LedgerOf(s, P, P, TRUE),
         NEW t, t = ApplyDataReadout(s, UNION {OwnedData(s, p) : p \in P})
  PROVE  /\ LedgerOf(t, P, P, FALSE) /\ Unmoved(s, t) /\ t.paused = s.paused
         /\ t.retired = s.retired
<1> DEFINE A == UNION {Sited(s, p) : p \in P}
           I == UNION {OwnedData(s, p) : p \in P}
           r == ApplyDataReadout(s, Idx(s, A))
<1>1. MapsSound(s) /\ Tidy(s) /\ A \in SUBSET DOMAIN s.index
  BY DEF Ready, Sited
<1>2. I = Idx(s, A)
  <2>1. \A p : OwnedData(s, p) = Idx(s, Sited(s, p))
    BY <1>1, CellsOf
  <2>2. \A i : i \in I <=> i \in Idx(s, A)
    BY <2>1 DEF Idx
  <2> QED
    BY <2>2
<1>3. t = r
  BY <1>2
<1>4. InUse(s) \subseteq A
  BY DEF LedgerOf, Mine
<1> HIDE DEF A, I
<1>5. /\ Steady(s, r) /\ MapsSound(r) /\ Tidy(r) /\ r.retired = s.retired
      /\ InUse(r) = InUse(s) \ A
  BY <1>1, ReadCells
<1> HIDE DEF r
<1>6. /\ r.patch = s.patch /\ r.held = s.held /\ r.at = s.at /\ r.tracked = s.tracked
      /\ r.paused = s.paused /\ \A m : Mine(r, m) = Mine(s, m)
  BY <1>5 DEF Steady, SameMaps, Mine, Sited
<1> QED
  BY <1>3, <1>4, <1>5, <1>6 DEF LedgerOf, Unmoved

-----------------------------------------------------------------------------
(* Lifetimes.                                                               *)

LEMMA GreatestOne ==
  ASSUME NEW N \in Nat, NEW S \in SUBSET (0 .. N), S # {}
  PROVE  \E m \in S : \A x \in S : m >= x
<1> DEFINE T == {N - x : x \in S}
<1>1. T \in SUBSET Nat /\ T # {}
  <2>1. ASSUME NEW x \in S PROVE N - x \in Nat
    <3>1. x \in 0 .. N
      OBVIOUS
    <3> QED
      BY <3>1
  <2> QED
    BY <2>1
<1>2. Min(T) \in T /\ \A x \in T : Min(T) <= x
  BY <1>1, LeastOne
<1>3. PICK m \in S : Min(T) = N - m
  BY <1>2
<1>4. ASSUME NEW x \in S PROVE m >= x
  <2>1. N - m <= N - x
    BY <1>2, <1>3
  <2> QED
    BY <2>1
<1> QED
  BY <1>4

LEMMA Ends ==
  ASSUME NEW p, UsesOf(p) # {}
  PROVE  /\ UsesOf(p) \subseteq 1 .. NSteps
         /\ FirstUse(p) \in UsesOf(p) /\ \A j \in UsesOf(p) : FirstUse(p) <= j
         /\ LastUse(p) \in UsesOf(p) /\ \A j \in UsesOf(p) : LastUse(p) >= j
<1> DEFINE S == UsesOf(p)
<1>1. S \subseteq 1 .. NSteps /\ NSteps \in Nat
  BY StepsAssumption DEF UsesOf
<1>2. FirstUse(p) = CHOOSE i \in S : \A j \in S : i <= j
  BY DEF FirstUse
<1>3. LastUse(p) = CHOOSE i \in S : \A j \in S : i >= j
  BY DEF LastUse
<1>4. S # {}
  OBVIOUS
<1> HIDE DEF S
<1>5. \E i \in S : \A j \in S : i <= j
  <2>1. S \in SUBSET Nat
    BY <1>1
  <2> QED
    BY <1>4, <2>1, LeastOne
<1>6. \E i \in S : \A j \in S : i >= j
  <2>1. S \in SUBSET (0 .. NSteps)
    BY <1>1
  <2> QED
    BY <1>1, <1>4, <2>1, GreatestOne
<1>7. FirstUse(p) \in S /\ \A j \in S : FirstUse(p) <= j
  BY <1>2, <1>5
<1>8. LastUse(p) \in S /\ \A j \in S : LastUse(p) >= j
  BY <1>3, <1>6
<1> QED
  BY <1>1, <1>7, <1>8 DEF S

\* Who is present at a step.
LEMMA Presence ==
  ASSUME NEW p \in Patches, NEW i \in 1 .. NSteps
  PROVE  /\ p \in UpFront => Begun(prog, i, p)
         /\ p \in Used => Lasting(prog, 1, p)
         /\ p \in Used /\ ~ Lazy(i) => Lasting(prog, i, p)
         /\ p \in Targets(i) => p \in Used /\ Begun(prog, i, p) /\ Lasting(prog, i, p)
<1>0. NSteps \in Nat
  BY StepsAssumption
<1>1. \A j \in 1 .. NSteps : j \in UsesOf(p) <=> UsedAt(prog, j, p)
  BY DEF UsesOf, UsedAt, Targets
<1>2. UsesOf(p) \subseteq 1 .. NSteps
  BY DEF UsesOf
<1>3. ASSUME p \in UpFront PROVE Begun(prog, i, p)
  <2>1. UsesOf(p) # {} /\ (~ prog.deferred \/ FirstUse(p) = 1)
    BY <1>3 DEF UpFront, Used
  <2>2. FirstUse(p) \in UsesOf(p)
    BY <2>1, Ends
  <2>3. UsedAt(prog, FirstUse(p), p) /\ FirstUse(p) \in 1 .. NSteps
    BY <1>1, <1>2, <2>2
  <2>4. FirstUse(p) \in 1 .. (IF prog.deferred THEN i ELSE NSteps)
    BY <1>0, <2>1, <2>3
  <2> QED
    BY <2>3, <2>4 DEF Begun
<1>4. ASSUME p \in Used PROVE Lasting(prog, 1, p)
  BY <1>1, <1>2, <1>4 DEF Lasting, Used
<1>5. ASSUME p \in Used, ~ Lazy(i) PROVE Lasting(prog, i, p)
  <2>1. CASE p \in prog.keep
    BY <2>1 DEF Lasting
  <2>2. CASE p \notin prog.keep
    <3>1. ~ (LastUse(p) < i) /\ UsesOf(p) # {}
      BY <1>5, <2>2 DEF Lazy, Used
    <3>2. LastUse(p) \in 1 .. NSteps /\ UsedAt(prog, LastUse(p), p)
      BY <1>1, <1>2, <3>1, Ends
    <3>3. LastUse(p) \in i .. NSteps
      BY <1>0, <3>1, <3>2
    <3> QED
      BY <3>2, <3>3 DEF Lasting
  <2> QED
    BY <2>1, <2>2
<1>6. ASSUME p \in Targets(i) PROVE p \in Used /\ Begun(prog, i, p) /\ Lasting(prog, i, p)
  <2>1. i \in UsesOf(p) /\ UsedAt(prog, i, p)
    BY <1>1, <1>6 DEF UsesOf
  <2>2. i \in 1 .. (IF prog.deferred THEN i ELSE NSteps) /\ i \in i .. NSteps
    BY <1>0
  <2> QED
    BY <2>1, <2>2 DEF Begun, Lasting, Used
<1> QED
  BY <1>3, <1>4, <1>5, <1>6

-----------------------------------------------------------------------------
(* What the invariants say of the state.                                    *)

LedgerNow == LedgerOf(sys, Standing, Standing \ newly, sys.tracked /\ phase # "done")

LEMMA Now ==
  ASSUME RegistryInv, LedgerInv, Ok(sys)
  PROVE  /\ Ready(sys) /\ Good(sys) /\ ControlSound /\ LedgerNow
         /\ Clear(prog) /\ Tidy(sys) /\ Books /\ Lifetimes /\ Layouts /\ OwnersHold
         /\ Standing \subseteq Used /\ Standing \subseteq DOMAIN sys.patch /\ Standing \subseteq Patches
         /\ DOMAIN sys.paused \subseteq DOMAIN sys.patch
         /\ step \in 1 .. NSteps
<1>1. /\ Ready(sys) /\ Good(sys) /\ ControlSound /\ step \in 1 .. NSteps
      /\ Clear(prog) /\ Tidy(sys) /\ Books /\ Lifetimes /\ Layouts /\ OwnersHold
  BY GoodNow DEF RegistryInv, ControlSound, LedgerInv, Ready, Good
<1>2. Standing \subseteq Used /\ Standing \subseteq DOMAIN sys.patch /\ Standing \subseteq Patches
  BY DEF Standing, Allocated, Used
<1>3. DOMAIN sys.paused \subseteq DOMAIN sys.patch
  <2>1. phase = "split" => step \in routes
    BY <1>1 DEF ControlSound
  <2>2. phase = "split" => Coupler[step] \in DOMAIN sys.patch
    BY <1>1, <2>1 DEF Layouts
  <2> QED
    BY <1>1, <2>2 DEF Books
<1>4. LedgerNow
  <2> DEFINE on == sys.tracked /\ phase # "done"
  <2>1. on \in BOOLEAN
    OBVIOUS
  <2>2. Exact(sys, Standing, Standing \ newly, on)
    BY DEF LedgerInv, LedgerExact, Exact
  <2> HIDE DEF on
  <2>3. MapsSound(sys) /\ Tidy(sys)
    BY <1>1 DEF Ready
  <2>4. LedgerOf(sys, Standing, Standing \ newly, on)
    BY <1>2, <1>3, <2>1, <2>2, <2>3, LedgerByCells
  <2> QED
    BY <2>4 DEF LedgerNow, on
<1> QED
  BY <1>1, <1>2, <1>3, <1>4

\* The tiles of the patches that stand, but for one under rotation.
LEMMA Tiles ==
  ASSUME Layouts, phase # "rotate"
  PROVE  /\ \A p \in Allocated : sys.patch[p].data = Tile(p)
         /\ \A p \in Patches : \A c \in Tile(p) : DataSite(c)
<1>1. ASSUME NEW p \in Patches
      PROVE  /\ Start(Home[p]).data = Tile(p) /\ Shrunk(Home[p]).data = Tile(p)
             /\ \A c \in Tile(p) : DataSite(c)
  BY HomeAssumption, LayoutsParted DEF Tile
<1>2. ASSUME NEW p \in Allocated PROVE sys.patch[p].data = Tile(p)
  <2>1. p \in Patches /\ sys.patch[p] \in {Start(Home[p]), Shrunk(Home[p])}
    BY DEF Layouts, LayoutsOf, Allocated, Used
  <2> QED
    BY <1>1, <2>1
<1> QED
  BY <1>1, <1>2

\* What is present together is apart.
LEMMA Apart ==
  ASSUME Clear(prog), NEW i \in 1 .. NSteps
  PROVE  /\ \A p, q \in Patches :
              p # q /\ Present(prog, i, p) /\ Present(prog, i, q) => Tile(p) \cap Tile(q) = {}
         /\ \A T \in DOMAIN prog.steps[i].route :
              LET g == prog.steps[i].route[T]
              IN  /\ g.data = {c \in g.cells : DataSite(c)}
                  /\ \A p \in Patches : Present(prog, i, p) => g.data \cap Tile(p) = {}
  BY DEF Clear

\* The other way: the ledgers by cells are the ledgers.
LEMMA Closing ==
  ASSUME RegistryInv', Clear(prog)',
         Ok(sys)' => Tidy(sys)' /\ Books' /\ Lifetimes' /\ Layouts' /\ OwnersHold' /\ LedgerNow'
  PROVE  LedgerInv'
<1>1. ASSUME Ok(sys)' PROVE LedgerExact'
  <2> DEFINE P == Standing'
             R == (Standing \ newly)'
             on == (sys.tracked /\ phase # "done")'
  <2>1. on \in BOOLEAN
    OBVIOUS
  <2>2. MapsSound(sys') /\ Tidy(sys') /\ Books' /\ Layouts' /\ ControlSound' /\ LedgerNow'
    BY <1>1 DEF RegistryInv
  <2>3. P \subseteq DOMAIN sys'.patch /\ R \subseteq P
    BY DEF Standing, Allocated
  <2>4. DOMAIN sys'.paused \subseteq DOMAIN sys'.patch
    <3>1. phase' = "split" => step' \in routes'
      BY <1>1, <2>2 DEF ControlSound
    <3>2. phase' = "split" => Coupler[step'] \in DOMAIN sys'.patch
      BY <2>2, <3>1 DEF Layouts
    <3> QED
      BY <2>2, <3>2 DEF Books
  <2>5. LedgerOf(sys', P, R, on)
    BY <2>2 DEF LedgerNow
  <2> HIDE DEF P, R, on
  <2>6. Exact(sys', P, R, on)
    BY <2>1, <2>2, <2>3, <2>4, <2>5, LedgerByCells
  <2> QED
    BY <2>6 DEF LedgerExact, Exact, P, R, on
<1>2. ~ Ok(sys)' => LedgerExact'
  BY DEF LedgerExact
<1> QED
  BY <1>1, <1>2 DEF LedgerInv

-----------------------------------------------------------------------------
(* The steps.                                                               *)

LedgerState == Tidy(sys) /\ Books /\ Lifetimes /\ Layouts /\ OwnersHold /\ LedgerNow

LEMMA ProgSame ==
  ASSUME UNCHANGED prog
  PROVE  /\ Used' = Used /\ UpFront' = UpFront
         /\ \A i : Targets(i)' = Targets(i)
         /\ \A p : UsesOf(p)' = UsesOf(p)
         /\ \A i, p : MayTurn(i, p)' <=> MayTurn(i, p)
         /\ \A j : (Waits(j)' <=> Waits(j)) /\ (MayGo(j)' <=> MayGo(j))
         /\ BarsClear' <=> BarsClear
<1>1. \A i : Targets(i)' = Targets(i)
  BY DEF Targets
<1>2. \A p : UsesOf(p)' = UsesOf(p)
  BY <1>1 DEF UsesOf
<1>3. Used' = Used
  BY <1>2 DEF Used
<1>4. \A p : FirstUse(p)' = FirstUse(p) /\ LastUse(p)' = LastUse(p)
  BY <1>2 DEF FirstUse, LastUse
<1>5. UpFront' = UpFront
  BY <1>3, <1>4 DEF UpFront
<1>6. \A i, p : MayTurn(i, p)' <=> MayTurn(i, p)
  BY <1>1 DEF MayTurn
<1>7. \A j : Lazy(j)' <=> Lazy(j)
  BY <1>3, <1>4 DEF Lazy
<1>8. \A j : Waits(j)' <=> Waits(j)
  BY <1>1, <1>5, <1>7 DEF Waits
<1>9. \A j : MayGo(j)' <=> MayGo(j)
  BY <1>1, <1>6, <1>8 DEF MayGo
<1>10. BarsClear' <=> BarsClear
  BY <1>6, <1>9 DEF BarsClear
<1> QED
  BY <1>1, <1>2, <1>3, <1>5, <1>6, <1>8, <1>9, <1>10

LEMMA OwnersStay ==
  ASSUME OwnersHold, UNCHANGED prog, routes' \subseteq routes, sys'.held = sys.held,
         sys'.at = sys.at, \A j \in routes' : Dormant(j)' => Dormant(j), phase # "rotate"
  PROVE  OwnersHold'
<1>1. \A j : MayGo(j)' <=> MayGo(j)
  BY ProgSame
<1>2. BarsClear' <=> BarsClear
  BY ProgSame
<1> SUFFICES ASSUME BarsClear', NEW j \in routes', Dormant(j)', MayGo(j)',
                    NEW c \in DOMAIN sys'.held[Coupler[j]]
             PROVE  sys'.at[c] \in DOMAIN sys'.held /\ c \in DOMAIN sys'.held[sys'.at[c]]
  BY DEF OwnersHold
<1> QED
  BY <1>1, <1>2 DEF OwnersHold

LEMMA LayoutsStay ==
  ASSUME Layouts, UNCHANGED <<prog, turned>>, routes' \subseteq routes, sys'.patch = sys.patch,
         \A j \in routes' : Dormant(j)' => Dormant(j),
         phase \notin {"rotate", "rotated"}, phase' \notin {"rotate", "rotated"}
  PROVE  Layouts' /\ Allocated' = Allocated
<1>1. Used' = Used /\ \A j : Waits(j)' <=> Waits(j)
  BY ProgSame
<1>2. Allocated' = Allocated
  BY <1>1 DEF Allocated
<1>3. \A p : LayoutsOf(p)' = LayoutsOf(p)
  BY DEF LayoutsOf
<1>4. \A p \in Allocated' : sys'.patch[p] \in LayoutsOf(p)'
  BY <1>2, <1>3 DEF Layouts
<1>5. ASSUME NEW j \in routes'
      PROVE  LET route == prog'.steps[j].route
             IN  /\ Coupler[j] \in DOMAIN sys'.patch
                 /\ \E T \in DOMAIN route : sys'.patch[Coupler[j]] = route[T]
                 /\ Dormant(j)' => Waits(j)' /\ sys'.patch[Coupler[j]] = route[{}]
  BY <1>1 DEF Layouts
<1> QED
  BY <1>2, <1>4, <1>5 DEF Layouts

LEMMA LifetimesStay ==
  ASSUME Lifetimes, UNCHANGED <<prog, step>>, measured' = measured, Allocated \subseteq Allocated',
         Leaving => Leaving', ~ Early' => ~ Early /\ Standing' \subseteq Standing
  PROVE  Lifetimes'
<1>1. \A p : UsesOf(p)' = UsesOf(p)
  BY ProgSame
<1>2. measured' \subseteq Allocated'
  BY DEF Lifetimes
<1>3. \A p \in measured' : \A i \in UsesOf(p)' : i <= step' /\ (i = step' => Leaving')
  BY <1>1 DEF Lifetimes
<1>4. ~ Early' => \A p \in Standing' : Begun(prog', step', p) /\ (Leaving' \/ Lasting(prog', step', p))
  BY DEF Lifetimes
<1> QED
  BY <1>2, <1>3, <1>4 DEF Lifetimes

\* Without a tracker nothing is in use, whatever is said to be.
LEMMA LedgerOff ==
  ASSUME NEW s, NEW P, NEW R, NEW Q, NEW on, ~ on, LedgerOf(s, P, R, on)
  PROVE  LedgerOf(s, P, Q, on)
  BY DEF LedgerOf

LEMMA LedgerOn ==
  ASSUME NEW s, NEW P, NEW R, NEW on, NEW of, on <=> of, LedgerOf(s, P, R, on)
  PROVE  LedgerOf(s, P, R, of)
  BY DEF LedgerOf

\* A name is added; nothing turns.
LEMMA OwnersPlaced ==
  ASSUME OwnersHold, MapsSound(sys), UNCHANGED prog, NEW n, n \notin DOMAIN sys.held,
         NEW g, Placed(sys, sys', n, g),
         \A j \in routes' : (j \in routes /\ Coupler[j] \in DOMAIN sys.held) \/ Coupler[j] = n,
         \A j : Dormant(j)' => Dormant(j), phase # "rotate"
  PROVE  OwnersHold'
<1>1. \A j : MayGo(j)' <=> MayGo(j)
  BY ProgSame
<1>2. BarsClear' <=> BarsClear
  BY ProgSame
<1> SUFFICES ASSUME BarsClear', NEW j \in routes', Dormant(j)', MayGo(j)',
                    NEW c \in DOMAIN sys'.held[Coupler[j]]
             PROVE  sys'.at[c] \in DOMAIN sys'.held /\ c \in DOMAIN sys'.held[sys'.at[c]]
  BY DEF OwnersHold
<1>3. /\ DOMAIN sys'.index = g.cells \cup DOMAIN sys.index
      /\ DOMAIN sys'.at = DOMAIN sys'.index
      /\ \A d \in DOMAIN sys'.at : sys'.at[d] = IF d \in g.cells THEN n ELSE sys.at[d]
      /\ DOMAIN sys'.held = DOMAIN sys.held \cup {n} /\ DOMAIN sys'.held[n] = g.cells
      /\ \A m \in DOMAIN sys.held \ {n} : sys'.held[m] = sys.held[m]
  BY DEF Placed
<1>4. CASE c \in g.cells
  BY <1>3, <1>4
<1>5. CASE c \notin g.cells
  <2>1. j \in routes /\ Coupler[j] \in DOMAIN sys.held /\ Coupler[j] # n
    BY <1>3, <1>5
  <2>2. sys'.held[Coupler[j]] = sys.held[Coupler[j]]
    BY <1>3, <2>1
  <2>3. c \in DOMAIN sys.index
    BY <2>1, <2>2 DEF MapsSound, HeldOnMap
  <2>4. sys'.at[c] = sys.at[c]
    BY <1>3, <1>5, <2>3
  <2>5. sys.at[c] \in DOMAIN sys.held /\ c \in DOMAIN sys.held[sys.at[c]]
    BY <1>1, <1>2, <2>1, <2>2 DEF OwnersHold
  <2> QED
    BY <1>3, <2>4, <2>5
<1> QED
  BY <1>4, <1>5

\* A patch is allocated among patches that are present with it.
LEMMA AllocLedger ==
  ASSUME RegistryInv, LedgerInv, Ok(sys), phase # "rotate",
         NEW p \in Used, p \notin Allocated, NEW i \in 1 .. NSteps,
         Present(prog, i, p), \A q \in Standing : Present(prog, i, q),
         NEW t, t = Alloc(p), Ok(t)
  PROVE  Added(sys, t, p, Start(Home[p]), Standing, Standing \ newly,
               sys.tracked /\ phase # "done")
<1> DEFINE g == Start(Home[p])
           on == sys.tracked /\ phase # "done"
           R == Standing \ newly
<1>1. /\ Ready(sys) /\ LedgerOf(sys, Standing, R, on) /\ Layouts /\ Clear(prog)
      /\ Standing \subseteq DOMAIN sys.patch /\ Standing \subseteq Patches
      /\ DOMAIN sys.paused \subseteq DOMAIN sys.patch
  BY Now DEF LedgerNow
<1>2. p \in Patches /\ p # Nobody /\ p \notin DOMAIN sys.patch
  BY NamesAssumption DEF Used, Allocated
<1>3. Parted(g) /\ g.data = Tile(p)
  BY <1>2, HomeAssumption, LayoutsParted DEF Tile
<1>4. ASSUME NEW q \in Standing PROVE sys.patch[q].data \cap g.cells = {}
  <2>1. q \in Patches /\ q # p /\ q \in Allocated
    BY <1>1, <1>2 DEF Standing
  <2>2. sys.patch[q].data = Tile(q) /\ \A c \in Tile(q) : DataSite(c)
    BY <1>1, <2>1, Tiles
  <2>3. Tile(p) \cap Tile(q) = {}
    BY <1>1, <1>2, <2>1, Apart
  <2> QED
    BY <1>3, <2>2, <2>3 DEF Parted
<1>5. t = AddPatch(sys, p, g, TRUE)
  BY DEF Alloc
<1>6. R \subseteq Standing
  OBVIOUS
<1> HIDE DEF g, on, R
<1>7. Added(sys, t, p, g, Standing, R, on)
  BY <1>1, <1>2, <1>3, <1>4, <1>5, <1>6, AddLedger
<1> QED
  BY <1>7 DEF g, on, R

\* The layouts when a patch has been allocated at its home.
LEMMA AllocLayouts ==
  ASSUME RegistryInv, LedgerInv, Ok(sys), NEW p \in Used, p \notin Allocated,
         sys'.patch[p] = Start(Home[p]), DOMAIN sys'.patch = DOMAIN sys.patch \cup {p},
         \A m \in DOMAIN sys.patch : sys'.patch[m] = sys.patch[m],
         UNCHANGED <<prog, step, phase, routes, turned, moving>>,
         phase \notin {"rotate", "rotated"}
  PROVE  Layouts' /\ Allocated' = Allocated \cup {p}
<1>1. Used' = Used /\ \A j : Waits(j)' <=> Waits(j)
  BY ProgSame
<1>2. Allocated' = Allocated \cup {p}
  BY <1>1 DEF Allocated
<1>3. Layouts /\ Books
  BY Now
<1>4. \A q : LayoutsOf(q)' = LayoutsOf(q)
  BY DEF LayoutsOf
<1>5. sys'.patch[p] \in LayoutsOf(p)'
  <2>1. p \notin turned
    BY <1>3 DEF Books
  <2> QED
    BY <2>1 DEF LayoutsOf
<1>6. \A q \in Allocated : sys'.patch[q] \in LayoutsOf(q)'
  BY <1>3, <1>4 DEF Layouts, Allocated
<1>7. \A j : Dormant(j)' <=> Dormant(j)
  BY DEF Dormant, Early
<1>8. ASSUME NEW j \in routes'
      PROVE  LET route == prog'.steps[j].route
             IN  /\ Coupler[j] \in DOMAIN sys'.patch
                 /\ \E T \in DOMAIN route : sys'.patch[Coupler[j]] = route[T]
                 /\ Dormant(j)' => Waits(j)' /\ sys'.patch[Coupler[j]] = route[{}]
  BY <1>1, <1>3, <1>7 DEF Layouts
<1> QED
  BY <1>2, <1>5, <1>6, <1>8 DEF Layouts

LEMMA DormantSame ==
  ASSUME UNCHANGED <<step, phase>>
  PROVE  \A j : Dormant(j)' <=> Dormant(j)
  BY DEF Dormant, Early

\* What is registered for a later step.
LEMMA RoutesHeld ==
  ASSUME RegistryInv, LedgerInv, Ok(sys)
  PROVE  /\ \A j \in routes : j \in 1 .. NSteps /\ Coupler[j] \in DOMAIN sys.held
                              /\ Coupler[j] \notin Patches
         /\ DOMAIN sys.held = DOMAIN sys.patch
<1>1. ControlSound /\ DOMAIN sys.held = DOMAIN sys.patch
  BY GoodNow DEF RegistryInv
<1> QED
  BY <1>1, NamesAssumption DEF ControlSound

LEMMA StepAllocate ==
  ASSUME RegistryInv, LedgerInv, AllocateUpFront \/ AllocateFirstUsed, Ok(sys)'
  PROVE  LedgerState'
<1>1. /\ Ok(sys) /\ UNCHANGED <<prog, step, phase, routes, turned, moving, measured>>
      /\ phase \in {"up front", "bring in"}
  BY DEF AllocateUpFront, AllocateFirstUsed, Go
<1>2. /\ Ready(sys) /\ LedgerNow /\ Layouts /\ Books /\ Lifetimes /\ OwnersHold
      /\ Standing \subseteq Patches /\ Standing \subseteq Used
      /\ step \in 1 .. NSteps
  BY <1>1, Now
<1>3. ASSUME NEW p \in Used, p \notin Allocated, sys' = Alloc(p),
             NEW i \in 1 .. NSteps, Present(prog, i, p), \A q \in Standing : Present(prog, i, q),
             newly' = IF phase = "up front" THEN newly ELSE newly \cup {p},
             Early => p \in UpFront, ~ Early => p \in Targets(step) /\ i = step
      PROVE  LedgerState'
  <2> DEFINE g == Start(Home[p])
  <2>1. /\ p \notin DOMAIN sys.patch /\ Placed(sys, sys', p, g)
        /\ LedgerOf(sys', Standing \cup {p}, Standing \ newly, sys.tracked /\ phase # "done")
        /\ Whole(sys', p) /\ \A m : Whole(sys, m) => Whole(sys', m)
        /\ sys'.patch[p] = g /\ DOMAIN sys'.patch = DOMAIN sys.patch \cup {p}
        /\ \A m \in DOMAIN sys.patch : sys'.patch[m] = sys.patch[m]
    <3>1. Added(sys, sys', p, g, Standing, Standing \ newly, sys.tracked /\ phase # "done")
      BY <1>1, <1>3, AllocLedger
    <3> QED
      BY <3>1 DEF Added
  <2> HIDE DEF g
  <2>2. /\ MapsSound(sys') /\ Tidy(sys') /\ sys'.tracked = sys.tracked
        /\ sys'.paused = sys.paused /\ sys'.retired \subseteq sys.retired
    BY <2>1 DEF Placed
  <2>3. Layouts' /\ Allocated' = Allocated \cup {p}
    BY <1>1, <1>3, <2>1, AllocLayouts DEF g
  <2>4. p \notin measured /\ Standing' = Standing \cup {p}
    BY <1>1, <1>2, <1>3, <2>3 DEF Lifetimes, Standing
  <2>5. Tidy(sys)'
    BY <2>2
  <2>6. OwnersHold'
    <3>1. p \notin DOMAIN sys.held /\ MapsSound(sys)
      BY <1>1, <1>2, <2>1, RoutesHeld DEF Ready
    <3> QED
      BY <1>1, <1>2, <2>1, <3>1, RoutesHeld, DormantSame, OwnersPlaced
  <2>7. LedgerNow'
    <3>1. CASE phase = "up front"
      <4>1. ~ (sys.tracked /\ phase # "done")
        BY <1>2, <3>1 DEF Books, Early
      <4>2. LedgerOf(sys', Standing', (Standing \ newly)', sys.tracked /\ phase # "done")
        BY <2>1, <2>4, <4>1, LedgerOff
      <4> QED
        BY <1>1, <2>2, <4>2 DEF LedgerNow
    <3>2. CASE phase # "up front"
      <4>1. (Standing \ newly)' = Standing \ newly
        BY <1>3, <2>4, <3>2 DEF Standing
      <4> QED
        BY <1>1, <2>1, <2>2, <2>4, <4>1 DEF LedgerNow
    <3> QED
      BY <3>1, <3>2
  <2>8. Lifetimes'
    <3>1. \A q : UsesOf(q)' = UsesOf(q)
      BY <1>1, ProgSame
    <3>2. Leaving' <=> Leaving
      BY <1>1 DEF Leaving
    <3>3. measured' \subseteq Allocated'
      BY <1>1, <1>2, <2>3 DEF Lifetimes
    <3>4. \A q \in measured' : \A k \in UsesOf(q)' : k <= step' /\ (k = step' => Leaving')
      BY <1>1, <1>2, <3>1, <3>2 DEF Lifetimes
    <3>5. ~ Early' => \A q \in Standing' : /\ Begun(prog', step', q)
                                           /\ Leaving' \/ Lasting(prog', step', q)
      BY <1>1, <1>2, <1>3, <2>4, <3>2 DEF Lifetimes, Early, Present
    <3> QED
      BY <3>3, <3>4, <3>5 DEF Lifetimes
  <2>9. Books'
    <3>1. /\ Early' <=> Early
          /\ UpFront' = UpFront /\ Targets(step)' = Targets(step)
      BY <1>1, ProgSame DEF Early, Targets
    <3>2. ASSUME NEW q \in newly' PROVE OwnedData(sys, q)' \cap sys'.retired = {}
      <4>1. Whole(sys', q)
        <5>1. CASE q = p
          BY <2>1, <5>1
        <5>2. CASE q # p
          <6>1. q \in newly
            BY <1>3, <3>2, <5>2
          <6>2. Whole(sys, q)
            BY <1>2, <6>1, WholeIs DEF Books, Ready
          <6> QED
            BY <2>1, <6>2
        <5> QED
          BY <5>1, <5>2
      <4> QED
        BY <2>2, <4>1, WholeIs
    <3>3. newly' \subseteq Standing' \cap Targets(step)' /\ (newly' # {} => phase' = "bring in")
      <4>1. newly \subseteq Standing /\ newly \subseteq Targets(step)
        BY <1>2 DEF Books
      <4>2. CASE phase = "up front"
        BY <1>1, <1>2, <1>3, <4>2 DEF Books, Early
      <4>3. CASE phase # "up front"
        <5>1. phase = "bring in" /\ newly' = newly \cup {p} /\ ~ Early
          BY <1>1, <1>3, <4>3 DEF Early
        <5>2. p \in Targets(step)
          BY <1>3, <5>1
        <5>3. newly' \subseteq Standing'
          BY <2>4, <4>1, <5>1
        <5>4. newly' \subseteq Targets(step)'
          BY <3>1, <4>1, <5>1, <5>2
        <5>5. phase' = "bring in"
          BY <1>1, <5>1
        <5> QED
          BY <5>3, <5>4, <5>5
      <4> QED
        BY <4>2, <4>3
    <3>4. Early' => newly' = {} /\ Allocated' \subseteq UpFront' /\ sys'.retired = {}
      BY <1>1, <1>2, <1>3, <2>2, <2>3, <3>1 DEF Books, Early
    <3> QED
      BY <1>1, <1>2, <2>2, <2>3, <3>1, <3>2, <3>3, <3>4 DEF Books, Early
  <2> QED
    BY <2>3, <2>5, <2>6, <2>7, <2>8, <2>9 DEF LedgerState
<1>4. CASE AllocateUpFront
  <2>1. PICK p \in UpFront \ Allocated : sys' = Alloc(p)
    BY <1>4 DEF AllocateUpFront
  <2>2. phase = "up front" /\ newly' = newly /\ Early
    BY <1>4 DEF AllocateUpFront, Go, Early
  <2>3. 1 \in 1 .. NSteps
    BY StepsAssumption
  <2>4. Allocated \subseteq UpFront
    BY <1>2, <2>2 DEF Books
  <2>5. \A q \in UpFront : Present(prog, 1, q)
    BY <2>3, Presence DEF UpFront, Used, Present
  <2>6. p \in Used /\ \A q \in Standing : q \in UpFront
    BY <2>4 DEF UpFront, Standing
  <2> QED
    BY <1>3, <2>1, <2>2, <2>3, <2>5, <2>6
<1>5. CASE AllocateFirstUsed
  <2>1. PICK p \in Targets(step) \ Allocated : sys' = Alloc(p) /\ newly' = newly \cup {p}
    BY <1>5 DEF AllocateFirstUsed
  <2>2. phase = "bring in" /\ ~ Early /\ ~ Leaving
    BY <1>5 DEF AllocateFirstUsed, Go, Early, Leaving
  <2>3. p \in Patches
    BY TargetsArePatches DEF RegistryInv
  <2>4. p \in Used /\ Present(prog, step, p)
    BY <1>2, <2>1, <2>3, Presence DEF Present
  <2>5. \A q \in Standing : Present(prog, step, q)
    BY <1>2, <2>2 DEF Lifetimes, Present
  <2> QED
    BY <1>2, <1>3, <2>1, <2>2, <2>4, <2>5
<1> QED
  BY <1>4, <1>5

\* The coupler of a step is registered among patches that are present at it.
LEMMA CouplerLedger ==
  ASSUME RegistryInv, LedgerInv, Ok(sys), phase # "rotate", \A q \in Standing : Present(prog, step, q),
         NEW T \in DOMAIN prog.steps[step].route, NEW g, g = prog.steps[step].route[T],
         NEW t, t = RegisterCoupler(sys, Coupler[step], g), Ok(t)
  PROVE  Added(sys, t, Coupler[step], g, Standing, Standing \ newly, sys.tracked /\ phase # "done")
<1> DEFINE on == sys.tracked /\ phase # "done"
           R == Standing \ newly
           n == Coupler[step]
<1>1. /\ Ready(sys) /\ LedgerOf(sys, Standing, R, on) /\ Layouts /\ Clear(prog) /\ ControlSound
      /\ Standing \subseteq DOMAIN sys.patch /\ Standing \subseteq Patches
      /\ DOMAIN sys.paused \subseteq DOMAIN sys.patch /\ step \in 1 .. NSteps
  BY Now DEF LedgerNow
<1>2. n # Nobody
  BY <1>1, NamesAssumption
<1>3. Parted(g)
  <2>1. Geometry(g)
    BY <1>1 DEF ControlSound, Legal
  <2> QED
    BY <1>1, <2>1, Apart DEF Parted
<1>4. ASSUME NEW q \in Standing PROVE sys.patch[q].data \cap g.cells = {}
  <2>1. q \in Patches /\ q \in Allocated
    BY <1>1 DEF Standing
  <2>2. sys.patch[q].data = Tile(q) /\ \A c \in Tile(q) : DataSite(c)
    BY <1>1, <2>1, Tiles
  <2>3. g.data \cap Tile(q) = {}
    BY <1>1, <2>1, Apart
  <2> QED
    BY <1>3, <2>2, <2>3 DEF Parted
<1>5. t = AddPatch(sys, n, g, FALSE)
  BY DEF RegisterCoupler
<1>6. R \subseteq Standing
  OBVIOUS
<1> HIDE DEF on, R, n
<1>7. Added(sys, t, n, g, Standing, R, on)
  BY <1>1, <1>2, <1>3, <1>4, <1>5, <1>6, AddLedger
<1> QED
  BY <1>7 DEF on, R, n

\* The layouts when a coupler has been registered.
LEMMA CouplerLayouts ==
  ASSUME RegistryInv, LedgerInv, Ok(sys), UNCHANGED <<prog, turned>>,
         phase \notin {"rotate", "rotated"}, phase' \notin {"rotate", "rotated"},
         NEW i \in 1 .. NSteps, NEW T \in DOMAIN prog.steps[i].route,
         Coupler[i] \notin DOMAIN sys.patch,
         sys'.patch[Coupler[i]] = prog.steps[i].route[T],
         DOMAIN sys'.patch = DOMAIN sys.patch \cup {Coupler[i]},
         \A m \in DOMAIN sys.patch : sys'.patch[m] = sys.patch[m],
         routes' = routes \cup {i},
         \A j : Dormant(j)' => Dormant(j), Dormant(i)' => T = {} /\ Waits(i)
  PROVE  Layouts' /\ Allocated' = Allocated
<1>1. Used' = Used /\ \A j : Waits(j)' <=> Waits(j)
  BY ProgSame
<1>2. Coupler[i] \notin Used
  BY NamesAssumption DEF Used
<1>3. Allocated' = Allocated
  BY <1>1, <1>2 DEF Allocated
<1>4. Layouts
  BY Now
<1>5. \A p : LayoutsOf(p)' = LayoutsOf(p)
  BY DEF LayoutsOf
<1>6. \A p \in Allocated' : sys'.patch[p] \in LayoutsOf(p)'
  BY <1>3, <1>4, <1>5 DEF Layouts, Allocated
<1>7. ASSUME NEW j \in routes'
      PROVE  LET route == prog'.steps[j].route
             IN  /\ Coupler[j] \in DOMAIN sys'.patch
                 /\ \E U \in DOMAIN route : sys'.patch[Coupler[j]] = route[U]
                 /\ Dormant(j)' => Waits(j)' /\ sys'.patch[Coupler[j]] = route[{}]
  <2>1. CASE j = i
    BY <1>1, <2>1
  <2>2. CASE j # i
    <3>1. j \in routes
      BY <2>2
    <3>2. /\ Coupler[j] \in DOMAIN sys.patch
          /\ \E U \in DOMAIN prog.steps[j].route : sys.patch[Coupler[j]] = prog.steps[j].route[U]
          /\ Dormant(j) => Waits(j) /\ sys.patch[Coupler[j]] = prog.steps[j].route[{}]
      BY <1>4, <3>1 DEF Layouts
    <3>3. Coupler[j] \in DOMAIN sys'.patch /\ sys'.patch[Coupler[j]] = sys.patch[Coupler[j]]
      BY <3>2
    <3>4. Dormant(j)' => Waits(j)' /\ sys'.patch[Coupler[j]] = prog.steps[j].route[{}]
      BY <1>1, <3>2, <3>3
    <3> QED
      BY <3>2, <3>3, <3>4
  <2> QED
    BY <2>1, <2>2
<1> QED
  BY <1>3, <1>6, <1>7 DEF Layouts

LEMMA StepRegisterUpFront ==
  ASSUME RegistryInv, LedgerInv, RegisterUpFront, Ok(sys)'
  PROVE  LedgerState'
<1>1. /\ Ok(sys) /\ UNCHANGED <<prog, turned, moving, newly, measured>>
      /\ phase = "up front" /\ phase' \in {"up front", "set up"}
      /\ phase' = "set up" => step' = 1
      /\ UpFront \subseteq Allocated
  BY DEF RegisterUpFront, Go
<1>2. /\ Ready(sys) /\ LedgerNow /\ Layouts /\ Books /\ Lifetimes /\ OwnersHold
      /\ Standing \subseteq Patches /\ Standing \subseteq DOMAIN sys.patch /\ Tidy(sys)
      /\ step \in 1 .. NSteps /\ DOMAIN sys.held = DOMAIN sys.patch
  BY <1>1, Now, RoutesHeld
<1>3. /\ Early /\ Early' /\ ~ Leaving /\ ~ Leaving'
      /\ ~ sys.tracked /\ sys.retired = {} /\ measured = {} /\ turned = {} /\ newly = {}
      /\ Allocated \subseteq UpFront
  BY <1>1, <1>2 DEF Books, Early, Leaving
<1>4. UpFront' = UpFront /\ Standing = Allocated
  BY <1>1, <1>3, ProgSame DEF Standing
<1>5. \A j : Dormant(j)' => Dormant(j)
  BY <1>3 DEF Dormant
<1>6. ASSUME Layouts', OwnersHold', Tidy(sys'), Allocated' = Allocated, sys'.tracked = sys.tracked,
             sys'.paused = sys.paused, sys'.retired \subseteq sys.retired,
             LedgerOf(sys', Standing, Standing \ newly, sys.tracked /\ phase # "done")
      PROVE  LedgerState'
  <2>1. Standing' = Standing
    BY <1>1, <1>6 DEF Standing
  <2>2. LedgerNow'
    <3>1. (sys.tracked /\ phase # "done")' <=> (sys.tracked /\ phase # "done")
      BY <1>3, <1>6
    <3> QED
      BY <1>1, <1>6, <2>1, <3>1, LedgerOn DEF LedgerNow
  <2>3. Books'
    BY <1>1, <1>2, <1>3, <1>4, <1>6 DEF Books
  <2>4. Lifetimes'
    BY <1>1, <1>3 DEF Lifetimes
  <2> QED
    BY <1>6, <2>2, <2>3, <2>4 DEF LedgerState
<1>7. CASE UNCHANGED <<sys, routes>>
  <2>1. OwnersHold'
    BY <1>1, <1>2, <1>5, <1>7, OwnersStay
  <2>2. Layouts' /\ Allocated' = Allocated
    BY <1>1, <1>2, <1>5, <1>7, LayoutsStay
  <2>3. LedgerOf(sys', Standing, Standing \ newly, sys.tracked /\ phase # "done")
    BY <1>2, <1>7 DEF LedgerNow
  <2> QED
    BY <1>2, <1>6, <1>7, <2>1, <2>2, <2>3
<1>8. CASE ~ UNCHANGED <<sys, routes>>
  <2> DEFINE g == RouteOf(step)
             n == Coupler[step]
  <2>1. /\ ~ Lazy(step) /\ Targets(step) \subseteq Allocated /\ Fits(step)
        /\ sys' = RegisterCoupler(sys, n, g) /\ routes' = routes \cup {step}
    BY <1>8 DEF RegisterUpFront
  <2>2. {} \in DOMAIN prog.steps[step].route /\ g = prog.steps[step].route[{}]
    <3>1. turned \cap Targets(step) = {}
      BY <1>3
    <3> QED
      BY <2>1, <3>1 DEF Fits, RouteOf
  <2>3. ASSUME NEW q \in Standing PROVE Present(prog, step, q)
    BY <1>2, <1>3, <1>4, <2>1, Presence DEF Present, UpFront
  <2> HIDE DEF g, n
  <2>4. Added(sys, sys', n, g, Standing, Standing \ newly, sys.tracked /\ phase # "done")
    BY <1>1, <2>1, <2>2, <2>3, CouplerLedger DEF n
  <2>5. /\ n \notin DOMAIN sys.patch /\ Placed(sys, sys', n, g)
        /\ LedgerOf(sys', Standing \cup {n}, Standing \ newly, sys.tracked /\ phase # "done")
        /\ sys'.patch[n] = g /\ DOMAIN sys'.patch = DOMAIN sys.patch \cup {n}
        /\ \A m \in DOMAIN sys.patch : sys'.patch[m] = sys.patch[m]
    BY <2>4 DEF Added
  <2>6. /\ Tidy(sys') /\ sys'.tracked = sys.tracked
        /\ sys'.paused = sys.paused /\ sys'.retired \subseteq sys.retired
    BY <2>5 DEF Placed
  <2>7. LedgerOf(sys', Standing, Standing \ newly, sys.tracked /\ phase # "done")
    BY <2>5, LedgerFewer
  <2>8. Waits(step)
    BY <1>3, <2>1, <2>2 DEF Waits
  <2>9. Layouts' /\ Allocated' = Allocated
    BY <1>1, <1>2, <1>5, <2>1, <2>2, <2>5, <2>8, CouplerLayouts DEF n
  <2>10. OwnersHold'
    <3>1. \A j \in routes' : (j \in routes /\ Coupler[j] \in DOMAIN sys.held) \/ Coupler[j] = n
      BY <1>1, <2>1, RoutesHeld DEF n
    <3> QED
      BY <1>1, <1>2, <1>5, <2>5, <3>1, OwnersPlaced DEF Ready
  <2> QED
    BY <1>6, <2>6, <2>7, <2>9, <2>10
<1> QED
  BY <1>7, <1>8

LEMMA StepSetUp ==
  ASSUME RegistryInv, LedgerInv, SetUp, Ok(sys)'
  PROVE  LedgerState'
<1> DEFINE s == WriteCoordinates([sys EXCEPT !.tracked = TRUE])
<1>1. /\ Ok(sys) /\ UNCHANGED <<prog, step, routes, turned, moving, newly, measured>>
      /\ phase = "set up" /\ phase' = "bring in" /\ sys' = InitAndBaseline(s, UpFront)
  BY DEF SetUp, Go
<1>2. /\ Ready(sys) /\ LedgerNow /\ Layouts /\ Books /\ Lifetimes /\ OwnersHold
      /\ Standing \subseteq Patches /\ Standing \subseteq DOMAIN sys.patch /\ Tidy(sys)
      /\ step \in 1 .. NSteps
  BY <1>1, Now
<1>3. /\ Early /\ ~ Early' /\ ~ Leaving /\ ~ Leaving' /\ step = 1
      /\ ~ sys.tracked /\ sys.retired = {} /\ measured = {} /\ turned = {} /\ newly = {}
      /\ Allocated = UpFront /\ DOMAIN sys.paused = {}
  BY <1>1, <1>2 DEF Books, Early, Leaving
<1>4. UpFront' = UpFront /\ Standing = UpFront
  BY <1>1, <1>3, ProgSame DEF Standing
<1>5. \A j : Dormant(j)' => Dormant(j)
  BY <1>3 DEF Dormant
<1>6. /\ SameMaps(sys, s) /\ s.syn = sys.syn /\ s.patch = sys.patch /\ s.retired = sys.retired
      /\ s.live = sys.live /\ s.paused = sys.paused /\ s.order = sys.order /\ s.fault = sys.fault
      /\ s.tracked = TRUE
  <2>1. DOMAIN sys = Fields
    BY <1>2 DEF Ready, MapsSound
  <2> QED
    BY <2>1 DEF WriteCoordinates, SameMaps, Fields, NewSystem
<1> HIDE DEF s
<1>7. Ready(s)
  <2>1. MapsSound(s)
    BY <1>2, <1>6, SameMapsSound DEF Ready, LiveOnMap, MapsSound, SameMaps
  <2>2. NamesSound(s) /\ Ok(s)
    BY <1>1, <1>2, <1>6, SameNamesSound DEF Ready, Ok
  <2>3. Tidy(s)
    BY <1>2, <1>6 DEF Tidy, SitesSorted, OwnersNamed, Shaped, SameMaps
  <2> QED
    BY <2>1, <2>2, <2>3 DEF Ready
<1>8. LedgerOf(s, Standing, {}, TRUE)
  <2>1. InUse(s) = InUse(sys) /\ \A m : Mine(s, m) = Mine(sys, m)
    BY <1>6 DEF InUse, Mine, Sited, SameMaps
  <2>2. InUse(sys) = {} /\ \A p \in Standing : Mine(sys, p) = sys.patch[p].data
    BY <1>2, <1>3 DEF LedgerNow, LedgerOf
  <2> QED
    BY <1>3, <1>6, <2>1, <2>2 DEF LedgerOf
<1>9. \A p : Whole(s, p)
  BY <1>3, <1>6 DEF Whole, Mine
<1>10. /\ LedgerOf(sys', Standing, Standing, TRUE) /\ Unmoved(s, sys') /\ sys'.paused = s.paused
  <2>1. Standing \subseteq DOMAIN s.patch /\ {} \subseteq Standing /\ Standing = {} \cup Standing
    BY <1>2, <1>6
  <2>2. sys' = InitAndBaseline(s, Standing) /\ Ok(sys')
    BY <1>1, <1>4
  <2>3. \A p \in Standing : Whole(s, p)
    BY <1>9
  <2>4. Refreshed(s, sys', Standing, Standing)
    BY <1>7, <1>8, <2>1, <2>2, <2>3, ResetLedger
  <2> QED
    BY <2>4 DEF Refreshed
<1>11. /\ Tidy(sys') /\ sys'.patch = sys.patch /\ sys'.held = sys.held /\ sys'.at = sys.at
       /\ sys'.tracked = TRUE /\ DOMAIN sys'.paused = {}
  BY <1>3, <1>6, <1>10 DEF Unmoved, SameMaps
<1>12. Layouts' /\ Allocated' = Allocated
  BY <1>1, <1>2, <1>5, <1>11, LayoutsStay
<1>13. OwnersHold'
  BY <1>1, <1>2, <1>5, <1>11, OwnersStay
<1>14. Standing' = Standing
  BY <1>1, <1>12 DEF Standing
<1>15. LedgerNow'
  BY <1>1, <1>3, <1>10, <1>11, <1>14 DEF LedgerNow
<1>16. Books'
  BY <1>1, <1>3, <1>11 DEF Books
<1>17. Lifetimes'
  <2>1. \A p \in Standing : Begun(prog, step, p) /\ Lasting(prog, step, p)
    BY <1>2, <1>3, <1>4, Presence DEF UpFront
  <2> QED
    BY <1>1, <1>3, <1>14, <2>1 DEF Lifetimes
<1> QED
  BY <1>11, <1>12, <1>13, <1>15, <1>16, <1>17 DEF LedgerState

LEMMA StepBringInLedger ==
  ASSUME RegistryInv, LedgerInv, BringIn, Ok(sys)'
  PROVE  LedgerState'
<1>1. /\ Ok(sys) /\ UNCHANGED <<prog, step, routes, turned, moving, measured>>
      /\ phase = "bring in" /\ phase' = "register" /\ newly' = {}
      /\ sys' = IF newly = {} THEN sys ELSE InitAndBaseline(sys, newly)
  BY DEF BringIn, Go
<1>2. /\ Ready(sys) /\ LedgerNow /\ Layouts /\ Books /\ Lifetimes /\ OwnersHold
      /\ Standing \subseteq Patches /\ Standing \subseteq DOMAIN sys.patch /\ Tidy(sys)
      /\ MapsSound(sys)
  BY <1>1, Now DEF Ready
<1>3. /\ ~ Early /\ ~ Early' /\ ~ Leaving /\ ~ Leaving' /\ sys.tracked
      /\ turned \subseteq Allocated /\ DOMAIN sys.paused = {} /\ newly \subseteq Standing
  BY <1>1, <1>2 DEF Books, Early, Leaving
<1>4. LedgerOf(sys, Standing, Standing \ newly, TRUE)
  BY <1>1, <1>2, <1>3, LedgerOn DEF LedgerNow
<1>5. Refreshed(sys, sys', Standing, Standing)
  <2>1. CASE newly = {}
    <3>1. sys' = sys /\ Standing \ newly = Standing
      BY <1>1, <2>1
    <3> QED
      BY <1>2, <1>4, <3>1 DEF Refreshed, Unmoved
  <2>2. CASE newly # {}
    <3>1. sys' = InitAndBaseline(sys, newly) /\ Ok(sys')
      BY <1>1, <2>2
    <3>2. \A p \in newly : Whole(sys, p)
      BY <1>2, WholeIs DEF Books
    <3>3. Standing \ newly \subseteq Standing /\ Standing = (Standing \ newly) \cup newly
      BY <1>3
    <3> QED
      BY <1>2, <1>3, <1>4, <3>1, <3>2, <3>3, ResetLedger
  <2> QED
    BY <2>1, <2>2
<1>6. /\ Tidy(sys') /\ sys'.patch = sys.patch /\ sys'.held = sys.held /\ sys'.at = sys.at
      /\ sys'.tracked = sys.tracked /\ sys'.paused = sys.paused
  BY <1>5 DEF Refreshed, Unmoved
<1>7. \A j : Dormant(j)' => Dormant(j)
  BY <1>1, <1>3 DEF Dormant
<1>8. Layouts' /\ Allocated' = Allocated
  BY <1>1, <1>2, <1>6, <1>7, LayoutsStay
<1>9. OwnersHold'
  BY <1>1, <1>2, <1>6, <1>7, OwnersStay
<1>10. Standing' = Standing
  BY <1>1, <1>8 DEF Standing
<1>11. LedgerNow'
  <2>1. LedgerOf(sys', Standing', (Standing \ newly)', TRUE)
    <3>1. (Standing \ newly)' = Standing
      BY <1>1, <1>10
    <3> QED
      BY <1>5, <1>10, <3>1 DEF Refreshed
  <2> QED
    BY <1>1, <1>3, <1>6, <2>1, LedgerOn DEF LedgerNow
<1>12. Books'
  BY <1>1, <1>3, <1>6, <1>8 DEF Books
<1>13. Lifetimes'
  BY <1>1, <1>2, <1>3, <1>8, <1>10, LifetimesStay
<1> QED
  BY <1>6, <1>8, <1>9, <1>11, <1>12, <1>13 DEF LedgerState

\* What the loop knows when it comes to register a step.
LEMMA Registering ==
  ASSUME RegistryInv, LedgerInv, Ok(sys), AtRegister
  PROVE  /\ ~ Early /\ ~ Leaving /\ newly = {} /\ DOMAIN sys.paused = {} /\ sys.tracked
         /\ turned \subseteq Allocated /\ phase \notin {"rotate", "rotated", "done", "bring in"}
         /\ \A q \in Standing : Present(prog, step, q)
         /\ LedgerOf(sys, Standing, Standing, TRUE)
<1>1. Books /\ Lifetimes /\ LedgerNow
  BY Now
<1>2. /\ ~ Early /\ ~ Leaving /\ newly = {} /\ DOMAIN sys.paused = {} /\ sys.tracked
      /\ turned \subseteq Allocated /\ phase \notin {"rotate", "rotated", "done", "bring in"}
  BY <1>1 DEF Books, Early, Leaving, AtRegister
<1>3. \A q \in Standing : Present(prog, step, q)
  BY <1>1, <1>2 DEF Lifetimes, Present
<1>4. LedgerOf(sys, Standing, Standing, TRUE)
  <2>1. Standing \ newly = Standing
    BY <1>2
  <2> QED
    BY <1>1, <1>2, <2>1, LedgerOn DEF LedgerNow
<1> QED
  BY <1>2, <1>3, <1>4

\* A corridor is never in the way of a patch that stands.
LEMMA NoCollision ==
  ASSUME RegistryInv, LedgerInv, Ok(sys), AtRegister, Fits(step)
  PROVE  CouplerPlaced.fault # "collision"
<1> DEFINE g == RouteOf(step)
           n == Coupler[step]
           T == turned \cap Targets(step)
<1>1. /\ Ready(sys) /\ Layouts /\ Clear(prog) /\ Standing \subseteq Patches /\ step \in 1 .. NSteps
      /\ DOMAIN sys = Fields
  BY Now DEF Ready, MapsSound
<1>2. /\ phase # "rotate" /\ DOMAIN sys.paused = {} /\ \A q \in Standing : Present(prog, step, q)
      /\ LedgerOf(sys, Standing, Standing, TRUE)
  BY Registering
<1>3. T \in DOMAIN prog.steps[step].route /\ g = prog.steps[step].route[T]
  BY DEF Fits, RouteOf
<1> HIDE DEF g, T, n
<1>4. ASSUME NEW c \in g.cells \cap DOMAIN sys.index, sys.index[c] \in sys.live PROVE FALSE
  <2>1. c \in InUse(sys)
    BY <1>4 DEF InUse
  <2>2. PICK q \in Standing : c \in sys.patch[q].data
    BY <1>2, <2>1 DEF LedgerOf
  <2>3. q \in Patches /\ q \in Allocated
    BY <1>1 DEF Standing
  <2>4. sys.patch[q].data = Tile(q) /\ \A d \in Tile(q) : DataSite(d)
    BY <1>1, <1>2, <2>3, Tiles
  <2>5. g.data = {d \in g.cells : DataSite(d)} /\ g.data \cap Tile(q) = {}
    BY <1>1, <1>2, <1>3, <2>3, Apart
  <2> QED
    BY <1>4, <2>2, <2>4, <2>5
<1>5. ~ Blocked(sys, n, g)
  BY <1>4 DEF Blocked
<1>6. CouplerPlaced = AddPatch(sys, n, g, FALSE)
  BY DEF CouplerPlaced, RegisterCoupler, g, n
<1>7. CASE n \in DOMAIN sys.patch
  BY <1>1, <1>6, <1>7 DEF AddPatch, Fail, Fields, NewSystem
<1>8. CASE n \notin DOMAIN sys.patch
  <2> DEFINE e == Enter(sys, n, g)
             t == Listed(e, n, FALSE)
  <2>1. CouplerPlaced = t
    BY <1>5, <1>6, <1>8 DEF AddPatch
  <2>2. e.fault \in {sys.fault, "coordinate not found"} /\ DOMAIN e = Fields
    BY <1>1, EnterUse DEF SameMaps
  <2> HIDE DEF e
  <2>3. t.fault = e.fault
    BY <2>2 DEF Listed, Fields, NewSystem
  <2> HIDE DEF t
  <2> QED
    BY <2>1, <2>2, <2>3 DEF Ok
<1> QED
  BY <1>7, <1>8

LEMMA StepUseRegistered ==
  ASSUME RegistryInv, LedgerInv, UseRegistered, Ok(sys)'
  PROVE  LedgerState'
<1>1. /\ Ok(sys) /\ UNCHANGED <<prog, sys, step, routes, turned, moving, newly, measured>>
      /\ AtRegister /\ phase' = "merge"
  BY DEF UseRegistered, Go
<1>2. /\ LedgerNow /\ Layouts /\ Books /\ Lifetimes /\ OwnersHold /\ Tidy(sys)
  BY <1>1, Now
<1>3. /\ ~ Early /\ ~ Early' /\ ~ Leaving /\ ~ Leaving' /\ newly = {} /\ DOMAIN sys.paused = {}
      /\ sys.tracked /\ turned \subseteq Allocated
      /\ phase \notin {"rotate", "rotated", "done", "bring in"}
  BY <1>1, Registering DEF Early, Leaving
<1>4. \A j : Dormant(j)' => Dormant(j)
  BY <1>1, <1>3 DEF Dormant
<1>5. Layouts' /\ Allocated' = Allocated
  BY <1>1, <1>2, <1>3, <1>4, LayoutsStay
<1>6. OwnersHold'
  BY <1>1, <1>2, <1>3, <1>4, OwnersStay
<1>7. Standing' = Standing
  BY <1>1, <1>5 DEF Standing
<1>8. LedgerNow'
  BY <1>1, <1>2, <1>3, <1>7, LedgerOn DEF LedgerNow
<1>9. Books'
  BY <1>1, <1>3, <1>5 DEF Books
<1>10. Lifetimes'
  BY <1>1, <1>2, <1>3, <1>5, <1>7, LifetimesStay
<1> QED
  BY <1>1, <1>2, <1>5, <1>6, <1>8, <1>9, <1>10 DEF LedgerState

LEMMA StepRegisterLedger ==
  ASSUME RegistryInv, LedgerInv, RegisterStep, Ok(sys)'
  PROVE  LedgerState'
<1> DEFINE g == RouteOf(step)
           n == Coupler[step]
           T == turned \cap Targets(step)
<1>1. /\ Ok(sys) /\ UNCHANGED <<prog, step, turned, moving, newly, measured>>
      /\ AtRegister /\ phase' = "merge" /\ routes' = routes \cup {step}
  BY DEF RegisterStep, Go
<1>2. /\ Ready(sys) /\ LedgerNow /\ Layouts /\ Books /\ Lifetimes /\ OwnersHold /\ Tidy(sys)
      /\ MapsSound(sys) /\ step \in 1 .. NSteps /\ DOMAIN sys = Fields
      /\ DOMAIN sys.held = DOMAIN sys.patch
  BY <1>1, Now, RoutesHeld DEF Ready, MapsSound
<1>3. /\ ~ Early /\ ~ Early' /\ ~ Leaving /\ ~ Leaving' /\ newly = {} /\ DOMAIN sys.paused = {}
      /\ sys.tracked /\ turned \subseteq Allocated
      /\ phase \notin {"rotate", "rotated", "done", "bring in"}
      /\ \A q \in Standing : Present(prog, step, q)
  BY <1>1, Registering DEF Early, Leaving
<1>4. (\A j : Dormant(j)' => Dormant(j)) /\ ~ Dormant(step)'
  <2>1. \A j : Dormant(j)' => Dormant(j)
    BY <1>1, <1>3 DEF Dormant
  <2>2. step' = step /\ ~ (step > step)
    BY <1>1, <1>2, StepsAssumption
  <2>3. ~ Dormant(step)'
    BY <1>3, <2>2 DEF Dormant
  <2> QED
    BY <2>1, <2>3
<1>5. sys' = CouplerPlaced /\ Fits(step)
  <2>1. ~ Ok(Fail(sys, "the step cannot be registered"))
    BY <1>2 DEF Fail, Ok, Fields, NewSystem
  <2> QED
    BY <2>1 DEF RegisterStep, Registrable
<1>6. T \in DOMAIN prog.steps[step].route /\ g = prog.steps[step].route[T]
  BY <1>5 DEF Fits, RouteOf
<1>7. sys' = RegisterCoupler(sys, n, g)
  BY <1>5 DEF CouplerPlaced
<1> HIDE DEF g, T, n
<1>8. Added(sys, sys', n, g, Standing, Standing \ newly, sys.tracked /\ phase # "done")
  BY <1>1, <1>3, <1>6, <1>7, CouplerLedger DEF n
<1>9. /\ n \notin DOMAIN sys.patch /\ Placed(sys, sys', n, g)
      /\ LedgerOf(sys', Standing \cup {n}, Standing \ newly, sys.tracked /\ phase # "done")
      /\ sys'.patch[n] = g /\ DOMAIN sys'.patch = DOMAIN sys.patch \cup {n}
      /\ \A m \in DOMAIN sys.patch : sys'.patch[m] = sys.patch[m]
  BY <1>8 DEF Added
<1>10. /\ Tidy(sys') /\ sys'.tracked = sys.tracked /\ sys'.paused = sys.paused
  BY <1>9 DEF Placed
<1>11. LedgerOf(sys', Standing, Standing \ newly, sys.tracked /\ phase # "done")
  BY <1>9, LedgerFewer
<1>12. Layouts' /\ Allocated' = Allocated
  BY <1>1, <1>2, <1>3, <1>4, <1>6, <1>9, CouplerLayouts DEF n
<1>13. OwnersHold'
  <2>1. \A j \in routes' : (j \in routes /\ Coupler[j] \in DOMAIN sys.held) \/ Coupler[j] = n
    BY <1>1, RoutesHeld DEF n
  <2> QED
    BY <1>1, <1>2, <1>3, <1>4, <1>9, <2>1, OwnersPlaced
<1>14. Standing' = Standing
  BY <1>1, <1>12 DEF Standing
<1>15. LedgerNow'
  BY <1>1, <1>3, <1>10, <1>11, <1>14, LedgerOn DEF LedgerNow
<1>16. Books'
  BY <1>1, <1>3, <1>10, <1>12 DEF Books
<1>17. Lifetimes'
  BY <1>1, <1>2, <1>3, <1>12, <1>14, LifetimesStay
<1> QED
  BY <1>10, <1>12, <1>13, <1>15, <1>16, <1>17 DEF LedgerState

LEMMA StepBeginRepair ==
  ASSUME RegistryInv, LedgerInv, BeginRepair, Ok(sys)'
  PROVE  LedgerState'
<1>1. /\ Ok(sys) /\ UNCHANGED <<prog, sys, step, routes, turned, newly, measured>>
      /\ phase = "register" /\ AtRegister /\ phase' = "rotate"
      /\ moving' = [patch |-> prog.steps[step].targets[Min(Repairs)], stage |-> 1]
      /\ ~ Registrable /\ Repairs # {}
  BY DEF BeginRepair, Go, Blocking, AtRegister
<1>2. /\ ControlSound /\ LedgerNow /\ Layouts /\ Books /\ Lifetimes /\ OwnersHold /\ Tidy(sys)
      /\ step \in 1 .. NSteps
  BY <1>1, Now
<1>3. /\ ~ Early /\ ~ Early' /\ ~ Leaving /\ ~ Leaving' /\ newly = {} /\ DOMAIN sys.paused = {}
      /\ sys.tracked /\ turned \subseteq Allocated
  BY <1>1, Registering DEF Early, Leaving
<1>4. \A j : Dormant(j)' <=> Dormant(j)
  BY <1>1, <1>3 DEF Dormant
<1>5. OwnersHold'
  BY <1>1, <1>2, <1>4, OwnersStay
<1>6. Used' = Used /\ \A j : Waits(j)' <=> Waits(j)
  BY <1>1, ProgSame
<1>7. Allocated' = Allocated /\ Standing' = Standing
  BY <1>1, <1>6 DEF Allocated, Standing
<1>8. ~ Fits(step)
  BY <1>1, NoCollision DEF Registrable
<1> DEFINE T == turned \cap Targets(step)
<1>9. /\ Turning' \notin turned /\ Turning' \in Targets(step)
      /\ T \cup {Turning'} \in DOMAIN prog.steps[step].route
  <2>1. prog.steps[step].targets \in Seq(Patches)
    BY <1>2 DEF ControlSound, Legal
  <2>2. Repairs \in SUBSET Nat
    BY <2>1 DEF Repairs
  <2>3. Min(Repairs) \in Repairs
    BY <1>1, <2>2, LeastOne
  <2>4. Turning' = prog.steps[step].targets[Min(Repairs)]
    BY <1>1 DEF Turning
  <2> QED
    BY <2>3, <2>4 DEF Repairs, Targets, Image
<1>10. MayTurn(step, Turning')
  <2>1. (T \cup {Turning'}) \ {Turning'} = T
    BY <1>9
  <2>2. T \notin DOMAIN prog.steps[step].route
    BY <1>8 DEF Fits
  <2> QED
    BY <1>9, <2>1, <2>2 DEF MayTurn
<1>11. Layouts'
  <2>1. ASSUME NEW p \in Allocated' PROVE sys'.patch[p] \in LayoutsOf(p)'
    <3>1. sys'.patch[p] \in IF p \in turned THEN {Shrunk(Home[p])} ELSE {Start(Home[p])}
      BY <1>1, <1>2, <1>7 DEF Layouts, LayoutsOf
    <3> QED
      BY <1>1, <1>9, <3>1 DEF LayoutsOf
  <2>2. MayTurn(step, Turning)'
    BY <1>1, <1>10 DEF MayTurn, Targets
  <2>3. ASSUME NEW j \in routes'
        PROVE  LET route == prog'.steps[j].route
               IN  /\ Coupler[j] \in DOMAIN sys'.patch
                   /\ \E U \in DOMAIN route : sys'.patch[Coupler[j]] = route[U]
                   /\ Dormant(j)' => Waits(j)' /\ sys'.patch[Coupler[j]] = route[{}]
    BY <1>1, <1>2, <1>4, <1>6 DEF Layouts
  <2> QED
    BY <2>1, <2>2, <2>3 DEF Layouts
<1>12. LedgerNow'
  BY <1>1, <1>2, <1>3, <1>7, LedgerOn DEF LedgerNow
<1>13. Books'
  BY <1>1, <1>3, <1>7 DEF Books
<1>14. Lifetimes'
  BY <1>1, <1>2, <1>3, <1>7, LifetimesStay
<1> QED
  BY <1>1, <1>2, <1>5, <1>11, <1>12, <1>13, <1>14 DEF LedgerState

\* What a rotation starts from.
LEMMA Rotating ==
  ASSUME RegistryInv, LedgerInv, Ok(sys), phase \in {"rotate", "rotated"}
  PROVE  /\ ~ Early /\ ~ Leaving /\ newly = {} /\ DOMAIN sys.paused = {} /\ sys.tracked
         /\ turned \subseteq Allocated /\ LedgerOf(sys, Standing, Standing, TRUE)
         /\ Turning \in Standing /\ Turning \in Patches
         /\ MayTurn(step, Turning) /\ HomeY \in Int
         /\ \A i \in 1 .. NSteps : Coupler[i] # Turning
<1>1. /\ Books /\ Lifetimes /\ LedgerNow /\ Layouts /\ ControlSound /\ step \in 1 .. NSteps
      /\ DOMAIN sys.held = DOMAIN sys.patch
  BY Now, RoutesHeld
<1>2. /\ ~ Early /\ ~ Leaving /\ newly = {} /\ DOMAIN sys.paused = {} /\ sys.tracked
      /\ turned \subseteq Allocated
  BY <1>1 DEF Books, Early, Leaving
<1>3. LedgerOf(sys, Standing, Standing, TRUE)
  <2>1. Standing \ newly = Standing /\ phase # "done"
    BY <1>2 DEF Leaving
  <2> QED
    BY <1>1, <1>2, <2>1, LedgerOn DEF LedgerNow
<1>4. Turning \in Targets(step) /\ Turning \in Patches
  BY <1>1, TargetsArePatches DEF ControlSound, Turning
<1>5. Turning \in Used /\ step \in UsesOf(Turning)
  BY <1>1, <1>4, Presence DEF UsesOf
<1>6. Turning \in DOMAIN sys.patch
  BY <1>1, <1>4 DEF ControlSound
<1>7. Turning \in Standing
  BY <1>1, <1>2, <1>5, <1>6 DEF Standing, Allocated, Lifetimes
<1>8. HomeY \in Int /\ \A i \in 1 .. NSteps : Coupler[i] # Turning
  BY <1>4, HomeAssumption, NamesAssumption DEF HomeY
<1> QED
  BY <1>1, <1>2, <1>3, <1>4, <1>7, <1>8 DEF Layouts

\* The cells of a corridor that may have to go which the turning patch holds,
\* or will hold, are those of its last layout.
LEMMA Clearance ==
  ASSUME RegistryInv, LedgerInv, Ok(sys), phase = "rotate", BarsClear,
         NEW j \in routes, Dormant(j), MayGo(j), NEW c \in DOMAIN sys.held[Coupler[j]],
         c \in sys.patch[Turning].cells
  PROVE  c \in Shrunk(HomeY).cells
<1>1. /\ Layouts /\ Tidy(sys) /\ step \in 1 .. NSteps /\ j \in 1 .. NSteps
  BY Now, RoutesHeld
<1>2. /\ ~ Early /\ Turning \in Standing /\ Turning \in Patches /\ MayTurn(step, Turning)
  BY Rotating
<1>3. j > step /\ step \in 1 .. j - 1
  BY <1>1, <1>2, StepsAssumption DEF Dormant
<1>4. /\ Coupler[j] \in DOMAIN sys.patch /\ sys.patch[Coupler[j]] = prog.steps[j].route[{}]
  BY <1>1 DEF Layouts
<1>5. c \in prog.steps[j].route[{}].cells
  BY <1>1, <1>4 DEF Tidy, Shaped
<1>6. prog.steps[j].route[{}].cells \cap DrawnBack(Turning) = {}
  BY <1>1, <1>2, <1>3 DEF BarsClear
<1>7. c \in Swept(HomeY)
  <2>1. Turning \in Allocated
    BY <1>2 DEF Standing
  <2>2. sys.patch[Turning] \in {Start(HomeY), Grown(HomeY), Moved(HomeY), Far(HomeY), Bar2(HomeY)}
    BY <1>1, <2>1 DEF Layouts, LayoutsOf, HomeY
  <2> QED
    BY <2>2 DEF Swept
<1> QED
  BY <1>5, <1>6, <1>7 DEF DrawnBack, HomeY

LEMMA StageLedger ==
  ASSUME RegistryInv, LedgerInv, NEW k \in 1 .. 5, NEW after, Stage(k, after), Ok(sys)',
         NEW g, Relaid(sys, after, Turning, g),
         g \in IF k = 5 THEN {Shrunk(HomeY)}
               ELSE {Start(HomeY), Grown(HomeY), Moved(HomeY), Far(HomeY), Bar2(HomeY)}
  PROVE  LedgerState'
<1> DEFINE p == Turning
<1>1. /\ Ok(sys) /\ UNCHANGED <<prog, step, routes, turned, newly, measured>>
      /\ phase = "rotate" /\ phase' = (IF k = 5 THEN "rotated" ELSE "rotate")
      /\ sys' = ApplySyndromeExtraction(after)
      /\ moving' = [moving EXCEPT !.stage = k + 1]
  BY DEF Stage, Go
<1>2. /\ Ready(sys) /\ ControlSound /\ Layouts /\ Books /\ Lifetimes /\ OwnersHold /\ Tidy(sys)
      /\ Standing \subseteq DOMAIN sys.patch /\ step \in 1 .. NSteps
      /\ DOMAIN sys.held = DOMAIN sys.patch
  BY <1>1, Now, RoutesHeld
<1>3. /\ ~ Early /\ ~ Early' /\ ~ Leaving /\ ~ Leaving' /\ newly = {} /\ DOMAIN sys.paused = {}
      /\ sys.tracked /\ turned \subseteq Allocated /\ LedgerOf(sys, Standing, Standing, TRUE)
      /\ p \in Standing /\ MayTurn(step, p)
      /\ \A i \in 1 .. NSteps : Coupler[i] # p
  BY <1>1, Rotating DEF Early, Leaving
<1>4. Turning' = p
  BY <1>1, <1>2 DEF ControlSound, Turning
<1> HIDE DEF p
<1>5. Relaid(sys, after, p, g) /\ LedgerOf(after, Standing, Standing, TRUE)
  <2>1. Relaid(sys, after, p, g)
    BY DEF p
  <2> QED
    BY <1>2, <1>3, <2>1, RelaidLedger
<1>6. Alike(after, sys')
  <2>1. MapsSound(after) /\ Ok(ApplySyndromeExtraction(after))
    BY <1>1, <1>5 DEF Relaid
  <2> QED
    BY <1>1, <2>1, RoundAlike DEF Alike
<1>7. /\ Tidy(sys') /\ sys'.patch = after.patch /\ sys'.paused = after.paused
      /\ sys'.tracked = after.tracked /\ sys'.held = after.held /\ sys'.at = after.at
      /\ LedgerOf(sys', Standing, Standing, TRUE)
  <2>1. MapsSound(after) /\ Tidy(after)
    BY <1>5 DEF Relaid
  <2> QED
    BY <1>5, <1>6, <2>1, AlikeKeeps
<1>8. /\ sys'.tracked = sys.tracked /\ sys'.paused = sys.paused
      /\ DOMAIN sys'.patch = DOMAIN sys.patch /\ sys'.patch[p] = g
      /\ \A m \in DOMAIN sys.patch : m # p => sys'.patch[m] = sys.patch[m]
      /\ DOMAIN sys'.held = DOMAIN sys.held /\ DOMAIN sys'.held[p] = g.cells
      /\ \A m \in DOMAIN sys.held : m # p => sys'.held[m] = sys.held[m]
      /\ DOMAIN sys'.at = g.cells \cup DOMAIN sys.at
      /\ \A c \in DOMAIN sys'.at : sys'.at[c] = IF c \in g.cells THEN p ELSE sys.at[c]
  BY <1>5, <1>7 DEF Relaid
<1>9. /\ Used' = Used /\ (BarsClear' <=> BarsClear)
      /\ \A j : (Waits(j)' <=> Waits(j)) /\ (MayGo(j)' <=> MayGo(j))
  BY <1>1, ProgSame
<1>10. Allocated' = Allocated /\ Standing' = Standing
  BY <1>1, <1>8, <1>9 DEF Allocated, Standing
<1>11. \A j : Dormant(j)' <=> Dormant(j)
  BY <1>1, <1>3 DEF Dormant
<1>12. LedgerNow'
  <2>1. (Standing \ newly)' = Standing /\ Standing' = Standing
    BY <1>1, <1>3, <1>10
  <2>2. TRUE <=> (sys.tracked /\ phase # "done")'
    BY <1>1, <1>3, <1>8
  <2> QED
    BY <1>7, <2>1, <2>2, LedgerOn DEF LedgerNow
<1>13. Layouts'
  <2>1. ASSUME NEW q \in Allocated' PROVE sys'.patch[q] \in LayoutsOf(q)'
    <3>1. CASE q = p
      <4>1. sys'.patch[q] = g
        BY <1>8, <3>1
      <4>2. g \in LayoutsOf(q)'
        BY <1>1, <1>4, <3>1 DEF LayoutsOf, HomeY, p
      <4> QED
        BY <4>1, <4>2
    <3>2. CASE q # p
      <4>1. LayoutsOf(q)' = LayoutsOf(q)
        BY <1>1, <1>4, <3>2 DEF LayoutsOf, p
      <4>2. q \in Allocated /\ q \in DOMAIN sys.patch
        BY <1>10 DEF Allocated
      <4> QED
        BY <1>2, <1>8, <3>2, <4>1, <4>2 DEF Layouts
    <3> QED
      BY <3>1, <3>2
  <2>2. MayTurn(step, Turning)'
    BY <1>1, <1>3, <1>4 DEF MayTurn, Targets
  <2>3. ASSUME NEW j \in routes'
        PROVE  LET route == prog'.steps[j].route
               IN  /\ Coupler[j] \in DOMAIN sys'.patch
                   /\ \E U \in DOMAIN route : sys'.patch[Coupler[j]] = route[U]
                   /\ Dormant(j)' => Waits(j)' /\ sys'.patch[Coupler[j]] = route[{}]
    <3>1. j \in routes /\ j \in 1 .. NSteps
      BY <1>1, RoutesHeld
    <3>2. /\ Coupler[j] \in DOMAIN sys.patch
          /\ \E U \in DOMAIN prog.steps[j].route : sys.patch[Coupler[j]] = prog.steps[j].route[U]
          /\ Dormant(j) => Waits(j) /\ sys.patch[Coupler[j]] = prog.steps[j].route[{}]
      BY <1>2, <3>1 DEF Layouts
    <3>3. sys'.patch[Coupler[j]] = sys.patch[Coupler[j]] /\ Coupler[j] \in DOMAIN sys'.patch
      BY <1>3, <1>8, <3>1, <3>2
    <3> QED
      BY <1>1, <1>9, <1>11, <3>2, <3>3
  <2> QED
    BY <2>1, <2>2, <2>3 DEF Layouts
<1>14. OwnersHold'
  <2> SUFFICES ASSUME BarsClear', NEW j \in routes', Dormant(j)', MayGo(j)',
                      NEW c \in DOMAIN sys'.held[Coupler[j]]
               PROVE  \/ sys'.at[c] \in DOMAIN sys'.held /\ c \in DOMAIN sys'.held[sys'.at[c]]
                      \/ phase' = "rotate" /\ sys'.at[c] = Turning' /\ c \in Shrunk(HomeY').cells
    BY DEF OwnersHold
  <2>1. /\ BarsClear /\ j \in routes /\ Dormant(j) /\ MayGo(j)
        /\ j \in 1 .. NSteps /\ Coupler[j] \in DOMAIN sys.held
    BY <1>1, <1>9, <1>11, RoutesHeld
  <2>2. sys'.held[Coupler[j]] = sys.held[Coupler[j]]
    BY <1>3, <1>8, <2>1
  <2>3. c \in DOMAIN sys.held[Coupler[j]] /\ c \in DOMAIN sys.at
    BY <1>2, <2>1, <2>2 DEF Ready, MapsSound, HeldOnMap, OwnersAgree
  <2>4. CASE c \in g.cells
    <3>1. sys'.at[c] = p /\ p \in DOMAIN sys'.held /\ c \in DOMAIN sys'.held[p]
      BY <1>2, <1>3, <1>8, <2>4
    <3> QED
      BY <3>1
  <2>5. CASE c \notin g.cells
    <3>1. sys'.at[c] = sys.at[c]
      BY <1>8, <2>3, <2>5
    <3>2. \/ sys.at[c] \in DOMAIN sys.held /\ c \in DOMAIN sys.held[sys.at[c]]
          \/ sys.at[c] = p /\ c \in Shrunk(HomeY).cells
      BY <1>2, <2>1, <2>3 DEF OwnersHold, p
    <3>3. CASE sys.at[c] # p
      <4>1. sys.at[c] \in DOMAIN sys.held /\ c \in DOMAIN sys.held[sys.at[c]]
        BY <3>2, <3>3
      <4> QED
        BY <1>8, <3>1, <3>3, <4>1
    <3>4. CASE sys.at[c] = p
      <4>1. c \in Shrunk(HomeY).cells
        <5>1. CASE c \in DOMAIN sys.held[p]
          <6>1. c \in sys.patch[Turning].cells
            BY <1>2, <1>3, <5>1 DEF Tidy, Shaped, p
          <6> QED
            BY <1>1, <2>1, <2>3, <6>1, Clearance
        <5>2. CASE c \notin DOMAIN sys.held[p]
          BY <3>2, <3>4, <5>2
        <5> QED
          BY <5>1, <5>2
      <4>2. k # 5
        BY <2>5, <4>1
      <4>3. HomeY' = HomeY
        BY <1>4 DEF HomeY, p
      <4> QED
        BY <1>1, <1>4, <3>1, <3>4, <4>1, <4>2, <4>3
    <3> QED
      BY <3>3, <3>4
  <2> QED
    BY <2>4, <2>5
<1>15. Books'
  BY <1>1, <1>3, <1>8, <1>10 DEF Books
<1>16. Lifetimes'
  BY <1>1, <1>2, <1>3, <1>10, LifetimesStay
<1> QED
  BY <1>7, <1>12, <1>13, <1>14, <1>15, <1>16 DEF LedgerState

\* What a rotation reads out, by qubits and by cells.
QubitsAbove(s, n, y) == {i \in LiveData(s, n) : s.coord[i][2] > y}
QubitsBelow(s, n, y) == {i \in LiveData(s, n) : s.coord[i][2] < y}
CellsAbove(s, n, y) == {c \in Mine(s, n) : c[2] > y}
CellsBelow(s, n, y) == {c \in Mine(s, n) : c[2] < y}

LEMMA RowsRead ==
  ASSUME NEW s, Ready(s), NEW n, NEW y \in Int
  PROVE  /\ QubitsAbove(s, n, y) = Idx(s, CellsAbove(s, n, y))
         /\ QubitsBelow(s, n, y) = Idx(s, CellsBelow(s, n, y))
<1>1. LiveData(s, n) = Idx(s, Mine(s, n)) /\ Mine(s, n) \subseteq DOMAIN s.index
  BY MineCells
<1>2. \A c \in DOMAIN s.index : s.coord[s.index[c]] = c
  BY DEF Ready, MapsSound, MapsInverse
<1>3. \A i : i \in QubitsAbove(s, n, y) <=> i \in Idx(s, CellsAbove(s, n, y))
  BY <1>1, <1>2 DEF Idx, QubitsAbove, CellsAbove
<1>4. \A i : i \in QubitsBelow(s, n, y) <=> i \in Idx(s, CellsBelow(s, n, y))
  BY <1>1, <1>2 DEF Idx, QubitsBelow, CellsBelow
<1> QED
  BY <1>3, <1>4

LEMMA StepRotateLedger ==
  ASSUME RegistryInv, LedgerInv, Ok(sys)',
         \/ RotateGrow \/ RotateMoveCorners \/ RotateShrink \/ RotateGrowBack \/ RotateShrinkHome
  PROVE  LedgerState'
<1>1. Ok(sys) /\ phase = "rotate"
  BY DEF RotateGrow, RotateMoveCorners, RotateShrink, RotateGrowBack, RotateShrinkHome, Stage, Go
<1>2. /\ Ready(sys) /\ DOMAIN sys = Fields /\ Turning \in DOMAIN sys.patch /\ HomeY \in Int
      /\ Mine(sys, Turning) \subseteq InUse(sys)
  <2>1. /\ Ready(sys) /\ Standing \subseteq DOMAIN sys.patch
    BY <1>1, Now
  <2>2. /\ Turning \in Standing /\ HomeY \in Int /\ LedgerOf(sys, Standing, Standing, TRUE)
    BY <1>1, Rotating
  <2>3. Mine(sys, Turning) \subseteq InUse(sys)
    BY <2>2 DEF LedgerOf
  <2> QED
    BY <2>1, <2>2, <2>3 DEF Ready, MapsSound
<1>3. /\ Parted(Grown(HomeY)) /\ Parted(Moved(HomeY)) /\ Parted(Far(HomeY))
      /\ Parted(Bar2(HomeY)) /\ Parted(Shrunk(HomeY))
  BY <1>2, LayoutsParted
<1>4. ASSUME NEW k \in 1 .. 5, NEW after, Stage(k, after) PROVE Ok(after)
  BY <1>4 DEF Stage
<1>5. ASSUME NEW g, Parted(g), Ok(GrowTo(g))
      PROVE  Relaid(sys, GrowTo(g), Turning, g)
  <2> DEFINE t == GrowPatch(sys, Turning, g)
  <2>1. GrowTo(g) = IF Ok(t) THEN Initialize(t, NewData(sys, Turning, g)) ELSE t
    BY DEF GrowTo
  <2>2. Ok(t)
    BY <1>5, <2>1
  <2> HIDE DEF t
  <2>3. Relaid(sys, Initialize(t, NewData(sys, Turning, g)), Turning, g)
    BY <1>2, <1>5, <2>2, GrowRelaid DEF t
  <2> QED
    BY <2>1, <2>2, <2>3
<1>6. ASSUME NEW g, Parted(g), NEW O, O \subseteq Mine(sys, Turning), O \cap g.data = {},
             Ok(ShrinkTo(g, Idx(sys, O)))
      PROVE  Relaid(sys, ShrinkTo(g, Idx(sys, O)), Turning, g)
  BY <1>2, <1>6, ShrinkRelaid DEF ShrinkTo
<1>7. ASSUME RotateGrow PROVE LedgerState'
  <2> DEFINE bad == Cardinality(LiveData(sys, Turning)) # D * D \/ LiveLobes # StartLobes
             after == IF bad THEN Fail(sys, "not the start layout") ELSE GrowTo(Grown(HomeY))
  <2>1. Stage(1, after)
    BY <1>7 DEF RotateGrow
  <2>2. ~ Ok(Fail(sys, "not the start layout"))
    BY <1>2 DEF Fail, Ok, Fields, NewSystem
  <2> HIDE DEF bad, after
  <2>a. Ok(after)
    BY <1>4, <2>1
  <2>3. after = GrowTo(Grown(HomeY)) /\ Ok(after)
    BY <2>2, <2>a DEF after
  <2>4. Relaid(sys, after, Turning, Grown(HomeY))
    BY <1>3, <1>5, <2>3
  <2> QED
    BY <2>1, <2>4, StageLedger
<1>8. ASSUME RotateMoveCorners PROVE LedgerState'
  <2> DEFINE after == MoveCorners(sys, Turning, Moved(HomeY))
  <2>1. Stage(2, after)
    BY <1>8 DEF RotateMoveCorners
  <2>2. Ok(after)
    BY <1>4, <2>1
  <2>3. Relaid(sys, after, Turning, Moved(HomeY))
    BY <1>2, <1>3, <2>2, MoveRelaid
  <2> HIDE DEF after
  <2> QED
    BY <2>1, <2>3, StageLedger
<1>9. ASSUME RotateShrink PROVE LedgerState'
  <2> DEFINE O == CellsAbove(sys, Turning, HomeY + 1)
             after == ShrinkTo(Far(HomeY), Idx(sys, O))
  <2>0. QubitsAbove(sys, Turning, HomeY + 1) = Idx(sys, O)
    <3>1. Ready(sys) /\ HomeY + 1 \in Int
      BY <1>2
    <3> QED
      BY <3>1, RowsRead
  <2>1. Stage(3, after)
    BY <1>9, <2>0 DEF RotateShrink, QubitsAbove
  <2>2. Ok(after) /\ O \subseteq Mine(sys, Turning) /\ O \cap Far(HomeY).data = {}
    BY <1>2, <1>4, <2>1, RowsOut DEF CellsAbove
  <2> HIDE DEF O
  <2>3. Relaid(sys, after, Turning, Far(HomeY))
    BY <1>3, <1>6, <2>2
  <2> HIDE DEF after
  <2> QED
    BY <2>1, <2>3, StageLedger
<1>10. ASSUME RotateGrowBack PROVE LedgerState'
  <2> DEFINE after == GrowTo(Bar2(HomeY))
  <2>1. Stage(4, after)
    BY <1>10 DEF RotateGrowBack
  <2>2. Ok(after)
    BY <1>4, <2>1
  <2>3. Relaid(sys, after, Turning, Bar2(HomeY))
    BY <1>3, <1>5, <2>2
  <2> HIDE DEF after
  <2> QED
    BY <2>1, <2>3, StageLedger
<1>11. ASSUME RotateShrinkHome PROVE LedgerState'
  <2> DEFINE O == CellsBelow(sys, Turning, HomeY)
             after == ShrinkTo(Shrunk(HomeY), Idx(sys, O))
  <2>0. QubitsBelow(sys, Turning, HomeY) = Idx(sys, O)
    <3>1. Ready(sys) /\ HomeY \in Int
      BY <1>2
    <3> QED
      BY <3>1, RowsRead
  <2>1. Stage(5, after)
    BY <1>11, <2>0 DEF RotateShrinkHome, QubitsBelow
  <2>2. Ok(after) /\ O \subseteq Mine(sys, Turning) /\ O \cap Shrunk(HomeY).data = {}
    BY <1>2, <1>4, <2>1, RowsOut DEF CellsBelow
  <2> HIDE DEF O
  <2>3. Relaid(sys, after, Turning, Shrunk(HomeY))
    BY <1>3, <1>6, <2>2
  <2> HIDE DEF after
  <2> QED
    BY <2>1, <2>3, StageLedger
<1> QED
  BY <1>7, <1>8, <1>9, <1>10, <1>11

LEMMA StepInvalidateLedger ==
  ASSUME RegistryInv, LedgerInv, RemovalsClean, Invalidate, Ok(sys)'
  PROVE  LedgerState'
<1>1. /\ Ok(sys) /\ UNCHANGED <<prog, step, turned, moving, newly, measured>>
      /\ phase = "rotated" /\ phase' = "rotated"
  BY DEF Invalidate, Go
<1>2. /\ Ready(sys) /\ ControlSound /\ Layouts /\ Books /\ Lifetimes /\ OwnersHold /\ Tidy(sys)
      /\ Standing \subseteq DOMAIN sys.patch /\ Standing \subseteq Patches
      /\ DOMAIN sys.held = DOMAIN sys.patch
  BY <1>1, Now, RoutesHeld
<1>3. /\ ~ Early /\ ~ Early' /\ ~ Leaving /\ ~ Leaving' /\ newly = {} /\ DOMAIN sys.paused = {}
      /\ sys.tracked /\ turned \subseteq Allocated /\ LedgerOf(sys, Standing, Standing, TRUE)
      /\ MayTurn(step, Turning)
  BY <1>1, Rotating DEF Early, Leaving
<1>4. PICK i \in Stale : sys' = RemoveCoupler(sys, Coupler[i]) /\ routes' = routes \ {i}
  BY <1>1 DEF Invalidate
<1> DEFINE n == Coupler[i]
<1>5. /\ i \in 1 .. NSteps /\ n \notin Patches /\ OwnsHeld(sys, n) /\ CleanToRemove(sys, n)
      /\ \A j \in routes' : Coupler[j] # n
  BY <1>1, <1>4, RoutesHeld, NamesAssumption DEF Stale, RemovalsClean, RegistryInv
<1>6. sys' = RemoveCoupler(sys, n) /\ Ok(sys') /\ n \notin Standing
  BY <1>2, <1>4, <1>5
<1> HIDE DEF n
<1>7. /\ LedgerOf(sys', Standing, Standing, TRUE) /\ Tidy(sys') /\ Removal(sys, sys', n)
      /\ sys'.retired = sys.retired /\ sys'.paused = sys.paused /\ sys'.tracked = sys.tracked
  BY <1>2, <1>3, <1>5, <1>6, RemovedLedger
<1>8. /\ DOMAIN sys'.at = DOMAIN sys.at \ Exclusive(sys, n)
      /\ \A c \in DOMAIN sys'.at :
           IF sys.at[c] = n THEN sys'.at[c] \in DOMAIN sys'.held /\ c \in DOMAIN sys'.held[sys'.at[c]]
                            ELSE sys'.at[c] = sys.at[c]
      /\ DOMAIN sys'.held = DOMAIN sys.held \ {n}
      /\ \A m \in DOMAIN sys'.held : sys'.held[m] = sys.held[m]
      /\ DOMAIN sys'.patch = DOMAIN sys.patch \ {n}
      /\ \A m \in DOMAIN sys'.patch : sys'.patch[m] = sys.patch[m]
  BY <1>2, <1>7 DEF Removal
<1>9. /\ Used' = Used /\ (BarsClear' <=> BarsClear)
      /\ \A j : (Waits(j)' <=> Waits(j)) /\ (MayGo(j)' <=> MayGo(j))
  BY <1>1, ProgSame
<1>10. Allocated' = Allocated /\ Standing' = Standing
  <2>1. \A p \in Used : p # n
    BY <1>5 DEF Used
  <2> QED
    BY <1>1, <1>8, <1>9, <2>1 DEF Allocated, Standing
<1>11. \A j : Dormant(j)' <=> Dormant(j)
  BY <1>1, <1>3 DEF Dormant
<1>12. LedgerNow'
  <2>1. (Standing \ newly)' = Standing /\ Standing' = Standing
    BY <1>1, <1>3, <1>10
  <2>2. TRUE <=> (sys.tracked /\ phase # "done")'
    BY <1>1, <1>3, <1>7
  <2> QED
    BY <1>7, <2>1, <2>2, LedgerOn DEF LedgerNow
<1>13. Layouts'
  <2>1. ASSUME NEW q \in Allocated' PROVE sys'.patch[q] \in LayoutsOf(q)'
    <3>1. LayoutsOf(q)' = LayoutsOf(q)
      BY <1>1 DEF LayoutsOf, Turning
    <3>2. q \in Allocated /\ q \in DOMAIN sys'.patch
      BY <1>10 DEF Allocated
    <3> QED
      BY <1>2, <1>8, <3>1, <3>2 DEF Layouts
  <2>2. MayTurn(step, Turning)'
    BY <1>1, <1>3 DEF MayTurn, Targets, Turning
  <2>3. ASSUME NEW j \in routes'
        PROVE  LET route == prog'.steps[j].route
               IN  /\ Coupler[j] \in DOMAIN sys'.patch
                   /\ \E U \in DOMAIN route : sys'.patch[Coupler[j]] = route[U]
                   /\ Dormant(j)' => Waits(j)' /\ sys'.patch[Coupler[j]] = route[{}]
    <3>1. j \in routes /\ Coupler[j] # n
      BY <1>4, <1>5
    <3>2. /\ Coupler[j] \in DOMAIN sys.patch
          /\ \E U \in DOMAIN prog.steps[j].route : sys.patch[Coupler[j]] = prog.steps[j].route[U]
          /\ Dormant(j) => Waits(j) /\ sys.patch[Coupler[j]] = prog.steps[j].route[{}]
      BY <1>2, <3>1 DEF Layouts
    <3>3. sys'.patch[Coupler[j]] = sys.patch[Coupler[j]] /\ Coupler[j] \in DOMAIN sys'.patch
      BY <1>8, <3>1, <3>2
    <3> QED
      BY <1>1, <1>9, <1>11, <3>2, <3>3
  <2> QED
    BY <2>1, <2>2, <2>3 DEF Layouts
<1>14. OwnersHold'
  <2> SUFFICES ASSUME BarsClear', NEW j \in routes', Dormant(j)', MayGo(j)',
                      NEW c \in DOMAIN sys'.held[Coupler[j]]
               PROVE  sys'.at[c] \in DOMAIN sys'.held /\ c \in DOMAIN sys'.held[sys'.at[c]]
    BY DEF OwnersHold
  <2>1. /\ BarsClear /\ j \in routes /\ Dormant(j) /\ MayGo(j)
        /\ Coupler[j] # n /\ Coupler[j] \in DOMAIN sys.held
    BY <1>4, <1>5, <1>9, <1>11, RoutesHeld, <1>1
  <2>2. Coupler[j] \in DOMAIN sys'.held /\ sys'.held[Coupler[j]] = sys.held[Coupler[j]]
    BY <1>8, <2>1
  <2>3. c \in DOMAIN sys.held[Coupler[j]] /\ c \in DOMAIN sys.at
    BY <1>2, <2>1, <2>2 DEF Ready, MapsSound, HeldOnMap, OwnersAgree
  <2>4. c \in DOMAIN sys'.at
    BY <1>8, <2>1, <2>3 DEF Exclusive
  <2>5. sys.at[c] \in DOMAIN sys.held /\ c \in DOMAIN sys.held[sys.at[c]]
    BY <1>1, <1>2, <2>1, <2>3 DEF OwnersHold
  <2> QED
    BY <1>8, <2>4, <2>5
<1>15. Books'
  BY <1>1, <1>3, <1>7, <1>10 DEF Books
<1>16. Lifetimes'
  BY <1>1, <1>2, <1>3, <1>10, LifetimesStay
<1> QED
  BY <1>7, <1>12, <1>13, <1>14, <1>15, <1>16 DEF LedgerState

LEMMA StepRotatedLedger ==
  ASSUME RegistryInv, LedgerInv, Rotated, Ok(sys)'
  PROVE  LedgerState'
<1>1. /\ Ok(sys) /\ UNCHANGED <<prog, sys, step, routes, moving, newly, measured>>
      /\ phase = "rotated" /\ phase' = "register again" /\ turned' = turned \cup {Turning}
  BY DEF Rotated, Go
<1>2. Layouts /\ Lifetimes /\ OwnersHold /\ Tidy(sys)
  BY <1>1, Now
<1>3. /\ ~ Early /\ ~ Early' /\ ~ Leaving /\ ~ Leaving' /\ newly = {} /\ DOMAIN sys.paused = {}
      /\ sys.tracked /\ turned \subseteq Allocated /\ LedgerOf(sys, Standing, Standing, TRUE)
      /\ Turning \in Standing
  BY <1>1, Rotating DEF Early, Leaving
<1>4. \A j : Dormant(j)' <=> Dormant(j)
  BY <1>1, <1>3 DEF Dormant
<1>5. OwnersHold'
  BY <1>1, <1>2, <1>4, OwnersStay
<1>6. Used' = Used /\ \A j : Waits(j)' <=> Waits(j)
  BY <1>1, ProgSame
<1>7. Allocated' = Allocated /\ Standing' = Standing
  BY <1>1, <1>6 DEF Allocated, Standing
<1>8. Layouts'
  <2>1. ASSUME NEW q \in Allocated' PROVE sys'.patch[q] \in LayoutsOf(q)'
    BY <1>1, <1>2, <1>7 DEF Layouts, LayoutsOf
  <2>2. ASSUME NEW j \in routes'
        PROVE  LET route == prog'.steps[j].route
               IN  /\ Coupler[j] \in DOMAIN sys'.patch
                   /\ \E U \in DOMAIN route : sys'.patch[Coupler[j]] = route[U]
                   /\ Dormant(j)' => Waits(j)' /\ sys'.patch[Coupler[j]] = route[{}]
    BY <1>1, <1>2, <1>4, <1>6 DEF Layouts
  <2>3. phase' \notin {"rotate", "rotated"}
    BY <1>1
  <2> QED
    BY <2>1, <2>2, <2>3 DEF Layouts
<1>9. LedgerNow'
  <2>1. (Standing \ newly)' = Standing /\ Standing' = Standing
    BY <1>1, <1>3, <1>7
  <2>2. TRUE <=> (sys.tracked /\ phase # "done")'
    BY <1>1, <1>3
  <2> QED
    BY <1>1, <1>3, <2>1, <2>2, LedgerOn DEF LedgerNow
<1>10. Books'
  <2>1. turned' \subseteq Allocated'
    BY <1>1, <1>3, <1>7 DEF Standing
  <2> QED
    BY <1>1, <1>3, <1>7, <2>1 DEF Books
<1>11. Lifetimes'
  BY <1>1, <1>2, <1>3, <1>7, LifetimesStay
<1> QED
  BY <1>1, <1>2, <1>5, <1>8, <1>9, <1>10, <1>11 DEF LedgerState

(***************************************************************************)
(* Where no bar is over a corridor that may have to go, its removal frees  *)
(* only what is its own: a cell that nobody else holds is held by its      *)
(* owner, and what is in use is held by a patch.                           *)
(***************************************************************************)
LEMMA Clean ==
  ASSUME RegistryInv, LedgerInv, BarsClear
  PROVE  RemovalsClean
<1> SUFFICES ASSUME Ok(sys), phase = "rotated", NEW j \in Stale
             PROVE  CleanToRemove(sys, Coupler[j])
  BY DEF RemovalsClean
<1> DEFINE n == Coupler[j]
<1>1. /\ MapsSound(sys) /\ Layouts /\ OwnersHold /\ Tidy(sys)
      /\ Standing \subseteq DOMAIN sys.patch /\ Standing \subseteq Patches /\ step \in 1 .. NSteps
      /\ j \in routes /\ j \in 1 .. NSteps /\ n \in DOMAIN sys.held /\ n \notin Patches
  BY Now, RoutesHeld DEF Ready, Stale
<1>2. /\ DOMAIN sys.paused = {} /\ LedgerOf(sys, Standing, Standing, TRUE)
      /\ MayTurn(step, Turning) /\ j > step /\ Turning \in Targets(j)
  BY Rotating DEF Stale
<1>3. Dormant(j) /\ MayGo(j)
  <2>1. Dormant(j) /\ step \in 1 .. j - 1
    BY <1>1, <1>2, StepsAssumption DEF Dormant
  <2> QED
    BY <1>1, <1>2, <2>1 DEF Layouts, MayGo
<1> HIDE DEF n
<1> SUFFICES ASSUME NEW c \in Exclusive(sys, n)
             PROVE  c \in DOMAIN sys.at /\ sys.at[c] = n /\ sys.held[n][c] \notin sys.live
  BY DEF CleanToRemove, n
<1>4. c \in DOMAIN sys.held[n] /\ \A m \in DOMAIN sys.held : m # n => c \notin DOMAIN sys.held[m]
  BY DEF Exclusive
<1>5. c \in DOMAIN sys.index /\ c \in DOMAIN sys.at /\ sys.index[c] = sys.held[n][c]
  BY <1>1, <1>4 DEF MapsSound, HeldOnMap, OwnersAgree
<1>6. sys.at[c] = n
  <2>1. sys.at[c] \in DOMAIN sys.held /\ c \in DOMAIN sys.held[sys.at[c]]
    BY <1>1, <1>3, <1>4 DEF OwnersHold, n
  <2> QED
    BY <1>4, <2>1
<1>7. sys.held[n][c] \notin sys.live
  <2> SUFFICES ASSUME sys.index[c] \in sys.live PROVE FALSE
    BY <1>5
  <2>1. c \in InUse(sys)
    BY <1>5 DEF InUse
  <2>2. PICK q \in Standing : c \in sys.patch[q].data
    BY <1>2, <2>1 DEF LedgerOf
  <2>3. q \in DOMAIN sys.held /\ c \in DOMAIN sys.held[q] /\ q # n
    BY <1>1, <2>2 DEF Tidy, Shaped
  <2> QED
    BY <1>4, <2>3
<1> QED
  BY <1>5, <1>6, <1>7

\* A call in the loop that leaves the maps, the layouts and the patches.
LEMMA CallLedger ==
  ASSUME RegistryInv, LedgerInv, Ok(sys), ~ Early, ~ Early', newly = {}, Leaving => Leaving',
         UNCHANGED <<prog, step, routes, turned, newly, measured>>,
         phase \notin {"rotate", "rotated"}, phase' \notin {"rotate", "rotated"},
         Unmoved(sys, sys'),
         DOMAIN sys'.paused = IF phase' = "split" THEN {Coupler[step]} ELSE {},
         LedgerOf(sys', Standing, Standing, phase' # "done")
  PROVE  LedgerState'
<1>1. /\ Layouts /\ Books /\ Lifetimes /\ OwnersHold
  BY Now
<1>2. /\ Tidy(sys') /\ sys'.patch = sys.patch /\ sys'.held = sys.held /\ sys'.at = sys.at
      /\ sys'.tracked = sys.tracked
  BY DEF Unmoved
<1>3. sys.tracked /\ turned \subseteq Allocated
  BY <1>1 DEF Books
<1>4. \A j : Dormant(j)' => Dormant(j)
  BY DEF Dormant
<1>5. Layouts' /\ Allocated' = Allocated
  BY <1>1, <1>2, <1>4, LayoutsStay
<1>6. OwnersHold'
  BY <1>1, <1>2, <1>4, OwnersStay
<1>7. Standing' = Standing /\ (Standing \ newly)' = Standing
  BY <1>5 DEF Standing
<1>8. LedgerNow'
  <2>1. (phase' # "done") <=> (sys.tracked /\ phase # "done")'
    BY <1>2, <1>3
  <2> QED
    BY <1>7, <2>1, LedgerOn DEF LedgerNow
<1>9. Books'
  <2>1. phase' # "set up"
    BY DEF Early
  <2> QED
    BY <1>2, <1>3, <1>5, <2>1 DEF Books
<1>10. Lifetimes'
  BY <1>1, <1>5, <1>7, LifetimesStay
<1> QED
  BY <1>2, <1>5, <1>6, <1>8, <1>9, <1>10 DEF LedgerState

LEMMA StepMergeLedger ==
  ASSUME RegistryInv, LedgerInv, Merge, Ok(sys)'
  PROVE  LedgerState'
<1> DEFINE n == Coupler[step]
<1>1. /\ Ok(sys) /\ UNCHANGED <<prog, step, routes, turned, moving, newly, measured>>
      /\ phase = "merge" /\ phase' = "split"
      /\ sys' = ApplySyndromeExtraction(
                  Initialize(ActivateCoupler(sys, n), CorridorData(sys, n)))
  BY DEF Merge, Go
<1>2. /\ Ready(sys) /\ ControlSound /\ LedgerNow /\ Layouts /\ Books
  BY <1>1, Now
<1>3. /\ ~ Early /\ ~ Early' /\ ~ Leaving /\ newly = {} /\ DOMAIN sys.paused = {} /\ sys.tracked
  BY <1>1, <1>2 DEF Books, Early, Leaving
<1>4. LedgerOf(sys, Standing, Standing, TRUE)
  <2>1. Standing \ newly = Standing /\ phase # "done"
    BY <1>1, <1>3
  <2> QED
    BY <1>2, <1>3, <2>1, LedgerOn DEF LedgerNow
<1>5. n \in DOMAIN sys.patch
  BY <1>1, <1>2 DEF ControlSound, Layouts
<1> HIDE DEF n
<1>6. LedgerOf(sys', Standing, Standing, TRUE) /\ Unmoved(sys, sys') /\ DOMAIN sys'.paused = {n}
  BY <1>1, <1>2, <1>3, <1>4, <1>5, MergedLedger
<1>7. LedgerOf(sys', Standing, Standing, phase' # "done")
  BY <1>1, <1>6, LedgerOn
<1> QED
  BY <1>1, <1>3, <1>6, <1>7, CallLedger DEF n

LEMMA StepSplitLedger ==
  ASSUME RegistryInv, LedgerInv, Split, Ok(sys)'
  PROVE  LedgerState'
<1> DEFINE n == Coupler[step]
<1>1. /\ Ok(sys) /\ UNCHANGED <<prog, step, routes, turned, moving, newly, measured>>
      /\ phase = "split" /\ phase' = "retire"
      /\ sys' = ApplyDataReadout(DeactivateCoupler(sys, n), CorridorData(sys, n))
  BY DEF Split, Go
<1>2. /\ Ready(sys) /\ ControlSound /\ LedgerNow /\ Layouts /\ Books /\ Lifetimes
      /\ Clear(prog) /\ Standing \subseteq Patches /\ step \in 1 .. NSteps
  BY <1>1, Now
<1>3. /\ ~ Early /\ ~ Early' /\ ~ Leaving /\ newly = {} /\ DOMAIN sys.paused = {n} /\ sys.tracked
  BY <1>1, <1>2 DEF Books, Early, Leaving
<1>4. LedgerOf(sys, Standing, Standing, TRUE)
  <2>1. Standing \ newly = Standing /\ phase # "done"
    BY <1>1, <1>3
  <2> QED
    BY <1>2, <1>3, <2>1, LedgerOn DEF LedgerNow
<1>5. n \in DOMAIN sys.patch
  BY <1>1, <1>2 DEF ControlSound, Layouts
<1>6. ASSUME NEW p \in Standing PROVE sys.patch[p].data \cap sys.patch[n].data = {}
  <2>1. PICK T \in DOMAIN prog.steps[step].route : sys.patch[n] = prog.steps[step].route[T]
    BY <1>1, <1>2 DEF ControlSound, Layouts
  <2>2. p \in Patches /\ p \in Allocated /\ Present(prog, step, p)
    BY <1>2, <1>3 DEF Standing, Lifetimes, Present
  <2>3. sys.patch[p].data = Tile(p)
    BY <1>1, <1>2, <2>2, Tiles
  <2>4. prog.steps[step].route[T].data \cap Tile(p) = {}
    BY <1>2, <2>2, Apart
  <2> QED
    BY <2>1, <2>3, <2>4
<1> HIDE DEF n
<1>7. LedgerOf(sys', Standing, Standing, TRUE) /\ Unmoved(sys, sys') /\ DOMAIN sys'.paused = {}
  BY <1>1, <1>2, <1>3, <1>4, <1>5, <1>6, SplitLedger
<1>8. LedgerOf(sys', Standing, Standing, phase' # "done")
  BY <1>1, <1>7, LedgerOn
<1> QED
  BY <1>1, <1>3, <1>7, <1>8, CallLedger

LEMMA StepReadOutLedger ==
  ASSUME RegistryInv, LedgerInv, ReadOut, Ok(sys)'
  PROVE  LedgerState'
<1>1. /\ Ok(sys) /\ UNCHANGED <<prog, step, routes, turned, moving, newly, measured>>
      /\ phase = "read out" /\ phase' = "done"
      /\ sys' = ApplyDataReadout(sys, UNION {OwnedData(sys, p) : p \in Standing})
  BY DEF ReadOut, Go
<1>2. /\ Ready(sys) /\ LedgerNow /\ Books /\ Standing \subseteq DOMAIN sys.patch
  BY <1>1, Now
<1>3. /\ ~ Early /\ ~ Early' /\ Leaving' /\ newly = {} /\ DOMAIN sys.paused = {} /\ sys.tracked
  BY <1>1, <1>2 DEF Books, Early, Leaving
<1>4. LedgerOf(sys, Standing, Standing, TRUE)
  <2>1. Standing \ newly = Standing /\ phase # "done"
    BY <1>1, <1>3
  <2> QED
    BY <1>2, <1>3, <2>1, LedgerOn DEF LedgerNow
<1>5. LedgerOf(sys', Standing, Standing, FALSE) /\ Unmoved(sys, sys') /\ sys'.paused = sys.paused
  BY <1>1, <1>2, <1>3, <1>4, ReadOutLedger
<1>6. LedgerOf(sys', Standing, Standing, phase' # "done")
  BY <1>1, <1>5, LedgerOn
<1> QED
  BY <1>1, <1>3, <1>5, <1>6, CallLedger

LEMMA StepRetireLedger ==
  ASSUME RegistryInv, LedgerInv, RetireConsumed, Ok(sys)'
  PROVE  LedgerState'
<1>1. /\ Ok(sys) /\ UNCHANGED <<prog, step, routes, turned, moving, newly>>
      /\ phase = "retire" /\ phase' = "retire"
  BY DEF RetireConsumed, Go
<1>2. /\ Ready(sys) /\ LedgerNow /\ Layouts /\ Books /\ Lifetimes /\ OwnersHold
      /\ Standing \subseteq DOMAIN sys.patch /\ Standing \subseteq Used /\ step \in 1 .. NSteps
  BY <1>1, Now
<1>3. /\ ~ Early /\ ~ Early' /\ Leaving' /\ newly = {} /\ DOMAIN sys.paused = {} /\ sys.tracked
      /\ turned \subseteq Allocated
  BY <1>1, <1>2 DEF Books, Early, Leaving
<1>4. LedgerOf(sys, Standing, Standing, TRUE)
  <2>1. Standing \ newly = Standing /\ phase # "done"
    BY <1>1, <1>3
  <2> QED
    BY <1>2, <1>3, <2>1, LedgerOn DEF LedgerNow
<1>5. PICK p \in Consumed :
        /\ sys' = RetireMeasuredPatch(ApplyDataReadout(sys, OwnedData(sys, p)), p)
        /\ measured' = measured \cup {p}
  BY DEF RetireConsumed
<1>6. p \in Standing /\ LastUse(p) <= step
  BY <1>5 DEF Consumed
<1>7. LedgerOf(sys', Standing \ {p}, Standing \ {p}, TRUE) /\ Unmoved(sys, sys')
      /\ sys'.paused = sys.paused
  BY <1>2, <1>3, <1>4, <1>5, <1>6, RetiredLedger
<1>8. /\ Tidy(sys') /\ sys'.patch = sys.patch /\ sys'.held = sys.held /\ sys'.at = sys.at
      /\ sys'.tracked = sys.tracked
  BY <1>7 DEF Unmoved
<1>9. \A j : Dormant(j)' => Dormant(j)
  BY <1>1, <1>3 DEF Dormant
<1>10. Layouts' /\ Allocated' = Allocated
  BY <1>1, <1>2, <1>8, <1>9, LayoutsStay
<1>11. OwnersHold'
  BY <1>1, <1>2, <1>8, <1>9, OwnersStay
<1>12. Standing' = Standing \ {p} /\ (Standing \ newly)' = Standing \ {p}
  BY <1>1, <1>3, <1>5, <1>10 DEF Standing
<1>13. LedgerNow'
  <2>1. TRUE <=> (sys.tracked /\ phase # "done")'
    BY <1>1, <1>3, <1>8
  <2> QED
    BY <1>7, <1>12, <2>1, LedgerOn DEF LedgerNow
<1>14. Books'
  BY <1>1, <1>3, <1>7, <1>8, <1>10 DEF Books
<1>15. Lifetimes'
  <2>1. \A q : UsesOf(q)' = UsesOf(q)
    BY <1>1, ProgSame
  <2>2. \A i \in UsesOf(p) : i <= step
    <3>1. UsesOf(p) # {}
      BY <1>2, <1>6 DEF Used
    <3>2. /\ UsesOf(p) \subseteq 1 .. NSteps /\ LastUse(p) \in UsesOf(p)
          /\ \A i \in UsesOf(p) : LastUse(p) >= i
      BY <3>1, Ends
    <3> QED
      BY <1>2, <1>6, <3>2, StepsAssumption
  <2>3. \A q \in measured' : \A i \in UsesOf(q)' : i <= step' /\ (i = step' => Leaving')
    BY <1>1, <1>2, <1>3, <1>5, <2>1, <2>2 DEF Lifetimes
  <2>4. measured' \subseteq Allocated'
    BY <1>2, <1>5, <1>6, <1>10 DEF Lifetimes, Standing
  <2>5. \A q \in Standing' : Begun(prog', step', q) /\ (Leaving' \/ Lasting(prog', step', q))
    BY <1>1, <1>2, <1>3, <1>12 DEF Lifetimes
  <2> QED
    BY <2>3, <2>4, <2>5 DEF Lifetimes
<1> QED
  BY <1>8, <1>10, <1>11, <1>13, <1>14, <1>15 DEF LedgerState

LEMMA StepNextLedger ==
  ASSUME RegistryInv, LedgerInv, NextStep, Ok(sys)'
  PROVE  LedgerState'
<1>1. /\ Ok(sys) /\ UNCHANGED <<prog, sys, routes, turned, moving, newly, measured>>
      /\ phase = "retire" /\ phase' = (IF step = NSteps THEN "read out" ELSE "bring in")
      /\ Consumed = {} /\ step' = IF step = NSteps THEN step ELSE step + 1
  BY DEF NextStep, Go
<1>2. /\ LedgerNow /\ Layouts /\ Books /\ Lifetimes /\ OwnersHold /\ Tidy(sys)
      /\ Standing \subseteq Used /\ step \in 1 .. NSteps /\ NSteps \in Nat
  BY <1>1, Now, StepsAssumption
<1>3. /\ ~ Early /\ ~ Early' /\ newly = {} /\ DOMAIN sys.paused = {} /\ sys.tracked
      /\ turned \subseteq Allocated /\ step' >= step /\ step' \in 1 .. NSteps
  <2>1. step' >= step /\ step' \in 1 .. NSteps
    <3>1. step' = IF step = NSteps THEN step ELSE step + 1
      BY <1>1
    <3>2. NSteps \in Nat /\ step \in 1 .. NSteps
      BY <1>2
    <3>3. CASE step = NSteps
      BY <3>1, <3>2, <3>3
    <3>4. CASE step # NSteps
      BY <3>1, <3>2, <3>4
    <3> QED
      BY <3>3, <3>4
  <2> QED
    BY <1>1, <1>2, <2>1 DEF Books, Early
<1>4. \A j \in routes' : Dormant(j)' => Dormant(j)
  <2>1. ASSUME NEW j \in routes', j > step' PROVE j > step
    <3>1. j \in 1 .. NSteps
      BY <1>1, RoutesHeld
    <3> QED
      BY <1>2, <1>3, <2>1, <3>1
  <2> QED
    BY <1>3, <2>1 DEF Dormant
<1>5. Layouts' /\ Allocated' = Allocated
  BY <1>1, <1>2, <1>4, LayoutsStay
<1>6. OwnersHold'
  BY <1>1, <1>2, <1>4, OwnersStay
<1>7. Standing' = Standing
  BY <1>1, <1>5 DEF Standing
<1>8. LedgerNow'
  <2>1. (sys.tracked /\ phase # "done") <=> (sys.tracked /\ phase # "done")'
    BY <1>1, <1>3
  <2> QED
    BY <1>1, <1>2, <1>7, <2>1, LedgerOn DEF LedgerNow
<1>9. Books'
  BY <1>1, <1>3, <1>5 DEF Books
<1>10. Lifetimes'
  <2>1. \A q : UsesOf(q)' = UsesOf(q) /\ UsesOf(q) \subseteq 1 .. NSteps
    BY <1>1, ProgSame DEF UsesOf
  <2>2. measured' \subseteq Allocated'
    BY <1>1, <1>2, <1>5 DEF Lifetimes
  <2>3. CASE step = NSteps
    <3>1. Leaving' /\ step' = step
      BY <1>1, <2>3 DEF Leaving
    <3> QED
      BY <1>1, <1>2, <1>3, <1>7, <2>1, <2>2, <3>1 DEF Lifetimes
  <2>4. CASE step # NSteps
    <3>1. step' = step + 1 /\ step + 1 \in 1 .. NSteps
      BY <1>1, <1>3, <2>4
    <3>2. ASSUME NEW q \in measured', NEW i \in UsesOf(q)' PROVE i <= step' /\ (i = step' => Leaving')
      <4>1. i <= step /\ i \in 1 .. NSteps
        BY <1>1, <1>2, <2>1 DEF Lifetimes
      <4> QED
        BY <1>2, <3>1, <4>1
    <3>3. ASSUME NEW q \in Standing' PROVE Begun(prog', step', q) /\ Lasting(prog', step', q)
      <4>1. q \in Standing /\ Begun(prog, step, q) /\ UsesOf(q) # {}
        BY <1>2, <1>3, <1>7 DEF Lifetimes, Used
      <4>2. Begun(prog, step + 1, q)
        <5>1. PICK j \in 1 .. (IF prog.deferred THEN step ELSE NSteps) : UsedAt(prog, j, q)
          BY <4>1 DEF Begun
        <5>2. j \in 1 .. (IF prog.deferred THEN step + 1 ELSE NSteps)
          BY <1>2
        <5> QED
          BY <5>1, <5>2 DEF Begun
      <4>3. Lasting(prog, step + 1, q)
        <5>1. CASE q \in prog.keep
          BY <5>1 DEF Lasting
        <5>2. CASE q \notin prog.keep
          <6>1. LastUse(q) \in UsesOf(q) /\ LastUse(q) \in 1 .. NSteps
            BY <2>1, <4>1, Ends
          <6>2. ~ (LastUse(q) <= step)
            BY <1>1, <2>4, <4>1, <5>2 DEF Consumed
          <6>3. LastUse(q) \in step + 1 .. NSteps
            BY <1>2, <6>1, <6>2
          <6>4. UsedAt(prog, LastUse(q), q)
            BY <6>1 DEF UsesOf, UsedAt, Targets
          <6> QED
            BY <6>3, <6>4 DEF Lasting
        <5> QED
          BY <5>1, <5>2
      <4> QED
        BY <1>1, <3>1, <4>2, <4>3
    <3> QED
      BY <2>2, <3>2, <3>3 DEF Lifetimes
  <2> QED
    BY <2>3, <2>4
<1> QED
  BY <1>1, <1>2, <1>5, <1>6, <1>8, <1>9, <1>10 DEF LedgerState

-----------------------------------------------------------------------------
(* The invariant and the theorems.                                          *)

LEMMA InitLedger ==
  ASSUME Init PROVE LedgerInv
<1>1. /\ sys.coord = Empty /\ sys.of = Empty /\ sys.data = {} /\ sys.syn = {}
      /\ sys.live = {} /\ sys.held = Empty /\ sys.patch = Empty /\ sys.paused = Empty
      /\ sys.tracked = FALSE /\ sys.retired = {}
  BY DEF Init, NewSystem
<1>2. DOMAIN Empty = {}
  BY DEF Empty
<1>3. /\ prog \in Programs /\ step = 1 /\ phase = "up front"
      /\ routes = {} /\ turned = {} /\ newly = {} /\ measured = {}
  BY DEF Init
<1>4. Allocated = {} /\ Standing = {}
  BY <1>1, <1>2 DEF Allocated, Standing
<1>5. Clear(prog)
  BY <1>3, ClearAssumption
<1>6. Tidy(sys)
  <2>1. SitesSorted(sys)
    BY <1>1, <1>2 DEF SitesSorted
  <2>2. OwnersNamed(sys) /\ Shaped(sys)
    BY <1>1, <1>2 DEF OwnersNamed, Shaped
  <2> QED
    BY <2>1, <2>2 DEF Tidy
<1>7. Books
  BY <1>1, <1>2, <1>3, <1>4 DEF Books, Early
<1>8. Lifetimes
  BY <1>3 DEF Lifetimes, Early
<1>9. Layouts /\ OwnersHold
  BY <1>3, <1>4 DEF Layouts, OwnersHold
<1>10. LedgerExact
  BY <1>1, <1>4 DEF LedgerExact
<1> QED
  BY <1>5, <1>6, <1>7, <1>8, <1>9, <1>10 DEF LedgerInv

LEMMA NextLedger ==
  ASSUME RegistryInv, LedgerInv, RemovalsClean, Next, ~ Done, Ok(sys)'
  PROVE  LedgerState'
<1>1. CASE AllocateUpFront \/ AllocateFirstUsed
  BY <1>1, StepAllocate
<1>2. CASE RegisterUpFront \/ SetUp
  BY <1>2, StepRegisterUpFront, StepSetUp
<1>3. CASE BringIn
  BY <1>3, StepBringInLedger
<1>4. CASE UseRegistered \/ RegisterStep \/ BeginRepair
  BY <1>4, StepUseRegistered, StepRegisterLedger, StepBeginRepair
<1>5. CASE \/ RotateGrow \/ RotateMoveCorners \/ RotateShrink \/ RotateGrowBack
           \/ RotateShrinkHome
  BY <1>5, StepRotateLedger
<1>6. CASE Invalidate \/ Rotated
  BY <1>6, StepInvalidateLedger, StepRotatedLedger
<1>7. CASE Merge \/ Split
  BY <1>7, StepMergeLedger, StepSplitLedger
<1>8. CASE RetireConsumed \/ NextStep \/ ReadOut
  BY <1>8, StepRetireLedger, StepNextLedger, StepReadOutLedger
<1> QED
  BY <1>1, <1>2, <1>3, <1>4, <1>5, <1>6, <1>7, <1>8 DEF Next

\* The program does not change.
LEMMA ProgramKept ==
  ASSUME [Next]_vars PROVE UNCHANGED prog
<1>1. CASE \/ AllocateUpFront \/ RegisterUpFront \/ SetUp \/ AllocateFirstUsed \/ BringIn
           \/ UseRegistered \/ RegisterStep \/ BeginRepair
  BY <1>1 DEF AllocateUpFront, RegisterUpFront, SetUp, AllocateFirstUsed, BringIn,
     UseRegistered, RegisterStep, BeginRepair
<1>2. CASE \/ RotateGrow \/ RotateMoveCorners \/ RotateShrink \/ RotateGrowBack
           \/ RotateShrinkHome \/ Invalidate \/ Rotated
  BY <1>2 DEF RotateGrow, RotateMoveCorners, RotateShrink, RotateGrowBack,
     RotateShrinkHome, Stage, Invalidate, Rotated
<1>3. CASE \/ Merge \/ Split \/ RetireConsumed \/ NextStep \/ ReadOut
  BY <1>3 DEF Merge, Split, RetireConsumed, NextStep, ReadOut
<1>4. CASE Done \/ UNCHANGED vars
  BY <1>4 DEF Done, vars
<1> QED
  BY <1>1, <1>2, <1>3, <1>4 DEF Next

LEMMA LedgerStuttered ==
  ASSUME LedgerInv, UNCHANGED vars PROVE LedgerInv'
<1>1. /\ UNCHANGED <<prog, sys, step, phase, routes, turned, moving, newly, measured>>
  BY DEF vars
<1>2. UNCHANGED <<Used, UpFront, Allocated, Standing, Turning, HomeY, Early, Leaving>>
  <2>1. Used' = Used /\ UpFront' = UpFront
    BY <1>1, ProgSame
  <2>2. Allocated' = Allocated
    BY <1>1, <2>1 DEF Allocated
  <2>3. Standing' = Standing
    BY <1>1, <2>2 DEF Standing
  <2>4. UNCHANGED <<Turning, Early, Leaving>>
    BY <1>1 DEF Turning, Early, Leaving
  <2>5. HomeY' = HomeY
    BY <2>4 DEF HomeY
  <2> QED
    BY <2>1, <2>2, <2>3, <2>4, <2>5
<1>3. /\ \A i : Targets(i)' = Targets(i)
      /\ \A p : UsesOf(p)' = UsesOf(p)
      /\ \A i, p : MayTurn(i, p)' <=> MayTurn(i, p)
      /\ \A j : (Waits(j)' <=> Waits(j)) /\ (MayGo(j)' <=> MayGo(j))
      /\ BarsClear' <=> BarsClear
  BY <1>1, ProgSame
<1>4. Clear(prog)'
  BY <1>1 DEF LedgerInv
<1>5. ASSUME Ok(sys)' PROVE Tidy(sys)' /\ Books'
  <2>1. Tidy(sys) /\ Books
    BY <1>1, <1>5 DEF LedgerInv
  <2>2. \A p : OwnedData(sys, p)' = OwnedData(sys, p)
    BY <1>1
  <2> QED
    BY <1>1, <1>2, <1>3, <2>1, <2>2 DEF Books
<1>6. ASSUME Ok(sys)' PROVE Lifetimes'
  BY <1>1, <1>2, <1>3, <1>6 DEF LedgerInv, Lifetimes
<1>7. \A j : Dormant(j)' <=> Dormant(j)
  BY <1>1, <1>2 DEF Dormant
<1>8. ASSUME Ok(sys)' PROVE Layouts'
  <2>1. \A p : LayoutsOf(p)' = LayoutsOf(p)
    BY <1>1, <1>2 DEF LayoutsOf
  <2> QED
    BY <1>1, <1>2, <1>3, <1>7, <1>8, <2>1 DEF LedgerInv, Layouts
<1>9. ASSUME Ok(sys)' PROVE OwnersHold'
  BY <1>1, <1>2, <1>3, <1>7, <1>9 DEF LedgerInv, OwnersHold
<1>10. LedgerExact'
  BY <1>1, <1>2 DEF LedgerInv, LedgerExact, CorridorData
<1> QED
  BY <1>4, <1>5, <1>6, <1>8, <1>9, <1>10 DEF LedgerInv

LEMMA LedgerStep ==
  ASSUME RegistryInv, LedgerInv, RemovalsClean, [Next]_vars
  PROVE  LedgerInv'
<1>1. CASE UNCHANGED vars
  BY <1>1, LedgerStuttered
<1>2. CASE Next /\ ~ Done
  <2>1. RegistryInv'
    BY StepSound
  <2>2. UNCHANGED prog
    BY ProgramKept
  <2>3. Clear(prog)'
    BY <2>2 DEF LedgerInv
  <2>4. Ok(sys)' => LedgerState'
    BY <1>2, NextLedger
  <2> QED
    BY <2>1, <2>3, <2>4, Closing DEF LedgerState
<1> QED
  BY <1>1, <1>2 DEF Done

(***************************************************************************)
(* Unless a coupler is removed that is not clean to remove, the ledgers of *)
(* use are exact, for programs under the contract of placement and         *)
(* routing: between any two calls the live qubits are the data of the      *)
(* standing patches and of the open corridor, and what a patch owns and    *)
(* has not retired is the data of its geometry.                            *)
(***************************************************************************)
THEOREM LedgerCorrect ==
  Spec /\ []RemovalsClean => []LedgerExact
<1>1. Init => LedgerInv
  BY InitLedger
<1>2. RegistryInv /\ LedgerInv /\ RemovalsClean /\ [Next]_vars => LedgerInv'
  BY LedgerStep
<1>3. LedgerInv => LedgerExact
  BY DEF LedgerInv
<1> QED
  BY <1>1, <1>2, <1>3, RegistryKept, PTL DEF Spec

(***************************************************************************)
(* With no bar over a corridor that may have to go, every removal is clean *)
(* and nothing more is assumed: the maps agree, the ledgers are exact, and *)
(* _invalidate_downstream_registration frees only what is the coupler's.   *)
(***************************************************************************)
THEOREM RegistryAlwaysSound ==
  Spec /\ BarsClear => []RegistrySound
<1> DEFINE J == BarsClear /\ RegistryInv /\ LedgerInv
<1>1. Init /\ BarsClear => J
  BY InitSound, InitLedger
<1>2. J => RemovalsClean
  BY Clean
<1>3. J /\ [Next]_vars => J'
  <2>1. ASSUME J, [Next]_vars PROVE RegistryInv' /\ LedgerInv'
    BY <1>2, <2>1, StepSound, LedgerStep
  <2>2. ASSUME BarsClear, [Next]_vars PROVE BarsClear'
    BY <2>2, ProgramKept, ProgSame
  <2> QED
    BY <2>1, <2>2
<1>4. J => RegistrySound
  BY <1>2 DEF RegistrySound
<1> QED
  BY <1>1, <1>3, <1>4, PTL DEF Spec

(***************************************************************************)
(* So with no such bar the maps agree and the ledgers are exact whatever   *)
(* the program does,                                                       *)
(***************************************************************************)
THEOREM MapsAlwaysAgree ==
  Spec /\ BarsClear => [](MapsAgree /\ LedgerExact)
<1>1. RegistrySound => MapsAgree /\ LedgerExact
  BY DEF RegistrySound, LedgerInv, RegistryInv, MapsSound, MapsAgree
<1> QED
  BY <1>1, RegistryAlwaysSound, PTL

(***************************************************************************)
(* and a freed index stays free: remove_coupler's comment is true of every *)
(* such program.                                                           *)
(***************************************************************************)
THEOREM FreedStaysFreeWithoutBars ==
  Spec /\ BarsClear => FreedStaysFree
<1>1. RegistrySound => RemovalsClean
  BY DEF RegistrySound
<1> QED
  BY <1>1, RegistryAlwaysSound, FreedIndexStaysFree, PTL
=============================================================================
