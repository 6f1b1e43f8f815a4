----------------------------- MODULE QECSystem -----------------------------
(***************************************************************************)
(* The registry of qubits and checks (lightstim/ir/qec_system.py), with    *)
(* the builder's calls that it keeps its books for (builder.py).  A        *)
(* registry s is a record; every operation is an operator that returns the *)
(* registry it leaves, with s.fault naming the exception it raised.        *)
(*   index, coord   index_map (coordinate -> index), qubit_coords          *)
(*   at, of         coord_to_owner_map, index_to_owner_map                 *)
(*   data, syn      the category sets;  live: active_qubit_indices         *)
(*   recs, uidOf    stabilizers, _stabilizer_signatures                    *)
(*   active, paused active_stabilizer_indices, paused_stabilizer_indices   *)
(*   held, uids     local_to_global_map (a local index is its coordinate), *)
(*                  _registered_stabilizer_uids                            *)
(*   patch, order   patches (the geometry), and their registration order   *)
(*   retired        the tracker's retired qubits, once there is a tracker  *)
(*   declared, touched  the indices with QUBIT_COORDS, and those some      *)
(*                  instruction of the circuit acts on                     *)
(* A geometry is [data, cells, checks, pauses]; grid_map mirrors index_map *)
(* and the logical records play no part.                                   *)
(***************************************************************************)
EXTENDS Integers, Sequences, FiniteSets, SequencesExt

Empty == [x \in {} |-> x]
Only(f, S) == [x \in S |-> f[x]]
Image(f) == {f[x] : x \in DOMAIN f}
Over(f, g) == [x \in DOMAIN f \cup DOMAIN g |-> IF x \in DOMAIN f THEN f[x] ELSE g[x]]
Put(f, x, v) == Over([y \in {x} |-> v], f)
Nobody == "nobody"                      \* no owner (None, or no entry)

NewSystem ==
  [index |-> Empty, coord |-> Empty, at |-> Empty, of |-> Empty, next |-> 0,
   data |-> {}, syn |-> {}, live |-> {}, recs |-> <<>>, uidOf |-> Empty,
   active |-> {}, paused |-> Empty, held |-> Empty, uids |-> Empty,
   patch |-> Empty, order |-> <<>>, tracked |-> FALSE, retired |-> {},
   declared |-> {}, touched |-> {}, fault |-> "none"]

Fields == DOMAIN NewSystem

Fail(s, what) == [s EXCEPT !.fault = what]
Ok(s) == s.fault = "none"

Owned(s, n) == {i \in DOMAIN s.of : s.of[i] = n}
OwnedData(s, n) == Owned(s, n) \cap s.data
LiveData(s, n) == OwnedData(s, n) \ s.retired
RecordsOf(s, n) == {u \in DOMAIN s.recs : s.recs[u].by = n}
At(f, I) == {f[i] : i \in I}
Coords(s, I) == At(s.coord, I)

Geometry(g) ==
  IsFiniteSet(g.cells) /\ g.cells \subseteq Int \X Int /\ g.data \subseteq g.cells

\* The place of c in the coordinates C, for handing out indices.
Rank(c, C) ==
  Cardinality({b \in C : b[2] < c[2] \/ (b[2] = c[2] /\ b[1] < c[1])})

(***************************************************************************)
(* Every cell of the geometry belongs to n from here on: a known           *)
(* coordinate keeps its index and is no longer retired, an unknown one     *)
(* gets the next.                                                          *)
(***************************************************************************)
Fresh(s, g) == g.cells \ DOMAIN s.index

IndexOf(s, g, fresh) ==
  [c \in g.cells |-> IF c \in fresh THEN s.next + Rank(c, fresh) ELSE s.index[c]]

OccupyAt(s, n, g, idx, mine) ==
  [s EXCEPT
     !.index = Over(idx, @),
     !.coord = Over([i \in mine |-> CHOOSE c \in g.cells : idx[c] = i], @),
     !.at    = Over([c \in g.cells |-> n], @),
     !.of    = Over([i \in mine |-> n], @),
     !.next  = @ + Cardinality(Fresh(s, g)),
     !.data  = @ \cup {idx[c] : c \in g.data},
     !.syn   = @ \cup {idx[c] : c \in g.cells \ g.data},
     !.retired = @ \ mine,
     !.held  = Put(@, n, idx)]

OccupyBy(s, n, g, idx) == OccupyAt(s, n, g, idx, Image(idx))
Occupy(s, n, g) == OccupyBy(s, n, g, IndexOf(s, g, Fresh(s, g)))

(***************************************************************************)
(* A check in the indices of the system, and its identity: the same check  *)
(* registered again keeps its uid and takes the newest record.             *)
(***************************************************************************)
Translate(s, n, k) ==
  [type |-> k.type, on |-> {s.index[c] : c \in k.on}, anc |-> s.index[k.at],
   at |-> k.at, by |-> n]
Signature(r) == <<r.type, r.on, r.anc>>

\* A bug: a check registered again stays in its former owner's name.
Newest_Stale(s, u, r) == IF u \in DOMAIN s.recs THEN s.recs[u] ELSE r
Newest(s, u, r) == r

Unknown(s, rec) == {k \in DOMAIN rec : Signature(rec[k]) \notin DOMAIN s.uidOf}

UidOf(s, rec, new) ==
  [k \in DOMAIN rec |-> IF k \in new
                        THEN Len(s.recs) + 1 + Rank(k.at, {m.at : m \in new})
                        ELSE s.uidOf[Signature(rec[k])]]

RecordAs(s, n, g, rec, uid) ==
  LET check(u) == CHOOSE k \in DOMAIN rec : uid[k] = u
  IN [s EXCEPT
        !.recs  = [u \in 1 .. Cardinality(DOMAIN @ \cup Image(uid)) |->
                     IF u \in Image(uid) THEN Newest(s, u, rec[check(u)]) ELSE @[u]],
        !.uidOf = Over([x \in {Signature(rec[k]) : k \in DOMAIN rec} |->
                          uid[CHOOSE k \in DOMAIN rec : Signature(rec[k]) = x]], @),
        !.uids  = Put(@, n, Image(uid)),
        !.patch = Put(@, n, g)]

RecordAll(s, n, g, rec) == RecordAs(s, n, g, rec, UidOf(s, rec, Unknown(s, rec)))

RegisterChecks(s, n, g) ==
  IF ~ UNION {k.on \cup {k.at} : k \in g.checks} \subseteq DOMAIN s.index
  THEN Fail(s, "coordinate not found")
  ELSE RecordAll(s, n, g, [k \in g.checks |-> Translate(s, n, k)])

\* A bug: cells that appear during the build are never declared.
DeclareFrom_Never(s, old) == s

\* append_coordinates_for_new_qubits, once a builder is registered.
DeclareFrom(s, old) ==
  [s EXCEPT !.declared =
     IF s.tracked THEN @ \cup {i \in DOMAIN s.coord : i >= old} ELSE @]

Blocked(s, n, g) ==
  \E c \in g.cells \cap DOMAIN s.index : s.index[c] \in s.live

Enter(s, n, g) == DeclareFrom(RegisterChecks(Occupy(s, n, g), n, g), s.next)

Listed(t, n, isActive) ==
  IF ~ Ok(t) THEN t
  ELSE [t EXCEPT !.order = Append(@, n),
                 !.active = IF isActive THEN @ \cup t.uids[n] ELSE @]

\* add_patch: nothing is registered when a cell is taken.
AddPatch(s, n, g, isActive) ==
  IF n \in DOMAIN s.patch THEN Fail(s, "already exists")
  ELSE IF Blocked(s, n, g) THEN Fail(s, "collision")
  ELSE Listed(Enter(s, n, g), n, isActive)

Replaced(s, t, n) ==
  IF ~ Ok(t) THEN t ELSE [t EXCEPT !.active = (@ \ RecordsOf(s, n)) \cup t.uids[n]]

\* _apply_patch_geometry: the engine of the three deformations.
ApplyGeometry(s, n, g) ==
  IF \E c \in g.cells \cap DOMAIN s.index :
       s.at[c] # n /\ s.index[c] \in s.live
  THEN Fail(s, "collision")
  ELSE Replaced(s, Enter(s, n, g), n)

GrowPatch(s, n, g) ==
  IF ~ Coords(s, LiveData(s, n)) \subseteq g.cells
  THEN Fail(s, "does not cover the patch")
  ELSE ApplyGeometry(s, n, g)

\* A bug: a cell the patch measured out earlier counts as still in use.
NewData_OnlyForeign(s, n, g) ==
  {i \in At(IndexOf(s, g, Fresh(s, g)), g.data) : i \notin Owned(s, n)}

\* The data qubits a deformation returns for the caller to initialise.
NewData(s, n, g) ==
  {i \in At(IndexOf(s, g, Fresh(s, g)), g.data) :
     i \notin Owned(s, n) \/ i \in s.retired}

MoveCorners(s, n, g) ==
  IF Coords(s, LiveData(s, n)) # g.data THEN Fail(s, "footprint must be unchanged")
  ELSE IF NewData(s, n, g) # {} THEN Fail(s, "new data in move_corners")
  ELSE GrowPatch(s, n, g)

Measuring(t) == {t.recs[u].anc : u \in t.active}
Removed(s, n, g) == {i \in LiveData(s, n) : s.coord[i] \notin g.data}

\* The checks of n in t that were measured before, or are one that was, cut
\* down to the data qubits that stay.
Continued(s, t, n, before, stays) ==
  {u \in t.active \cap RecordsOf(t, n) :
     \/ u \in before
     \/ \E v \in before : /\ s.recs[v].type = t.recs[u].type
                          /\ s.recs[v].on \cap stays = t.recs[u].on}

Covered(recs, safe, stays) ==
  \A i \in stays, type \in {"X", "Z"} :
    \E u \in safe : recs[u].type = type /\ i \in recs[u].on

ShrinkIfCovered(s, t, n, removed, stays) ==
  IF ~ Ok(t) THEN t
  ELSE IF ~ Covered(t.recs,
                    Continued(s, t, n, s.active \cap RecordsOf(s, n), stays), stays)
  THEN Fail(t, "detection-coverage handoff broken")
  ELSE [t EXCEPT !.retired = @ \cup removed,
                 !.live = (@ \ removed)
                            \ ((t.syn \cap Owned(t, n)) \ Measuring(t))]

(***************************************************************************)
(* shrink_patch, after the removed qubits were measured.  Every surviving  *)
(* data qubit must stay under checks of both types that were there before  *)
(* or are cut down from one that was.                                      *)
(***************************************************************************)
ShrinkPatch(s, n, g) ==
  IF ~ g.data \subseteq Coords(s, LiveData(s, n)) THEN Fail(s, "adds data qubits")
  ELSE IF Removed(s, n, g) = {} THEN Fail(s, "nothing to remove")
  ELSE ShrinkIfCovered(s, ApplyGeometry(s, n, g), n,
                       Removed(s, n, g), LiveData(s, n) \ Removed(s, n, g))

RetireMeasuredPatch(s, n) ==
  IF OwnedData(s, n) = {} THEN s
  ELSE [s EXCEPT !.active  = @ \ RecordsOf(s, n),
                 !.retired = @ \cup OwnedData(s, n),
                 !.live    = @ \ (OwnedData(s, n) \cup (s.syn \cap Owned(s, n)))]

\* A coupler is a patch whose checks wait for activate_coupler.
RegisterCoupler(s, n, g) == AddPatch(s, n, g, FALSE)

ActivateCoupler(s, n) ==
  IF n \in DOMAIN s.paused THEN s
  ELSE LET hit == {u \in s.active : s.recs[u].at \in s.patch[n].pauses}
       IN  [s EXCEPT !.paused = Put(@, n, hit),
                     !.active = (@ \ hit) \cup (s.uids[n] \ hit)]

DeactivateCoupler(s, n) ==
  IF n \notin DOMAIN s.paused THEN s
  ELSE [s EXCEPT !.paused = Only(@, DOMAIN @ \ {n}),
                 !.active = (@ \ s.uids[n]) \cup s.paused[n]]

(***************************************************************************)
(* remove_coupler.  What another patch or coupler still holds passes to    *)
(* the first of them in registration order; the rest is freed, and its     *)
(* declarations leave the circuit.                                         *)
(***************************************************************************)
FirstOf(s, holders) ==
  LET places == {k \in DOMAIN s.order : s.order[k] \in holders}
  IN  IF places = {} THEN Nobody ELSE s.order[Min(places)]

OtherHolders(s, n, i) == {m \in DOMAIN s.held \ {n} : i \in Image(s.held[m])}

\* A bug: what the coupler mapped is freed whoever else maps it.
HeirOfCell_None(s, n, i) == Nobody
HeirOfCell(s, n, i)  == FirstOf(s, OtherHolders(s, n, i))
HeirOfCheck(s, n, u) == FirstOf(s, {m \in DOMAIN s.uids \ {n} : u \in s.uids[m]})

Freed(s, n, heirOf, heirTo, free, lapse) ==
  LET checks == DOMAIN heirTo
      left   == DOMAIN s.patch \ {n}
  IN  [s EXCEPT
        !.at     = [c \in DOMAIN @ \ lapse |->
                      IF @[c] = n THEN heirOf[s.index[c]] ELSE @[c]],
        !.index  = Only(@, DOMAIN @ \ lapse),
        !.data   = @ \ free,
        !.syn    = @ \ free,
        !.active = @ \ checks,
        !.recs   = [u \in DOMAIN @ |-> IF u \in checks
                      THEN [@[u] EXCEPT !.by = heirTo[u]] ELSE @[u]],
        !.uidOf  = Only(@, {x \in DOMAIN @ :
                      ~ (@[x] \in checks /\ heirTo[@[x]] = Nobody)}),
        !.of     = [i \in DOMAIN @ \ free |->
                      IF i \in DOMAIN heirOf /\ @[i] = n THEN heirOf[i] ELSE @[i]],
        !.coord  = Only(@, DOMAIN @ \ free),
        !.declared = IF s.tracked THEN @ \ free ELSE @,
        !.held   = Only(@, left), !.uids = Only(@, left),
        !.patch  = Only(@, left),
        !.order  = RemoveAt(@, CHOOSE k \in DOMAIN @ : @[k] = n)]

Heirless(heirOf) == {i \in DOMAIN heirOf : heirOf[i] = Nobody}

\* A bug: its coordinates lapse whoever else holds the cells.
Lapsing_Shared(s, n, heirOf) == {c \in DOMAIN s.at : s.at[c] = n}

\* A bug: the maps of coordinates are not cleared.
Lapsing_None(s, n, heirOf) == {}

\* Its coordinates in the owner map, but for the cells that pass on.
Lapsing(s, n, heirOf) ==
  {c \in DOMAIN s.at :
     s.at[c] = n /\ s.index[c] \notin DOMAIN heirOf \ Heirless(heirOf)}

FreeExclusive(s, n, heirOf, heirTo) ==
  Freed(s, n, heirOf, heirTo, Heirless(heirOf), Lapsing(s, n, heirOf))

RemoveCoupler(s, n) ==
  IF n \notin DOMAIN s.patch THEN Fail(s, "no such coupler")
  ELSE IF n \in DOMAIN s.paused THEN Fail(s, "still active")
  ELSE FreeExclusive(s, n, [i \in Image(s.held[n]) |-> HeirOfCell(s, n, i)],
                     [u \in RecordsOf(s, n) |-> HeirOfCheck(s, n, u)])

-----------------------------------------------------------------------------
(* The builder's calls. *)

WriteCoordinates(s) == [s EXCEPT !.declared = DOMAIN s.coord]

Initialize(s, I) == [s EXCEPT !.live = @ \cup I, !.touched = @ \cup I]

\* A bug: a measured qubit stays in use.
ApplyDataReadout_StaysLive(s, I) == [s EXCEPT !.touched = @ \cup I]
ApplyDataReadout(s, I) == [s EXCEPT !.live = @ \ I, !.touched = @ \cup I]

\* A round of checks: each needs the coordinates of its qubits.
ApplySyndromeExtraction(s) ==
  LET used == UNION {s.recs[u].on \cup {s.recs[u].anc} : u \in s.active}
  IN  IF ~ used \subseteq DOMAIN s.coord THEN Fail(s, "KeyError")
      ELSE [s EXCEPT !.touched = @ \cup used]

-----------------------------------------------------------------------------
(* What the maps of a registry owe each other. *)

MapsInverse(s) ==
  /\ \A c \in DOMAIN s.index : s.index[c] \in DOMAIN s.coord /\ s.coord[s.index[c]] = c
  /\ \A i \in DOMAIN s.coord : s.coord[i] \in DOMAIN s.index /\ s.index[s.coord[i]] = i

OwnersAgree(s) ==
  /\ DOMAIN s.at = DOMAIN s.index /\ DOMAIN s.of = DOMAIN s.coord
  /\ \A c \in DOMAIN s.index : s.of[s.index[c]] = s.at[c]

HeldOnMap(s) ==
  \A n \in DOMAIN s.held : \A c \in DOMAIN s.held[n] :
    c \in DOMAIN s.index /\ s.index[c] = s.held[n][c]

LiveOnMap(s) == s.live \subseteq s.data \cap DOMAIN s.coord

\* What the geometry of a name calls data is held by it, and known as data.
FootprintHeld(s) ==
  \A n \in DOMAIN s.patch :
    /\ n \in DOMAIN s.held /\ s.patch[n].data \subseteq DOMAIN s.held[n]
    /\ \A c \in s.patch[n].data : s.held[n][c] \in s.data

MapsSound(s) ==
  /\ DOMAIN s = Fields
  /\ s.next \in Nat /\ DOMAIN s.coord \subseteq 0 .. s.next - 1
  /\ MapsInverse(s) /\ OwnersAgree(s) /\ HeldOnMap(s) /\ LiveOnMap(s)

\* Every name that holds cells is a patch, and listed once, in order.
NamesSound(s) ==
  Ok(s) => /\ DOMAIN s.patch = DOMAIN s.held /\ Nobody \notin DOMAIN s.held
           /\ FootprintHeld(s)
           /\ s.order \in Seq(DOMAIN s.held)
           /\ \A n \in DOMAIN s.held : \E k \in DOMAIN s.order : s.order[k] = n
           /\ \A k, l \in DOMAIN s.order : s.order[k] = s.order[l] => k = l

OwnsHeld(s, n) ==
  \A c \in DOMAIN s.at : s.at[c] = n => n \in DOMAIN s.held /\ c \in DOMAIN s.held[n]

\* The cells that no other patch or coupler holds.
Exclusive(s, n) ==
  {c \in DOMAIN s.held[n] : \A m \in DOMAIN s.held \ {n} : c \notin DOMAIN s.held[m]}

CleanToRemove(s, n) ==
  \A c \in Exclusive(s, n) :
    c \in DOMAIN s.at /\ s.at[c] = n /\ s.held[n][c] \notin s.live
=============================================================================
