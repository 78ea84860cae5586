------------------------- MODULE AutosaveDraftsProofs -------------------------
(***************************************************************************)
(* A draft's row and its bytes stay together, for any devices, requests,   *)
(* failed calls and crashes: a save replaces only what it read, a recovery *)
(* hands back what the row names, and the bytes a row names are there.     *)
(***************************************************************************)
EXTENDS AutosaveDrafts, TLAPS

\* A request between its calls, before its row is written and after.
Working ==
    [op: Operations, device: Devices,
     at: {"lease", "find", "put", "load", "write", "mark", "deleteRow"},
     payload: Nat, behind: BOOLEAN, held: BOOLEAN, seen: DraftRow \cup {NoDraft}, key: Nat]

Releasing ==
    [op: {"save", "discard"}, device: Devices, at: {"check", "deleteObject"}, key: Nat]

DraftTypes ==
    /\ drafts \in [Devices -> DraftRow \cup {NoDraft}]
    /\ objects \in [Devices -> [Generations -> Nat \cup {Torn}]]
    /\ requests \in [Requests -> Working \cup Releasing \cup {Resting}]
    /\ made \in Nat /\ received \in Nat /\ overlapped \subseteq Devices

\* What a request has read by the time it is at a step, and the step its operation has there.
Prepared(q) ==
    /\ q.at \in {"lease", "put", "mark"} => q.op = "save"
    /\ q.at = "load" => q.op = "recover" /\ q.seen # NoDraft
    /\ q.at = "deleteRow" => q.op = "discard" /\ q.seen # NoDraft
    /\ q.at = "write" /\ q.op # "save" => q.op \in {"recover", "markSaved"} /\ q.seen # NoDraft
    /\ q.at \in {"put", "write"} /\ q.op = "save" =>
          q.key = FreshGeneration(q.seen) /\ q.key \in Generations
    /\ q.at = "write" /\ q.op = "recover" => q.payload = q.seen.checksum

--------------------------------------------------------------------------------
(* A row that has the id and version that were read is the row that was read. *)

Acting == {"put", "load", "write", "deleteRow"}

Versioned(q) ==
    LET row == drafts[q.device]
    IN  q.at \in Acting /\ q.seen # NoDraft =>
          /\ q.seen.id <= made
          /\ row # NoDraft /\ row.id = q.seen.id =>
               /\ q.seen.version <= row.version
               /\ q.seen.version = row.version =>
                    q.seen.generation = row.generation /\ q.seen.checksum = row.checksum

ReadInv ==
    /\ DraftTypes
    /\ \A d \in Devices : drafts[d] # NoDraft => drafts[d].id <= made
    /\ \A r \in Requests : Prepared(requests[r]) /\ Versioned(requests[r])

--------------------------------------------------------------------------------
(* One request at a time moves a device's bytes, and away from the row's.     *)

Mover(r, d) == r \in Running(d) /\ MovesBytes(requests[r].op)

OneMover(d) == \A q, r \in Requests : Mover(q, d) /\ Mover(r, d) => q = r

Apart(q) ==
    LET row == drafts[q.device]
    IN  /\ q.at \in {"put", "write"} /\ q.op = "save" =>
             /\ q.seen = NoDraft <=> row = NoDraft
             /\ row # NoDraft => row.generation = q.seen.generation
             /\ q.at = "write" => objects[q.device][q.key] = q.payload
        /\ q.at = "deleteObject" => row = NoDraft \/ row.generation # q.key

Intact(d) == drafts[d] # NoDraft => objects[d][drafts[d].generation] = drafts[d].checksum

Safe(d) ==
    /\ OneMover(d)
    /\ \A r \in Running(d) : Apart(requests[r])
    /\ Intact(d)

BytesInv == \A d \in Devices \ overlapped : Safe(d)

--------------------------------------------------------------------------------
(* What a write does to the row of its device.                                *)

RowStep(d) ==
    \/ drafts'[d] = drafts[d]
    \/ drafts'[d] = NoDraft
    \/ drafts[d] = NoDraft /\ drafts'[d].id = made + 1 /\ made' = made + 1
    \/ /\ drafts[d] # NoDraft /\ drafts'[d].id = drafts[d].id
       /\ drafts'[d].version > drafts[d].version

LEMMA CreatedRow ==
    ASSUME ReadInv, NEW r \in Requests, NEW q, q = requests[r], q.at = "write",
           Creates(q), Lands(q), WritesRow(q)
    PROVE  /\ drafts[q.device] = NoDraft /\ drafts' = [drafts EXCEPT ![q.device] = Created(q)]
           /\ made' = made + 1 /\ Created(q) \in DraftRow
           /\ Created(q).id = made + 1 /\ Created(q).generation = 1
           /\ Created(q).checksum = q.payload /\ q.key = 1
<1>1. q \in Working /\ Prepared(q)
  BY DEF ReadInv, DraftTypes, Releasing, Resting
<1>2. q.key = 1 /\ 1 \in Generations
  BY <1>1 DEF Prepared, Creates, FreshGeneration
<1>3. Created(q) \in DraftRow
  BY <1>1, <1>2 DEF ReadInv, DraftTypes, Working, Created, DraftRow
<1> QED BY <1>2, <1>3 DEF Lands, WritesRow, Row, Creates, Created

LEMMA RestampedRow ==
    ASSUME NEW row \in DraftRow, NEW status \in {"dirty", "conflict", "saved"},
           NEW lease \in BOOLEAN, NEW new,
           new = [row EXCEPT !.version = @ + 1, !.status = status, !.lease = lease]
    PROVE  /\ new \in DraftRow /\ new.id = row.id /\ new.version > row.version
           /\ new.generation = row.generation /\ new.checksum = row.checksum
<1>1. new = [id |-> row.id, version |-> row.version + 1, generation |-> row.generation,
             checksum |-> row.checksum, status |-> status, lease |-> lease]
  BY DEF DraftRow
<1> QED BY <1>1 DEF DraftRow

LEMMA UpdatedRow ==
    ASSUME ReadInv, NEW r \in Requests, NEW q, q = requests[r], q.at = "write",
           ~Creates(q), Lands(q), WritesRow(q)
    PROVE  LET row == drafts[q.device]
           IN  /\ row \in DraftRow /\ row # NoDraft /\ q.seen # NoDraft
               /\ q.seen.generation = row.generation /\ q.seen.checksum = row.checksum
               /\ drafts' = [drafts EXCEPT ![q.device] = Updated(q, row)]
               /\ UNCHANGED made /\ Updated(q, row) \in DraftRow
               /\ Updated(q, row).id = row.id /\ Updated(q, row).version > row.version
               /\ q.op = "save" =>
                     /\ Updated(q, row).generation = q.key /\ q.key = row.generation + 1
                     /\ Updated(q, row).checksum = q.payload
               /\ q.op # "save" =>
                     /\ Updated(q, row).generation = row.generation
                     /\ Updated(q, row).checksum = row.checksum
<1> DEFINE row == drafts[q.device]
<1>1. q \in Working /\ Prepared(q) /\ Versioned(q)
  BY DEF ReadInv, DraftTypes, Releasing, Resting
<1>2. row # NoDraft /\ row.id = q.seen.id /\ row.version = q.seen.version
  BY DEF Lands, Matches, SameRow
<1>3. row \in DraftRow
  BY <1>1, <1>2 DEF ReadInv, DraftTypes, Working
<1>4. q.seen # NoDraft /\ q.op \in {"save", "recover", "markSaved"}
  BY <1>1 DEF Prepared, Creates
<1>5. q.seen.generation = row.generation /\ q.seen.checksum = row.checksum
  BY <1>1, <1>2, <1>4 DEF Versioned, Acting
<1>6. q.op = "save" => q.key = row.generation + 1 /\ q.key \in Generations
  BY <1>1, <1>4, <1>5 DEF Prepared, FreshGeneration
<1>7. q.payload \in Nat
  BY <1>1 DEF Working
<1>8. /\ Updated(q, row) \in DraftRow
      /\ Updated(q, row).id = row.id /\ Updated(q, row).version > row.version
      /\ q.op = "save" =>
            Updated(q, row).generation = q.key /\ Updated(q, row).checksum = q.payload
      /\ q.op # "save" =>
            /\ Updated(q, row).generation = row.generation
            /\ Updated(q, row).checksum = row.checksum
  <2>1. CASE q.op = "save"
    <3> DEFINE status == IF q.behind \/ q.held THEN "conflict" ELSE "dirty"
               lease == row.lease \/ ~q.held
    <3>1. Updated(q, row) =
            [row EXCEPT !.version = @ + 1, !.generation = q.key, !.checksum = q.payload,
                        !.status = status, !.lease = lease]
      BY <2>1 DEF Updated
    <3>2. status \in {"dirty", "conflict", "saved"} /\ lease \in BOOLEAN
      OBVIOUS
    <3>3. q.key \in Generations
      BY <1>6, <2>1
    <3> HIDE DEF status, lease, row
    <3>4. /\ Updated(q, row) \in DraftRow
          /\ Updated(q, row).id = row.id /\ Updated(q, row).version > row.version
          /\ Updated(q, row).generation = q.key /\ Updated(q, row).checksum = q.payload
      <4>1. Updated(q, row) =
              [id |-> row.id, version |-> row.version + 1, generation |-> q.key,
               checksum |-> q.payload, status |-> status, lease |-> lease]
        BY <1>3, <3>1 DEF DraftRow
      <4> QED BY <1>3, <1>7, <3>2, <3>3, <4>1 DEF DraftRow
    <3> QED BY <2>1, <3>4
  <2>2. CASE q.op = "recover"
    <3>1. Updated(q, row) = [row EXCEPT !.version = @ + 1, !.status = "dirty", !.lease = TRUE]
      BY <2>2 DEF Updated
    <3> HIDE DEF row
    <3> QED BY <1>3, <2>2, <3>1, RestampedRow
  <2>3. CASE q.op = "markSaved"
    <3>1. Updated(q, row) = [row EXCEPT !.version = @ + 1, !.status = "saved", !.lease = FALSE]
      BY <2>3 DEF Updated, Committed
    <3> HIDE DEF row
    <3> QED BY <1>3, <2>3, <3>1, RestampedRow
  <2> QED BY <1>4, <2>1, <2>2, <2>3
<1>9. drafts' = [drafts EXCEPT ![q.device] = Updated(q, row)] /\ UNCHANGED made
  BY DEF WritesRow, Row
<1> QED BY <1>2, <1>3, <1>4, <1>5, <1>6, <1>8, <1>9

\* Whatever the write, the tables keep their types and every row takes a row step.
LEMMA WriteSteps ==
    ASSUME ReadInv, NEW r \in Requests, NEW q, q = requests[r], q.at = "write",
           Lands(q), WritesRow(q)
    PROVE  /\ drafts' \in [Devices -> DraftRow \cup {NoDraft}] /\ made' \in Nat
           /\ made' \in {made, made + 1} /\ \A d \in Devices : RowStep(d)
           /\ \A d \in Devices : d # q.device => drafts'[d] = drafts[d]
<1>1. q.device \in Devices /\ drafts \in [Devices -> DraftRow \cup {NoDraft}] /\ made \in Nat
  BY DEF ReadInv, DraftTypes, Working, Releasing, Resting
<1>2. CASE Creates(q)
  BY <1>1, <1>2, CreatedRow DEF RowStep
<1>3. CASE ~Creates(q)
  BY <1>1, <1>3, UpdatedRow DEF RowStep
<1> QED BY <1>2, <1>3

--------------------------------------------------------------------------------
(* What was read stays what was read.                                         *)

Request == Working \cup Releasing \cup {Resting}

LEMMA VersionsOnlyRise ==
    ASSUME ReadInv, NEW q \in Request, Versioned(q),
           drafts' \in [Devices -> DraftRow \cup {NoDraft}],
           made' \in {made, made + 1}, \A d \in Devices : RowStep(d)
    PROVE  Versioned(q)'
<1> SUFFICES ASSUME q.at \in Acting, q.seen # NoDraft
             PROVE  Versioned(q)'
  BY DEF Versioned
<1> DEFINE d == q.device
<1>1. q \in Working /\ d \in Devices /\ q.seen \in DraftRow
  BY DEF Request, Working, Releasing, Resting, Acting
<1>2. /\ q.seen.id \in Nat /\ q.seen.version \in Nat /\ made \in Nat /\ q.seen.id <= made
  BY <1>1 DEF ReadInv, DraftTypes, Versioned, DraftRow
<1>3. ASSUME drafts'[d] # NoDraft, drafts'[d].id = q.seen.id
      PROVE  /\ q.seen.version <= drafts'[d].version
             /\ q.seen.version = drafts'[d].version =>
                  /\ q.seen.generation = drafts'[d].generation
                  /\ q.seen.checksum = drafts'[d].checksum
  <2>1. CASE drafts'[d] = drafts[d]
    BY <1>1, <1>3, <2>1 DEF Versioned
  <2>2. CASE drafts[d] = NoDraft /\ drafts'[d].id = made + 1
    BY <1>2, <1>3, <2>2
  <2>3. CASE /\ drafts[d] # NoDraft /\ drafts'[d].id = drafts[d].id
             /\ drafts'[d].version > drafts[d].version
    <3>1. q.seen.version <= drafts[d].version
      BY <1>3, <2>3 DEF Versioned
    <3>2. drafts[d].version \in Nat /\ drafts'[d].version \in Nat
      BY <1>1, <1>3, <2>3 DEF ReadInv, DraftTypes, DraftRow
    <3> QED BY <1>2, <2>3, <3>1, <3>2
  <2> QED BY <1>1, <1>3, <2>1, <2>2, <2>3 DEF RowStep
<1>4. q.seen.id <= made'
  BY <1>2
<1> QED BY <1>3, <1>4 DEF Versioned

LEMMA RequestMoves ==
    ASSUME ReadInv, NEW r \in Requests, NEW n \in Request,
           requests' = [requests EXCEPT ![r] = n], Prepared(n), Versioned(n)',
           drafts' \in [Devices -> DraftRow \cup {NoDraft}],
           made' \in {made, made + 1}, \A d \in Devices : RowStep(d),
           objects' \in [Devices -> [Generations -> Nat \cup {Torn}]],
           received' \in Nat, overlapped' \subseteq Devices
    PROVE  ReadInv'
<1>1. DraftTypes'
  BY DEF ReadInv, DraftTypes, Request
<1>2. ASSUME NEW d \in Devices, drafts'[d] # NoDraft
      PROVE  drafts'[d].id <= made'
  <2>1. made \in Nat /\ (drafts[d] # NoDraft => drafts[d].id <= made /\ drafts[d].id \in Nat)
    BY DEF ReadInv, DraftTypes, DraftRow
  <2> QED BY <1>2, <2>1 DEF RowStep
<1>3. ASSUME NEW p \in Requests
      PROVE  Prepared(requests'[p]) /\ Versioned(requests[p])'
  <2>1. CASE p = r
    <3>1. requests'[p] = n
      BY <2>1 DEF ReadInv, DraftTypes
    <3> QED BY <3>1 DEF Versioned
  <2>2. CASE p # r
    <3>1. requests'[p] = requests[p]
      BY <2>2 DEF ReadInv, DraftTypes
    <3>2. PICK q \in Request : q = requests[p]
      BY DEF ReadInv, DraftTypes, Request
    <3>3. Prepared(q) /\ Versioned(q)
      BY <3>2 DEF ReadInv
    <3>4. Versioned(q)'
      BY <3>3, VersionsOnlyRise
    <3>5. requests'[p] = q
      BY <3>1, <3>2
    <3>6. Versioned(requests[p])'
      BY <3>4, <3>5 DEF Versioned
    <3> QED BY <3>3, <3>5, <3>6
  <2> QED BY <2>1, <2>2
<1> QED BY <1>1, <1>2, <1>3 DEF ReadInv, Prepared

\* So does a step that leaves the rows alone.
LEMMA RequestReads ==
    ASSUME ReadInv, NEW r \in Requests, NEW n \in Request,
           requests' = [requests EXCEPT ![r] = n], Prepared(n), Versioned(n),
           UNCHANGED <<drafts, made>>,
           objects' \in [Devices -> [Generations -> Nat \cup {Torn}]],
           received' \in Nat, overlapped' \subseteq Devices
    PROVE  ReadInv'
<1>1. Versioned(n)'
  BY DEF Versioned
<1>2. /\ drafts' \in [Devices -> DraftRow \cup {NoDraft}]
      /\ made' \in {made, made + 1} /\ \A d \in Devices : RowStep(d)
  BY DEF ReadInv, DraftTypes, RowStep
<1> QED BY <1>1, <1>2, RequestMoves

--------------------------------------------------------------------------------
(* ReadInv is inductive.                                                      *)

LEMMA ReadInit == Init => ReadInv
<1> SUFFICES ASSUME Init
             PROVE  ReadInv
  OBVIOUS
<1>1. DraftTypes
  BY DEF Init, DraftTypes, Nothing
<1>2. ASSUME NEW r \in Requests
      PROVE  Prepared(requests[r]) /\ Versioned(requests[r])
  BY DEF Init, Resting, Prepared, Versioned, Acting
<1> QED BY <1>1, <1>2 DEF Init, ReadInv

LEMMA RestingReads == Prepared(Resting) /\ Versioned(Resting)
  BY DEF Resting, Prepared, Versioned, Acting

LEMMA ReleaseReads ==
    ASSUME NEW q, NEW generation \in Nat, q.op \in {"save", "discard"}, q.device \in Devices
    PROVE  LET n == Release(q, generation)
           IN  n \in Request /\ Prepared(n) /\ Versioned(n)
  BY DEF Release, Releasing, Request, Prepared, Versioned, Acting

\* The request of a step, with what is known of it.
LEMMA AtStep ==
    ASSUME ReadInv, NEW r \in Requests, NEW q, q = requests[r]
    PROVE  /\ q \in Request /\ Prepared(q) /\ Versioned(q)
           /\ q.at \in {"lease", "find", "put", "load", "write", "mark", "deleteRow"} =>
                q \in Working
           /\ q.at \in {"check", "deleteObject"} => q \in Releasing
           /\ q.at = "idle" => q = Resting
  BY DEF ReadInv, DraftTypes, Request, Working, Releasing, Resting

LEMMA BeginReads ==
    ASSUME ReadInv, NEW r \in Requests, NEW op \in Operations, NEW d \in Devices, Begin(r, op, d)
    PROVE  ReadInv'
<1>1. PICK behind \in BOOLEAN :
         requests' = [requests EXCEPT ![r] =
              [op |-> op, device |-> d, at |-> IF op = "save" THEN "lease" ELSE "find",
               payload |-> IF op = "save" THEN received + 1 ELSE Nothing,
               behind |-> behind, held |-> FALSE, seen |-> NoDraft, key |-> 1]]
  BY DEF Begin
<1> DEFINE payload == IF op = "save" THEN received + 1 ELSE Nothing
           n == [op |-> op, device |-> d, at |-> IF op = "save" THEN "lease" ELSE "find",
                 payload |-> payload, behind |-> behind, held |-> FALSE, seen |-> NoDraft,
                 key |-> 1]
<1>2. payload \in Nat /\ received \in Nat
  BY DEF ReadInv, DraftTypes, Nothing
<1>3. PICK m \in Request : m = n
  BY <1>2 DEF Request, Working
<1>4. Prepared(m) /\ Versioned(m)
  BY <1>3 DEF Prepared, Versioned, Acting
<1>5. requests' = [requests EXCEPT ![r] = m]
  BY <1>1, <1>3
<1>6. /\ UNCHANGED <<drafts, made, objects>> /\ received' = received + 1
      /\ overlapped' \subseteq overlapped \cup {d}
  BY DEF Begin
<1>7. /\ objects' \in [Devices -> [Generations -> Nat \cup {Torn}]]
      /\ received' \in Nat /\ overlapped' \subseteq Devices
  BY <1>2, <1>6 DEF ReadInv, DraftTypes
<1> QED BY <1>4, <1>5, <1>6, <1>7, RequestReads

\* A call that only reads, and keeps what it learns with the request.
LEMMA QuietReads ==
    ASSUME ReadInv, NEW r \in Requests, NEW n \in Request,
           requests' = [requests EXCEPT ![r] = n], Prepared(n), Versioned(n),
           UNCHANGED <<drafts, objects, made, received, overlapped>>
    PROVE  ReadInv'
<1>1. /\ objects' \in [Devices -> [Generations -> Nat \cup {Torn}]]
      /\ received' \in Nat /\ overlapped' \subseteq Devices
  BY DEF ReadInv, DraftTypes
<1> QED BY <1>1, RequestReads

LEMMA LeaseReads ==
    ASSUME ReadInv, NEW r \in Requests, LiveLeaseHolder(r)
    PROVE  ReadInv'
<1>1. PICK held \in BOOLEAN :
         requests' = [requests EXCEPT ![r].at = "find", ![r].held = held]
  BY DEF LiveLeaseHolder
<1>2. PICK q : q = requests[r]
  OBVIOUS
<1>3. q \in Working
  BY <1>2, AtStep DEF LiveLeaseHolder
<1>4. PICK n : n = [q EXCEPT !.at = "find", !.held = held]
  OBVIOUS
<1>5. n \in Request /\ n.at = "find"
  BY <1>3, <1>4 DEF Working, Request
<1>6. requests' = [requests EXCEPT ![r] = n]
  BY <1>1, <1>2, <1>4 DEF ReadInv, DraftTypes
<1>7. Prepared(n) /\ Versioned(n)
  BY <1>5 DEF Prepared, Versioned, Acting
<1> QED BY <1>5, <1>6, <1>7, QuietReads DEF LiveLeaseHolder

LEMMA FindReads ==
    ASSUME ReadInv, NEW r \in Requests, FindByDevice(r)
    PROVE  ReadInv'
<1>1. PICK q : q = requests[r]
  OBVIOUS
<1>2. PICK row : row = drafts[q.device]
  OBVIOUS
<1>3. q \in Working /\ q.device \in Devices /\ row \in DraftRow \cup {NoDraft}
  <2>1. q \in Working
    BY <1>1, AtStep DEF FindByDevice
  <2> QED BY <1>2, <2>1 DEF Working, ReadInv, DraftTypes
<1> DEFINE next == [save |-> "put", recover |-> "load", markSaved |-> "write", discard |-> "deleteRow"]
<1>4. CASE q.op # "save" /\ row = NoDraft
  <2>1. requests' = [requests EXCEPT ![r] = Resting]
    BY <1>1, <1>2, <1>4 DEF FindByDevice
  <2>2. Resting \in Request
    BY DEF Request
  <2> QED BY <2>1, <2>2, RestingReads, QuietReads DEF FindByDevice
<1>5. CASE q.op = "save" \/ row # NoDraft
  <2>1. /\ requests' = [requests EXCEPT ![r].at = next[q.op], ![r].seen = row,
                                        ![r].key = FreshGeneration(row)]
        /\ q.op = "save" => FreshGeneration(row) \in Generations
    BY <1>1, <1>2, <1>5 DEF FindByDevice
  <2>2. PICK n : n = [q EXCEPT !.at = next[q.op], !.seen = row, !.key = FreshGeneration(row)]
    OBVIOUS
  <2>3. FreshGeneration(row) \in Nat
    BY <1>3 DEF FreshGeneration, DraftRow, Generations
  <2>4. q.op \in Operations /\ next[q.op] \in {"put", "load", "write", "deleteRow"}
    BY <1>3 DEF Working, Operations
  <2>5. /\ n.op = q.op /\ n.device = q.device /\ n.at = next[q.op] /\ n.seen = row
        /\ n.key = FreshGeneration(row)
    BY <1>3, <2>2 DEF Working
  <2>6. n \in Working
    BY <1>3, <2>2, <2>3, <2>4 DEF Working
  <2>7. Prepared(n)
    BY <1>5, <2>1, <2>4, <2>5 DEF Prepared, Operations
  <2>8. Versioned(n)
    BY <1>2, <1>3, <2>5 DEF Versioned, ReadInv, DraftRow
  <2>9. requests' = [requests EXCEPT ![r] = n]
    BY <1>1, <2>1, <2>2 DEF ReadInv, DraftTypes
  <2> QED BY <2>6, <2>7, <2>8, <2>9, QuietReads DEF FindByDevice, Request
<1> QED BY <1>4, <1>5

LEMMA PutReads ==
    ASSUME ReadInv, NEW r \in Requests, PutSnapshot(r)
    PROVE  ReadInv'
<1>1. PICK q : q = requests[r]
  OBVIOUS
<1>2. q \in Working /\ q.at = "put" /\ Prepared(q) /\ Versioned(q)
  BY <1>1, AtStep DEF PutSnapshot
<1>3. PICK n : n = [q EXCEPT !.at = "write"]
  OBVIOUS
<1>4. /\ n \in Request /\ n.at = "write" /\ n.op = q.op /\ n.seen = q.seen /\ n.key = q.key
      /\ n.device = q.device
  BY <1>2, <1>3 DEF Working, Request
<1>5. Prepared(n) /\ Versioned(n)
  BY <1>2, <1>4 DEF Prepared, Versioned, Acting
<1>6. requests' = [requests EXCEPT ![r] = n]
  BY <1>1, <1>3 DEF PutSnapshot, ReadInv, DraftTypes
<1>7. objects' \in [Devices -> [Generations -> Nat \cup {Torn}]]
  <2>1. q.payload \in Nat
    BY <1>2 DEF Working
  <2> QED BY <1>1, <2>1 DEF PutSnapshot, ReadInv, DraftTypes
<1>8. UNCHANGED <<drafts, made, received, overlapped>>
  BY DEF PutSnapshot
<1>9. received' \in Nat /\ overlapped' \subseteq Devices
  BY <1>8 DEF ReadInv, DraftTypes
<1> QED BY <1>4, <1>5, <1>6, <1>7, <1>8, <1>9, RequestReads

\* The bytes handed back are those of the checksum that was read.
LEMMA LoadReads ==
    ASSUME ReadInv, NEW r \in Requests, LoadSnapshot(r)
    PROVE  ReadInv'
<1>1. PICK q : q = requests[r]
  OBVIOUS
<1>2. q \in Working /\ q.at = "load" /\ Prepared(q) /\ Versioned(q)
  BY <1>1, AtStep DEF LoadSnapshot
<1>3. PICK bytes : bytes = objects[q.device][q.seen.generation]
  OBVIOUS
<1>4. CASE Verified(q.seen, bytes)
  <2>1. PICK n : n = [q EXCEPT !.at = "write", !.payload = bytes]
    OBVIOUS
  <2>2. bytes = q.seen.checksum /\ q.op = "recover" /\ q.seen \in DraftRow
    BY <1>2, <1>4 DEF Verified, Prepared, Working
  <2>3. /\ n \in Request /\ n.at = "write" /\ n.op = "recover" /\ n.seen = q.seen
        /\ n.payload = q.seen.checksum /\ n.device = q.device
    BY <1>2, <2>1, <2>2 DEF Working, Request, DraftRow
  <2>4. Prepared(n) /\ Versioned(n)
    BY <1>2, <2>3 DEF Prepared, Versioned, Acting
  <2>5. requests' = [requests EXCEPT ![r] = n]
    BY <1>1, <1>3, <1>4, <2>1 DEF LoadSnapshot, ReadInv, DraftTypes
  <2> QED BY <2>3, <2>4, <2>5, QuietReads DEF LoadSnapshot
<1>5. CASE ~Verified(q.seen, bytes)
  <2>1. requests' = [requests EXCEPT ![r] = Resting] /\ Resting \in Request
    BY <1>1, <1>3, <1>5 DEF LoadSnapshot, Request
  <2> QED BY <2>1, RestingReads, QuietReads DEF LoadSnapshot
<1> QED BY <1>4, <1>5

\* Where a write leaves its request, whether or not it landed.
LEMMA AfterWriteReads ==
    ASSUME ReadInv, NEW r \in Requests, NEW q, q = requests[r], q.at = "write",
           NEW n, n = AfterWrite(q)
    PROVE  /\ n \in Request /\ Prepared(n)
           /\ n = Resting \/ (n.at \in {"check", "mark"} /\ n.device = q.device)
<1>1. q \in Working /\ Prepared(q)
  BY AtStep
<1>2. CASE n = Resting
  BY <1>2, RestingReads DEF Request
<1>3. CASE q.op = "save" /\ n = Release(q, q.key)
  BY <1>1, <1>3 DEF Release, Releasing, Request, Working, Prepared
<1>4. CASE q.op = "save" /\ ~Creates(q) /\ n = Superseded(q)
  <2>1. q.seen.generation \in Nat
    BY <1>1, <1>4 DEF Creates, Working, DraftRow, Generations
  <2> QED BY <1>1, <1>4, <2>1 DEF Superseded, Release, Releasing, Request, Working, Prepared
<1>5. CASE q.op = "save" /\ n = [q EXCEPT !.at = "mark"]
  BY <1>1, <1>5 DEF Request, Working, Prepared
<1> QED BY <1>2, <1>3, <1>4, <1>5 DEF AfterWrite

LEMMA WriteReads ==
    ASSUME ReadInv, NEW r \in Requests, WriteRow(r)
    PROVE  ReadInv'
<1>1. PICK q : q = requests[r]
  OBVIOUS
<1>2. q.at = "write"
  BY <1>1 DEF WriteRow
<1>3. PICK n : n = AfterWrite(q)
  OBVIOUS
<1>4. n \in Request /\ Prepared(n) /\ n.at \notin Acting
  BY <1>1, <1>2, <1>3, AfterWriteReads DEF Resting, Acting
<1>5. Versioned(n) /\ Versioned(n)'
  BY <1>4 DEF Versioned
<1>6. requests' = [requests EXCEPT ![r] = n] /\ UNCHANGED <<objects, received, overlapped>>
  BY <1>1, <1>3 DEF WriteRow
<1>7. /\ objects' \in [Devices -> [Generations -> Nat \cup {Torn}]]
      /\ received' \in Nat /\ overlapped' \subseteq Devices
  BY <1>6 DEF ReadInv, DraftTypes
<1>8. CASE Lands(q)
  <2>1. WritesRow(q)
    BY <1>1, <1>8 DEF WriteRow
  <2>2. /\ drafts' \in [Devices -> DraftRow \cup {NoDraft}]
        /\ made' \in {made, made + 1} /\ \A d \in Devices : RowStep(d)
    BY <1>1, <1>2, <1>8, <2>1, WriteSteps
  <2> QED BY <1>4, <1>5, <1>6, <1>7, <2>2, RequestMoves
<1>9. CASE ~Lands(q)
  <2>1. UNCHANGED <<drafts, made>>
    BY <1>1, <1>9 DEF WriteRow
  <2> QED BY <1>4, <1>5, <1>6, <2>1, QuietReads
<1> QED BY <1>8, <1>9

LEMMA MarkReads ==
    ASSUME ReadInv, NEW r \in Requests, MarkConflict(r)
    PROVE  ReadInv'
<1>1. PICK q : q = requests[r]
  OBVIOUS
<1>2. PICK row : row = drafts[q.device]
  OBVIOUS
<1>3. q \in Working /\ q.device \in Devices
  BY <1>1, AtStep DEF MarkConflict, Working
<1>4. requests' = [requests EXCEPT ![r] = Resting] /\ Resting \in Request
  BY DEF MarkConflict, Request
<1>5. UNCHANGED <<objects, made, received, overlapped>>
  BY DEF MarkConflict
<1>6. /\ objects' \in [Devices -> [Generations -> Nat \cup {Torn}]]
      /\ received' \in Nat /\ overlapped' \subseteq Devices
  BY <1>5 DEF ReadInv, DraftTypes
<1>7. CASE row # NoDraft /\ row.version = 1 /\ row.checksum = q.payload
  <2>1. row \in DraftRow
    BY <1>2, <1>3, <1>7 DEF ReadInv, DraftTypes
  <2>2. PICK new : new = [row EXCEPT !.version = 2, !.status = "conflict"]
    OBVIOUS
  <2>3. drafts' = [drafts EXCEPT ![q.device] = new]
    BY <1>1, <1>2, <1>7, <2>2 DEF MarkConflict, ReadInv, DraftTypes
  <2>4. new = [id |-> row.id, version |-> 2, generation |-> row.generation,
               checksum |-> row.checksum, status |-> "conflict", lease |-> row.lease]
    BY <2>1, <2>2 DEF DraftRow
  <2>5. new \in DraftRow /\ new.id = row.id /\ new.version > row.version
    BY <1>7, <2>1, <2>4 DEF DraftRow
  <2>6. /\ drafts' \in [Devices -> DraftRow \cup {NoDraft}]
        /\ \A d \in Devices : RowStep(d)
    BY <1>2, <1>3, <1>7, <2>3, <2>5 DEF RowStep, ReadInv, DraftTypes
  <2>7. Prepared(Resting) /\ Versioned(Resting)'
    BY RestingReads DEF Versioned, Resting, Acting
  <2> QED BY <1>4, <1>5, <1>6, <2>6, <2>7, RequestMoves
<1>8. CASE ~(row # NoDraft /\ row.version = 1 /\ row.checksum = q.payload)
  <2>1. UNCHANGED drafts
    BY <1>1, <1>2, <1>8 DEF MarkConflict
  <2> QED BY <1>4, <1>5, <2>1, RestingReads, QuietReads
<1> QED BY <1>7, <1>8

\* A row that is deleted takes a row step too.
LEMMA DeletionSteps ==
    ASSUME ReadInv, NEW e \in Devices, drafts' = [drafts EXCEPT ![e] = NoDraft]
    PROVE  drafts' \in [Devices -> DraftRow \cup {NoDraft}] /\ \A d \in Devices : RowStep(d)
  BY DEF ReadInv, DraftTypes, RowStep

LEMMA DeleteReads ==
    ASSUME ReadInv, NEW r \in Requests, DeleteRow(r)
    PROVE  ReadInv'
<1>1. PICK q : q = requests[r]
  OBVIOUS
<1>2. q \in Working /\ q.device \in Devices /\ q.op = "discard" /\ q.seen.generation \in Nat
  BY <1>1, AtStep DEF DeleteRow, Working, Prepared, DraftRow, Generations
<1>3. PICK n : n = IF SameRow(q) THEN Release(q, q.seen.generation) ELSE Resting
  OBVIOUS
<1>4. n \in Request /\ Prepared(n) /\ n.at \notin Acting
  <2>1. CASE SameRow(q)
    BY <1>2, <1>3, <2>1, ReleaseReads DEF Release, Acting
  <2>2. CASE ~SameRow(q)
    BY <1>3, <2>2, RestingReads DEF Request, Resting, Acting
  <2> QED BY <2>1, <2>2
<1>5. Versioned(n) /\ Versioned(n)'
  BY <1>4 DEF Versioned
<1>6. requests' = [requests EXCEPT ![r] = n] /\ UNCHANGED <<objects, made, received, overlapped>>
  BY <1>1, <1>3 DEF DeleteRow
<1>7. /\ objects' \in [Devices -> [Generations -> Nat \cup {Torn}]]
      /\ received' \in Nat /\ overlapped' \subseteq Devices
  BY <1>6 DEF ReadInv, DraftTypes
<1>8. CASE UNCHANGED drafts
  BY <1>4, <1>5, <1>6, <1>8, QuietReads
<1>9. CASE drafts' = [drafts EXCEPT ![q.device] = NoDraft]
  BY <1>2, <1>4, <1>5, <1>6, <1>7, <1>9, DeletionSteps, RequestMoves
<1> QED BY <1>1, <1>8, <1>9 DEF DeleteRow

LEMMA ReleaseStepReads ==
    ASSUME ReadInv, NEW r \in Requests, IsSnapshotReferenced(r) \/ DeleteObject(r)
    PROVE  ReadInv'
<1>1. PICK q : q = requests[r]
  OBVIOUS
<1>2. q \in Releasing
  BY <1>1, AtStep DEF IsSnapshotReferenced, DeleteObject
<1>3. PICK n : n = [q EXCEPT !.at = "deleteObject"]
  OBVIOUS
<1>4. n \in Request /\ Prepared(n) /\ Versioned(n)
  BY <1>2, <1>3 DEF Releasing, Request, Prepared, Versioned, Acting
<1>5. requests' = [requests EXCEPT ![r] = n] \/ requests' = [requests EXCEPT ![r] = Resting]
  BY <1>1, <1>3 DEF IsSnapshotReferenced, DeleteObject
<1>6. PICK m \in {n, Resting} : requests' = [requests EXCEPT ![r] = m]
  BY <1>5
<1>7. m \in Request /\ Prepared(m) /\ Versioned(m)
  BY <1>4, <1>6, RestingReads DEF Request
<1>8. UNCHANGED <<drafts, made, received, overlapped>>
  BY DEF IsSnapshotReferenced, DeleteObject
<1>9. /\ objects' \in [Devices -> [Generations -> Nat \cup {Torn}]]
      /\ received' \in Nat /\ overlapped' \subseteq Devices
  <2>1. objects \in [Devices -> [Generations -> Nat \cup {Torn}]]
    BY DEF ReadInv, DraftTypes
  <2>2. objects' = objects \/ objects' = [objects EXCEPT ![q.device][q.key] = Nothing]
    BY <1>1 DEF IsSnapshotReferenced, DeleteObject
  <2>3. received' \in Nat /\ overlapped' \subseteq Devices
    BY <1>8 DEF ReadInv, DraftTypes
  <2> QED BY <2>1, <2>2, <2>3 DEF Nothing
<1> QED BY <1>6, <1>7, <1>8, <1>9, RequestReads

LEMMA FailReads ==
    ASSUME ReadInv, NEW r \in Requests, CallFails(r)
    PROVE  ReadInv'
<1>1. PICK q : q = requests[r]
  OBVIOUS
<1>2. q \in Request /\ Prepared(q) /\ q.at # "idle" /\ q.device \in Devices
  BY <1>1, AtStep DEF CallFails, Request, Working, Releasing, Resting
<1>3. PICK n : n = IF q.at = "write" /\ Creates(q) THEN Release(q, q.key) ELSE Resting
  OBVIOUS
<1>4. n \in Request /\ Prepared(n) /\ n.at \notin Acting
  <2>1. CASE q.at = "write" /\ Creates(q)
    <3>1. q \in Working /\ q.op = "save"
      BY <1>1, <2>1, AtStep DEF Creates
    <3>2. q.key \in Nat
      BY <3>1 DEF Working
    <3> QED BY <1>2, <1>3, <2>1, <3>1, <3>2, ReleaseReads DEF Release, Acting
  <2>2. CASE ~(q.at = "write" /\ Creates(q))
    BY <1>3, <2>2, RestingReads DEF Request, Resting, Acting
  <2> QED BY <2>1, <2>2
<1>5. Versioned(n) /\ Versioned(n)'
  BY <1>4 DEF Versioned
<1>6. requests' = [requests EXCEPT ![r] = n] /\ UNCHANGED <<received, overlapped>>
  BY <1>1, <1>3 DEF CallFails
<1>7. received' \in Nat /\ overlapped' \subseteq Devices
  BY <1>6 DEF ReadInv, DraftTypes
<1>8. objects' \in [Devices -> [Generations -> Nat \cup {Torn}]]
  <2>1. CASE q.at = "put"
    <3>1. q.key \in Generations /\ q.payload \in Nat
      BY <1>1, <1>2, <2>1, AtStep DEF Prepared, Working
    <3>2. PICK left \in {objects[q.device][q.key], Torn, q.payload} :
             objects' = [objects EXCEPT ![q.device][q.key] = left]
      BY <1>1, <2>1 DEF CallFails
    <3>3. left \in Nat \cup {Torn}
      BY <1>2, <3>1, <3>2 DEF ReadInv, DraftTypes
    <3> QED BY <3>2, <3>3 DEF ReadInv, DraftTypes
  <2>2. CASE q.at # "put"
    BY <1>1, <2>2 DEF CallFails, ReadInv, DraftTypes
  <2> QED BY <2>1, <2>2
<1>9. /\ drafts' \in [Devices -> DraftRow \cup {NoDraft}]
      /\ made' \in {made, made + 1} /\ \A d \in Devices : RowStep(d)
  <2>1. CASE q.at = "write" /\ Lands(q) /\ WritesRow(q)
    BY <1>1, <2>1, WriteSteps
  <2>2. CASE drafts' = [drafts EXCEPT ![q.device] = NoDraft] /\ UNCHANGED made
    BY <1>2, <2>2, DeletionSteps
  <2>3. CASE UNCHANGED <<drafts, made>>
    BY <2>3 DEF RowStep, ReadInv, DraftTypes
  <2> QED BY <1>1, <2>1, <2>2, <2>3 DEF CallFails
<1> QED BY <1>4, <1>5, <1>6, <1>7, <1>8, <1>9, RequestMoves

LEMMA CrashReads ==
    ASSUME ReadInv, Crash
    PROVE  ReadInv'
<1>1. requests' = [r \in Requests |-> Resting] /\ UNCHANGED <<drafts, made, received, overlapped>>
  BY DEF Crash
<1>2. objects' \in [Devices -> [Generations -> Nat \cup {Torn}]]
  BY DEF Crash, ReadInv, DraftTypes
<1>3. DraftTypes'
  BY <1>1, <1>2 DEF ReadInv, DraftTypes
<1>4. ASSUME NEW r \in Requests
      PROVE  Prepared(requests'[r]) /\ Versioned(requests[r])'
  <2>1. requests'[r] = Resting
    BY <1>1
  <2> QED BY <2>1 DEF Resting, Prepared, Versioned, Acting
<1> QED BY <1>1, <1>3, <1>4 DEF ReadInv, Prepared

LEMMA ReadStep ==
    ASSUME ReadInv, [Next]_vars
    PROVE  ReadInv'
<1>1. ASSUME NEW r \in Requests, NEW op \in Operations, NEW d \in Devices, Begin(r, op, d)
      PROVE  ReadInv'
  BY <1>1, BeginReads
<1>2. ASSUME NEW r \in Requests,
             \/ LiveLeaseHolder(r) \/ FindByDevice(r) \/ PutSnapshot(r) \/ LoadSnapshot(r)
             \/ WriteRow(r) \/ MarkConflict(r) \/ DeleteRow(r)
             \/ IsSnapshotReferenced(r) \/ DeleteObject(r) \/ CallFails(r)
      PROVE  ReadInv'
  BY <1>2, LeaseReads, FindReads, PutReads, LoadReads, WriteReads, MarkReads, DeleteReads,
     ReleaseStepReads, FailReads
<1>3. CASE Crash
  BY <1>3, CrashReads
<1>4. CASE UNCHANGED vars
  BY <1>4 DEF vars, ReadInv, DraftTypes, Versioned, Prepared
<1> QED BY <1>1, <1>2, <1>3, <1>4 DEF Next

--------------------------------------------------------------------------------
(* What the invariant on reads gives.                                         *)

RequestStep(r) ==
    \/ \E op \in Operations, d \in Devices : Begin(r, op, d)
    \/ LiveLeaseHolder(r) \/ FindByDevice(r) \/ PutSnapshot(r) \/ LoadSnapshot(r)
    \/ WriteRow(r) \/ MarkConflict(r) \/ DeleteRow(r)
    \/ IsSnapshotReferenced(r) \/ DeleteObject(r) \/ CallFails(r)

\* A request's step moves no other request.
LEMMA OthersWait ==
    ASSUME ReadInv, NEW r \in Requests, RequestStep(r), NEW p \in Requests, p # r
    PROVE  requests'[p] = requests[p]
<1>1. requests \in [Requests -> Request]
  BY DEF ReadInv, DraftTypes, Request
<1>2. CASE \E op \in Operations, d \in Devices : Begin(r, op, d)
  BY <1>1, <1>2 DEF Begin
<1>3. CASE LiveLeaseHolder(r) \/ PutSnapshot(r) \/ WriteRow(r) \/ MarkConflict(r) \/ DeleteRow(r)
           \/ IsSnapshotReferenced(r) \/ DeleteObject(r)
  BY <1>1, <1>3 DEF LiveLeaseHolder, PutSnapshot, WriteRow, MarkConflict, DeleteRow,
                    IsSnapshotReferenced, DeleteObject
<1>4. CASE FindByDevice(r)
  BY <1>1, <1>4 DEF FindByDevice
<1>5. CASE LoadSnapshot(r)
  BY <1>1, <1>5 DEF LoadSnapshot
<1>6. CASE CallFails(r)
  BY <1>1, <1>6 DEF CallFails
<1> QED BY <1>2, <1>3, <1>4, <1>5, <1>6 DEF RequestStep

\* A row keeps what it names, or names the bytes of a save that read it.
Renamed(r, d) ==
    LET q == requests[r]
    IN  \/ drafts'[d] = drafts[d]
        \/ drafts'[d] = NoDraft /\ q.at \in {"write", "deleteRow"} /\ q.device = d
               /\ q.op \in {"save", "discard"}
        \/ /\ drafts[d] # NoDraft /\ drafts'[d] # NoDraft
           /\ drafts'[d].generation = drafts[d].generation
           /\ drafts'[d].checksum = drafts[d].checksum
           /\ q.at = "write" => q.device = d /\ q.seen.checksum = drafts[d].checksum
        \/ /\ q.at = "write" /\ q.op = "save" /\ q.device = d
           /\ drafts'[d].generation = q.key /\ drafts'[d].checksum = q.payload
           /\ \/ drafts[d] = NoDraft /\ q.seen = NoDraft
              \/ /\ drafts[d] # NoDraft /\ q.seen.generation = drafts[d].generation
                 /\ q.key = drafts[d].generation + 1

LEMMA WriteRenames ==
    ASSUME ReadInv, NEW r \in Requests, requests[r].at = "write",
           Lands(requests[r]), WritesRow(requests[r]), NEW d \in Devices
    PROVE  Renamed(r, d)
<1>1. PICK q : q = requests[r]
  OBVIOUS
<1>2. q \in Working /\ q.device \in Devices /\ Prepared(q)
  BY <1>1, AtStep DEF Working
<1>3. drafts \in [Devices -> DraftRow \cup {NoDraft}]
  BY DEF ReadInv, DraftTypes
<1>4. CASE Creates(q)
  <2>1. /\ drafts[q.device] = NoDraft /\ drafts' = [drafts EXCEPT ![q.device] = Created(q)]
        /\ Created(q).generation = q.key /\ Created(q).checksum = q.payload
    BY <1>1, <1>4, CreatedRow
  <2> QED BY <1>1, <1>2, <1>3, <1>4, <2>1 DEF Renamed, Creates
<1>5. CASE ~Creates(q) /\ q.op = "save"
  <2>1. PICK row : row = drafts[q.device]
    OBVIOUS
  <2>2. PICK new : new = Updated(q, row)
    OBVIOUS
  <2>3. /\ row # NoDraft /\ q.seen.generation = row.generation
        /\ drafts' = [drafts EXCEPT ![q.device] = new]
        /\ new.generation = q.key /\ q.key = row.generation + 1 /\ new.checksum = q.payload
    BY <1>1, <1>5, <2>1, <2>2, UpdatedRow
  <2> QED BY <1>1, <1>2, <1>3, <1>5, <2>1, <2>3 DEF Renamed
<1>6. CASE ~Creates(q) /\ q.op # "save"
  <2>1. PICK row : row = drafts[q.device]
    OBVIOUS
  <2>2. PICK new : new = Updated(q, row)
    OBVIOUS
  <2>3. /\ row # NoDraft /\ q.seen.checksum = row.checksum
        /\ drafts' = [drafts EXCEPT ![q.device] = new]
        /\ new.generation = row.generation /\ new.checksum = row.checksum
        /\ new # NoDraft
    BY <1>1, <1>6, <2>1, <2>2, UpdatedRow, AutosaveAssumption
  <2> QED BY <1>1, <1>2, <1>3, <2>1, <2>3 DEF Renamed
<1> QED BY <1>4, <1>5, <1>6

LEMMA StepRenames ==
    ASSUME ReadInv, NEW r \in Requests, RequestStep(r), NEW d \in Devices
    PROVE  Renamed(r, d)
<1>1. PICK q : q = requests[r]
  OBVIOUS
<1>2. drafts \in [Devices -> DraftRow \cup {NoDraft}] /\ Prepared(q)
  BY <1>1, AtStep DEF ReadInv, DraftTypes
<1>3. CASE q.at = "write" /\ Lands(q) /\ WritesRow(q)
  BY <1>1, <1>3, WriteRenames
<1>4. CASE UNCHANGED drafts
  BY <1>4 DEF Renamed
<1>5. CASE q.at = "deleteRow" /\ drafts' = [drafts EXCEPT ![q.device] = NoDraft]
  BY <1>1, <1>2, <1>5 DEF Renamed, Prepared
<1>6. CASE MarkConflict(r)
  <2>1. q.at = "mark" /\ q.device \in Devices
    BY <1>1, <1>6, AtStep DEF MarkConflict, Working
  <2>2. PICK row : row = drafts[q.device]
    OBVIOUS
  <2>3. CASE row # NoDraft /\ row.version = 1 /\ row.checksum = q.payload
    <3>1. row \in DraftRow
      BY <1>2, <2>1, <2>2, <2>3
    <3>2. PICK new : new = [row EXCEPT !.version = 2, !.status = "conflict"]
      OBVIOUS
    <3>3. drafts' = [drafts EXCEPT ![q.device] = new]
      BY <1>1, <1>2, <1>6, <2>2, <2>3, <3>2 DEF MarkConflict
    <3>4. /\ new \in DraftRow /\ new.generation = row.generation
          /\ new.checksum = row.checksum
      <4>1. new = [id |-> row.id, version |-> 2, generation |-> row.generation,
                   checksum |-> row.checksum, status |-> "conflict", lease |-> row.lease]
        BY <3>1, <3>2 DEF DraftRow
      <4> QED BY <3>1, <4>1 DEF DraftRow
    <3> QED BY <1>1, <1>2, <2>1, <2>2, <2>3, <3>3, <3>4, AutosaveAssumption DEF Renamed
  <2>4. CASE ~(row # NoDraft /\ row.version = 1 /\ row.checksum = q.payload)
    BY <1>1, <1>4, <1>6, <2>2, <2>4 DEF MarkConflict
  <2> QED BY <2>3, <2>4
<1>7. CASE WriteRow(r)
  BY <1>1, <1>3, <1>4, <1>7 DEF WriteRow
<1>8. CASE DeleteRow(r)
  BY <1>1, <1>4, <1>5, <1>8 DEF DeleteRow
<1>9. CASE CallFails(r)
  BY <1>1, <1>3, <1>4, <1>5, <1>9 DEF CallFails
<1>10. CASE \/ \E op \in Operations, e \in Devices : Begin(r, op, e)
            \/ LiveLeaseHolder(r) \/ FindByDevice(r) \/ PutSnapshot(r) \/ LoadSnapshot(r)
            \/ IsSnapshotReferenced(r) \/ DeleteObject(r)
  BY <1>4, <1>10 DEF Begin, LiveLeaseHolder, FindByDevice, PutSnapshot, LoadSnapshot,
                     IsSnapshotReferenced, DeleteObject
<1> QED BY <1>6, <1>7, <1>8, <1>9, <1>10 DEF RequestStep

LEMMA StepKinds ==
    [Next]_vars => \/ \E r \in Requests : RequestStep(r)
                   \/ Crash
                   \/ UNCHANGED vars
  BY DEF Next, RequestStep

\* A save never replaces a draft it did not read: what a row names changes one
\* generation at a time, whatever else wrote, failed or crashed in between.
THEOREM SavesChain == Spec => SavesAreChained
<1> DEFINE Chained ==
      \A d \in Devices : drafts[d] # NoDraft /\ drafts'[d] # NoDraft /\ drafts'[d].id = drafts[d].id =>
         \/ drafts'[d].checksum = drafts[d].checksum /\ drafts'[d].generation = drafts[d].generation
         \/ drafts'[d].generation = drafts[d].generation + 1
<1>1. Init => ReadInv
  BY ReadInit
<1>2. ReadInv /\ [Next]_vars => ReadInv'
  BY ReadStep
<1>3. ReadInv /\ [Next]_vars => [Chained]_vars
  <2> SUFFICES ASSUME ReadInv, [Next]_vars
               PROVE  [Chained]_vars
    OBVIOUS
  <2>1. ASSUME NEW r \in Requests, RequestStep(r)
        PROVE  Chained
    <3>1. \A d \in Devices : Renamed(r, d)
      BY <2>1, StepRenames
    <3> QED BY <3>1 DEF Renamed
  <2>2. CASE Crash
    BY <2>2 DEF Crash
  <2>3. CASE UNCHANGED vars
    BY <2>3
  <2> QED BY <2>1, <2>2, <2>3, StepKinds
<1> QED BY <1>1, <1>2, <1>3, PTL DEF Spec, SavesAreChained

\* A recovery that succeeds hands back the bytes its draft names at that moment.
THEOREM RecoveriesAreCurrent == Spec => RecoveredIsCurrent
<1> DEFINE HandsBack ==
      \A r \in Requests :
         LET q == requests[r]
         IN  q.op = "recover" /\ q.at = "write" /\ drafts' # drafts /\ requests'[r] # q =>
               q.payload = drafts'[q.device].checksum
<1>1. Init => ReadInv
  BY ReadInit
<1>2. ReadInv /\ [Next]_vars => ReadInv'
  BY ReadStep
<1>3. ReadInv /\ [Next]_vars => [HandsBack]_vars
  <2> SUFFICES ASSUME ReadInv, [Next]_vars
               PROVE  [HandsBack]_vars
    OBVIOUS
  <2>1. ASSUME NEW p \in Requests, RequestStep(p), NEW r \in Requests,
               requests[r].op = "recover", requests[r].at = "write",
               drafts' # drafts, requests'[r] # requests[r]
        PROVE  requests[r].payload = drafts'[requests[r].device].checksum
    <3>1. PICK q : q = requests[r]
      OBVIOUS
    <3>2. p = r
      BY <2>1, OthersWait
    <3>3. /\ q \in Working /\ q.device \in Devices /\ q.payload = q.seen.checksum
          /\ q.op = "recover" /\ q.at = "write"
      BY <2>1, <3>1, AtStep DEF Working, Prepared
    <3>4. \A d \in Devices : Renamed(r, d)
      BY <2>1, <3>2, StepRenames
    <3>5. PICK d \in Devices : drafts'[d] # drafts[d]
      <4>1. drafts \in [Devices -> DraftRow \cup {NoDraft}]
        BY DEF ReadInv, DraftTypes
      <4>2. drafts' \in [Devices -> DraftRow \cup {NoDraft}]
        BY ReadStep DEF ReadInv, DraftTypes
      <4> QED BY <2>1, <4>1, <4>2
    <3> QED BY <3>1, <3>3, <3>4, <3>5 DEF Renamed
  <2>2. ASSUME NEW p \in Requests, RequestStep(p)
        PROVE  HandsBack
    BY <2>1, <2>2
  <2>3. CASE Crash
    BY <2>3 DEF Crash
  <2>4. CASE UNCHANGED vars
    BY <2>4
  <2> QED BY <2>2, <2>3, <2>4, StepKinds
<1> QED BY <1>1, <1>2, <1>3, PTL DEF Spec, RecoveredIsCurrent

--------------------------------------------------------------------------------
(* The bytes of a device that one request moves at a time.                    *)

\* Only a save about to write, and a release about to delete, have to keep apart.
LEMMA ApartElsewhere ==
    ASSUME NEW q, q.at \notin {"put", "write", "deleteObject"} \/ ~MovesBytes(q.op), q \in Request
    PROVE  Apart(q)
  BY DEF Apart, MovesBytes, Request, Working, Releasing, Resting

\* A request that does not move this device's bytes leaves them, and the names of its row.
LEMMA OthersLeave ==
    ASSUME ReadInv, NEW r \in Requests, RequestStep(r), NEW d \in Devices, ~Mover(r, d)
    PROVE  /\ objects'[d] = objects[d]
           /\ \/ drafts'[d] = drafts[d]
              \/ /\ drafts[d] # NoDraft /\ drafts'[d] # NoDraft
                 /\ drafts'[d].generation = drafts[d].generation
                 /\ drafts'[d].checksum = drafts[d].checksum
<1>1. PICK q : q = requests[r]
  OBVIOUS
<1>2. q \in Request /\ Prepared(q)
  BY <1>1, AtStep
<1>3. q.at = "idle" \/ q.device # d \/ ~MovesBytes(q.op)
  BY <1>1 DEF Mover, Running
<1>4. objects'[d] = objects[d]
  <2>1. CASE PutSnapshot(r)
    <3>1. q.op = "save" /\ q.at = "put"
      BY <1>1, <1>2, <2>1 DEF PutSnapshot, Prepared
    <3>2. q.device # d
      BY <1>3, <3>1 DEF MovesBytes
    <3> QED BY <1>1, <2>1, <3>2 DEF PutSnapshot, ReadInv, DraftTypes
  <2>2. CASE DeleteObject(r)
    <3>1. q \in Releasing /\ q.at = "deleteObject"
      BY <1>1, <2>2, AtStep DEF DeleteObject
    <3>2. q.device # d
      BY <1>3, <3>1 DEF MovesBytes, Releasing
    <3> QED BY <1>1, <2>2, <3>2 DEF DeleteObject, ReadInv, DraftTypes
  <2>3. CASE CallFails(r) /\ q.at = "put"
    <3>1. q.op = "save"
      BY <1>2, <2>3 DEF Prepared
    <3>2. q.device # d
      BY <1>3, <2>3, <3>1 DEF MovesBytes
    <3> QED BY <1>1, <2>3, <3>2 DEF CallFails, ReadInv, DraftTypes
  <2>4. CASE CallFails(r) /\ q.at # "put"
    BY <1>1, <2>4 DEF CallFails
  <2>5. CASE \/ \E op \in Operations, e \in Devices : Begin(r, op, e)
             \/ LiveLeaseHolder(r) \/ FindByDevice(r) \/ LoadSnapshot(r) \/ WriteRow(r)
             \/ MarkConflict(r) \/ DeleteRow(r) \/ IsSnapshotReferenced(r)
    BY <2>5 DEF Begin, LiveLeaseHolder, FindByDevice, LoadSnapshot, WriteRow, MarkConflict,
                DeleteRow, IsSnapshotReferenced
  <2> QED BY <2>1, <2>2, <2>3, <2>4, <2>5 DEF RequestStep
<1>5. \/ drafts'[d] = drafts[d]
      \/ /\ drafts[d] # NoDraft /\ drafts'[d] # NoDraft
         /\ drafts'[d].generation = drafts[d].generation
         /\ drafts'[d].checksum = drafts[d].checksum
  <2>1. Renamed(r, d)
    BY StepRenames
  <2> QED BY <1>1, <1>3, <2>1 DEF Renamed, MovesBytes
<1> QED BY <1>4, <1>5

\* A request comes to move a device's bytes only where it begins, and where no other does.
LEMMA OthersBegin ==
    ASSUME ReadInv, NEW r \in Requests, RequestStep(r), NEW d \in Devices,
           d \notin overlapped', ~Mover(r, d), Mover(r, d)'
    PROVE  requests'[r].at \in {"lease", "find"} /\ \A p \in Requests : ~Mover(p, d)
<1>1. PICK q : q = requests[r]
  OBVIOUS
<1>2. q \in Request /\ Prepared(q)
  BY <1>1, AtStep
<1>3. PICK n : n = requests'[r]
  OBVIOUS
<1>4. q.at = "idle" \/ q.device # d \/ ~MovesBytes(q.op)
  BY <1>1 DEF Mover, Running
<1>5. Mover(r, d)' => /\ n.at \in {"lease", "find"}
                      /\ \A p \in Requests : ~Mover(p, d)
  <2>1. CASE q.at = "idle"
    <3>1. PICK op \in Operations, e \in Devices : Begin(r, op, e)
      BY <1>1, <2>1 DEF RequestStep, LiveLeaseHolder, FindByDevice, PutSnapshot, LoadSnapshot,
                        WriteRow, MarkConflict, DeleteRow, IsSnapshotReferenced, DeleteObject,
                        CallFails
    <3>2. /\ n.op = op /\ n.device = e /\ n.at \in {"lease", "find"}
      BY <1>3, <3>1 DEF Begin, ReadInv, DraftTypes
    <3>3. Mover(r, d)' => e = d /\ MovesBytes(op)
      BY <1>3, <3>2 DEF Mover, Running
    <3>4. MovesBytes(op) /\ (\E p \in Running(e) : MovesBytes(requests[p].op)) => e \in overlapped'
      BY <3>1 DEF Begin
    <3> QED BY <3>2, <3>3, <3>4 DEF Mover
  <2>2. CASE q.at # "idle"
    <3>1. n = Resting \/ (n.op = q.op /\ n.device = q.device)
      <4>1. requests \in [Requests -> Request]
        BY DEF ReadInv, DraftTypes, Request
      <4>2. CASE LiveLeaseHolder(r) \/ FindByDevice(r) \/ PutSnapshot(r) \/ LoadSnapshot(r)
        <5>1. q \in Working
          BY <1>1, <4>2, AtStep DEF LiveLeaseHolder, FindByDevice, PutSnapshot, LoadSnapshot
        <5> QED BY <1>1, <1>3, <4>1, <4>2, <5>1
                DEF LiveLeaseHolder, FindByDevice, PutSnapshot, LoadSnapshot, Working
      <4>3. CASE WriteRow(r)
        <5>1. q \in Working
          BY <1>1, <4>3, AtStep DEF WriteRow
        <5> QED BY <1>1, <1>3, <4>1, <4>3, <5>1 DEF WriteRow, AfterWrite, Superseded, Release, Working
      <4>4. CASE MarkConflict(r) \/ DeleteRow(r) \/ DeleteObject(r) \/ CallFails(r)
        BY <1>1, <1>3, <4>1, <4>4 DEF MarkConflict, DeleteRow, DeleteObject, CallFails, Release
      <4>5. CASE IsSnapshotReferenced(r)
        <5>1. q \in Releasing
          BY <1>1, <4>5, AtStep DEF IsSnapshotReferenced
        <5> QED BY <1>1, <1>3, <4>1, <4>5, <5>1 DEF IsSnapshotReferenced, Releasing
      <4>6. ~\E op \in Operations, e \in Devices : Begin(r, op, e)
        BY <1>1, <2>2 DEF Begin
      <4> QED BY <4>2, <4>3, <4>4, <4>5, <4>6 DEF RequestStep
    <3> QED BY <1>3, <1>4, <2>2, <3>1 DEF Mover, Running, Resting
  <2> QED BY <2>1, <2>2
<1> QED BY <1>3, <1>5

\* A step of a request that does not move this device's bytes.
LEMMA OthersApart ==
    ASSUME ReadInv, ReadInv', NEW r \in Requests, RequestStep(r), NEW d \in Devices,
           d \notin overlapped', Safe(d), ~Mover(r, d)
    PROVE  Safe(d)'
<1>1. PICK q : q = requests[r]
  OBVIOUS
<1>2. q \in Request /\ Prepared(q)
  BY <1>1, AtStep
<1>3. PICK n : n = requests'[r]
  OBVIOUS
<1>4. n \in Request
  BY <1>3 DEF ReadInv, DraftTypes, Request
<1>5. q.at = "idle" \/ q.device # d \/ ~MovesBytes(q.op)
  BY <1>1 DEF Mover, Running
<1>6. /\ objects'[d] = objects[d]
      /\ \/ drafts'[d] = drafts[d]
         \/ /\ drafts[d] # NoDraft /\ drafts'[d] # NoDraft
            /\ drafts'[d].generation = drafts[d].generation
            /\ drafts'[d].checksum = drafts[d].checksum
  BY OthersLeave
<1>8. Intact(d)'
  BY <1>6 DEF Safe, Intact
<1>9. Mover(r, d)' => /\ n.at \in {"lease", "find"}
                      /\ \A p \in Requests : ~Mover(p, d)
  BY <1>3, OthersBegin
<1>10. \A p \in Requests : p # r => requests'[p] = requests[p]
  BY OthersWait
<1>11. OneMover(d)'
  <2> SUFFICES ASSUME NEW a \in Requests, NEW b \in Requests, Mover(a, d)', Mover(b, d)'
               PROVE  a = b
    BY DEF OneMover
  <2>1. \A p \in Requests : p # r /\ Mover(p, d)' => Mover(p, d)
    BY <1>10 DEF Mover, Running
  <2> QED BY <1>9, <2>1 DEF Safe, OneMover
<1>12. ASSUME NEW p \in Requests, p \in Running(d)'
       PROVE  Apart(requests[p])'
  <2>1. CASE p # r
    <3>1. requests'[p] = requests[p] /\ p \in Running(d) /\ requests[p].device = d
      BY <1>10, <1>12, <2>1 DEF Running
    <3>2. Apart(requests[p])
      BY <3>1 DEF Safe
    <3> QED BY <1>6, <3>1, <3>2 DEF Apart
  <2>2. CASE p = r
    <3>1. n.at \notin {"put", "write", "deleteObject"} \/ ~MovesBytes(n.op)
      BY <1>3, <1>9, <1>12, <2>2 DEF Mover
    <3> QED BY <1>3, <1>4, <2>2, <3>1 DEF Apart, MovesBytes, Request, Working, Releasing, Resting
  <2> QED BY <2>1, <2>2
<1> QED BY <1>8, <1>11, <1>12 DEF Safe, Running

\* A step of the one request that does: what it leaves behind is apart from the row.
LEMMA MoverApart ==
    ASSUME ReadInv, ReadInv', NEW r \in Requests, RequestStep(r), NEW d \in Devices,
           Safe(d), Mover(r, d)
    PROVE  Safe(d)'
<1>1. PICK q : q = requests[r]
  OBVIOUS
<1>2. /\ q \in Request /\ Prepared(q) /\ Apart(q) /\ Intact(d)
      /\ q.device = d /\ q.at # "idle" /\ MovesBytes(q.op)
  BY <1>1, AtStep DEF Mover, Running, Safe
<1>3. PICK n : n = requests'[r]
  OBVIOUS
<1>4. n \in Request
  BY <1>3 DEF ReadInv, DraftTypes, Request
<1>5. /\ drafts \in [Devices -> DraftRow \cup {NoDraft}]
      /\ objects \in [Devices -> [Generations -> Nat \cup {Torn}]]
      /\ requests \in [Requests -> Request]
  BY DEF ReadInv, DraftTypes, Request
<1>6. Apart(requests[r])' /\ Intact(d)'
  <2>1. ASSUME UNCHANGED <<drafts[d], objects[d]>>,
               n.at \notin {"put", "write", "deleteObject"}
        PROVE  Apart(requests[r])' /\ Intact(d)'
    <3>1. Intact(d)'
      BY <1>2, <2>1 DEF Intact
    <3> QED BY <1>3, <2>1, <3>1 DEF Apart
  <2>2. CASE LiveLeaseHolder(r)
    BY <1>1, <1>3, <1>5, <2>1, <2>2 DEF LiveLeaseHolder
  <2>3. CASE FindByDevice(r)
    <3>1. UNCHANGED <<drafts, objects>>
      BY <2>3 DEF FindByDevice
    <3>2. q \in Working /\ q.op \in {"save", "discard"}
      BY <1>1, <1>2, <2>3, AtStep DEF FindByDevice, MovesBytes
    <3>3. CASE q.op = "discard"
      <4>1. n.at \in {"idle", "deleteRow"}
        BY <1>1, <1>3, <1>5, <2>3, <3>2, <3>3 DEF FindByDevice, Resting, Working
      <4> QED BY <2>1, <3>1, <4>1
    <3>4. CASE q.op = "save"
      <4>1. n.at = "put" /\ n.seen = drafts[d] /\ n.device = d /\ n.op = "save"
        BY <1>1, <1>2, <1>3, <1>5, <2>3, <3>2, <3>4 DEF FindByDevice, Working
      <4> QED BY <1>2, <1>3, <3>1, <4>1 DEF Apart, Intact
    <3> QED BY <3>2, <3>3, <3>4
  <2>4. CASE PutSnapshot(r)
    <3>1. q \in Working /\ q.at = "put" /\ q.op = "save"
      BY <1>1, <1>2, <2>4, AtStep DEF PutSnapshot, Prepared
    <3>2. /\ n.at = "write" /\ n.seen = q.seen /\ n.device = d /\ n.op = "save"
          /\ n.key = q.key /\ n.payload = q.payload
      BY <1>1, <1>2, <1>3, <1>5, <2>4, <3>1 DEF PutSnapshot, Working
    <3>3. /\ UNCHANGED drafts
          /\ objects' = [objects EXCEPT ![d][q.key] = q.payload]
      BY <1>1, <1>2, <2>4 DEF PutSnapshot
    <3>4. drafts[d] # NoDraft => q.key # drafts[d].generation
      BY <1>2, <1>5, <3>1 DEF Apart, Prepared, FreshGeneration, DraftRow, Generations
    <3>5. q.key \in Generations
      BY <1>2, <3>1 DEF Prepared
    <3>6. /\ objects'[d][q.key] = q.payload
          /\ \A g \in Generations : g # q.key => objects'[d][g] = objects[d][g]
      BY <1>5, <3>3, <3>5
    <3>7. Intact(d)'
      BY <1>2, <1>5, <3>3, <3>4, <3>6 DEF Intact, DraftRow
    <3>8. Apart(q)
      BY <1>2
    <3> QED BY <1>2, <1>3, <3>1, <3>2, <3>3, <3>6, <3>7, <3>8 DEF Apart
  <2>5. CASE WriteRow(r) \/ (CallFails(r) /\ q.at # "put")
    <3>1. UNCHANGED objects
      BY <1>1, <2>5 DEF WriteRow, CallFails
    <3>2. n.at \notin {"put", "write", "deleteObject"}
      <4>1. CASE WriteRow(r)
        BY <1>1, <1>3, <1>5, <4>1, AfterWriteReads DEF WriteRow, Resting
      <4>2. CASE CallFails(r)
        BY <1>1, <1>3, <1>5, <4>2 DEF CallFails, Resting, Release
      <4> QED BY <2>5, <4>1, <4>2
    <3>3. Intact(d)'
      <4>1. Renamed(r, d)
        BY StepRenames
      <4>2. q.at = "write" /\ q.op = "save" => objects[d][q.key] = q.payload
        BY <1>2 DEF Apart
      <4> QED BY <1>1, <1>2, <3>1, <4>1, <4>2 DEF Renamed, Intact
    <3> QED BY <1>3, <3>2, <3>3 DEF Apart
  <2>6. CASE CallFails(r) /\ q.at = "put"
    <3>1. n = Resting /\ UNCHANGED drafts
      BY <1>1, <1>3, <1>5, <2>6 DEF CallFails
    <3>2. PICK left : objects' = [objects EXCEPT ![d][q.key] = left]
      BY <1>1, <1>2, <2>6 DEF CallFails
    <3>3. q.op = "save" /\ q.key \in Generations
      BY <1>2, <2>6 DEF Prepared
    <3>4. drafts[d] # NoDraft => q.key # drafts[d].generation
      BY <1>2, <1>5, <2>6, <3>3 DEF Apart, Prepared, FreshGeneration, DraftRow, Generations
    <3>5. \A g \in Generations : g # q.key => objects'[d][g] = objects[d][g]
      BY <1>5, <3>2
    <3>6. Intact(d)'
      BY <1>2, <1>5, <3>1, <3>4, <3>5 DEF Intact, DraftRow
    <3> QED BY <1>3, <3>1, <3>6 DEF Apart, Resting
  <2>7. CASE MarkConflict(r) \/ DeleteRow(r)
    <3>1. UNCHANGED objects
      BY <2>7 DEF MarkConflict, DeleteRow
    <3>2. n.at \notin {"put", "write", "deleteObject"}
      BY <1>1, <1>3, <1>5, <2>7 DEF MarkConflict, DeleteRow, Release, Resting
    <3>3. Intact(d)'
      <4>1. Renamed(r, d) /\ q.at # "write"
        BY <1>1, <2>7, StepRenames DEF MarkConflict, DeleteRow
      <4> QED BY <1>1, <1>2, <3>1, <4>1 DEF Renamed, Intact
    <3> QED BY <1>3, <3>2, <3>3 DEF Apart
  <2>8. CASE IsSnapshotReferenced(r)
    <3>1. q \in Releasing /\ UNCHANGED <<drafts, objects>>
      BY <1>1, <2>8, AtStep DEF IsSnapshotReferenced
    <3>2. \/ n = Resting
          \/ /\ n.at = "deleteObject" /\ n.device = d /\ n.key = q.key
             /\ drafts[d] = NoDraft \/ drafts[d].generation # q.key
      BY <1>1, <1>2, <1>3, <1>5, <2>8, <3>1 DEF IsSnapshotReferenced, Releasing
    <3> QED BY <1>2, <1>3, <3>1, <3>2 DEF Apart, Intact, Resting
  <2>9. CASE DeleteObject(r)
    <3>1. q \in Releasing /\ q.at = "deleteObject" /\ n = Resting /\ UNCHANGED drafts
      BY <1>1, <1>3, <1>5, <2>9, AtStep DEF DeleteObject
    <3>2. objects' = [objects EXCEPT ![d][q.key] = Nothing]
      BY <1>1, <1>2, <2>9 DEF DeleteObject
    <3>3. drafts[d] = NoDraft \/ drafts[d].generation # q.key
      BY <1>2, <3>1 DEF Apart
    <3>4. \A g \in Generations : g # q.key => objects'[d][g] = objects[d][g]
      BY <1>5, <3>2
    <3>5. Intact(d)'
      BY <1>2, <1>5, <3>1, <3>3, <3>4 DEF Intact, DraftRow
    <3> QED BY <1>3, <3>1, <3>5 DEF Apart, Resting
  <2>10. CASE LoadSnapshot(r)
    BY <1>1, <1>2, <2>10 DEF LoadSnapshot, Prepared, MovesBytes
  <2>11. CASE \E op \in Operations, e \in Devices : Begin(r, op, e)
    BY <1>1, <1>2, <2>11 DEF Begin
  <2> QED BY <2>2, <2>3, <2>4, <2>5, <2>6, <2>7, <2>8, <2>9, <2>10, <2>11 DEF RequestStep
<1>7. \A p \in Requests : p # r => requests'[p] = requests[p]
  BY OthersWait
<1>8. ASSUME NEW p \in Requests, p # r, p \in Running(d)'
      PROVE  ~MovesBytes(requests'[p].op) /\ Apart(requests[p])'
  <2>1. requests'[p] = requests[p] /\ p \in Running(d)
    BY <1>7, <1>8 DEF Running
  <2>2. ~MovesBytes(requests[p].op)
    BY <1>8, <2>1 DEF Safe, OneMover, Mover
  <2>3. PICK m \in Request : m = requests[p]
    BY <1>5
  <2> QED BY <2>1, <2>2, <2>3 DEF Apart, MovesBytes, Request, Working, Releasing, Resting
<1>9. OneMover(d)'
  BY <1>8 DEF OneMover, Mover
<1>10. \A p \in Running(d)' : Apart(requests[p])'
  BY <1>6, <1>8 DEF Running
<1> QED BY <1>6, <1>9, <1>10 DEF Safe, Running

\* A restart ends every request, and tears only the objects they were writing.
LEMMA CrashApart ==
    ASSUME ReadInv, Crash, NEW d \in Devices, Safe(d)
    PROVE  Safe(d)'
<1>1. /\ drafts \in [Devices -> DraftRow \cup {NoDraft}]
      /\ \A r \in Requests : requests'[r].at = "idle"
      /\ UNCHANGED drafts
  BY DEF Crash, Resting, ReadInv, DraftTypes
<1>2. OneMover(d)' /\ Running(d)' = {}
  BY <1>1 DEF OneMover, Mover, Running
<1>3. PICK torn \in SUBSET {r \in Requests : requests[r].at = "put"} :
         objects' = [e \in Devices |-> [g \in Generations |->
            IF \E r \in torn : requests[r].device = e /\ requests[r].key = g
            THEN Torn ELSE objects[e][g]]]
  BY DEF Crash
<1>4. ASSUME drafts[d] # NoDraft, NEW r \in torn, requests[r].device = d
      PROVE  requests[r].key # drafts[d].generation
  <2>1. PICK q : q = requests[r]
    OBVIOUS
  <2>2. r \in Requests /\ q.at = "put" /\ q.device = d
    BY <1>3, <1>4, <2>1
  <2>3. q \in Working /\ Prepared(q) /\ q.op = "save"
    BY <2>1, <2>2, AtStep DEF Prepared
  <2>4. Apart(q)
    BY <2>1, <2>2 DEF Safe, Running
  <2> QED BY <1>1, <1>4, <2>1, <2>2, <2>3, <2>4 DEF Apart, Prepared, FreshGeneration, DraftRow, Generations
<1>5. Intact(d)'
  <2> SUFFICES ASSUME drafts[d] # NoDraft
               PROVE  objects'[d][drafts[d].generation] = drafts[d].checksum
    BY <1>1 DEF Intact
  <2>1. drafts[d].generation \in Generations
    BY <1>1 DEF DraftRow
  <2> QED BY <1>3, <1>4, <2>1 DEF Safe, Intact
<1> QED BY <1>2, <1>5 DEF Safe

LEMMA BytesStep ==
    ASSUME ReadInv, BytesInv, [Next]_vars
    PROVE  BytesInv'
<1> SUFFICES ASSUME NEW d \in Devices, d \notin overlapped'
             PROVE  Safe(d)'
  BY DEF BytesInv
<1>1. ReadInv'
  BY ReadStep
<1>2. d \notin overlapped
  <2>1. ASSUME NEW r \in Requests, RequestStep(r)
        PROVE  overlapped \subseteq overlapped'
    BY <2>1 DEF RequestStep, Begin, LiveLeaseHolder, FindByDevice, PutSnapshot, LoadSnapshot,
                WriteRow, MarkConflict, DeleteRow, IsSnapshotReferenced, DeleteObject, CallFails
  <2> QED BY <2>1, StepKinds DEF Crash, vars
<1>3. Safe(d)
  BY <1>2 DEF BytesInv
<1>4. ASSUME NEW r \in Requests, RequestStep(r)
      PROVE  Safe(d)'
  BY <1>1, <1>3, <1>4, OthersApart, MoverApart
<1>5. CASE Crash
  BY <1>3, <1>5, CrashApart
<1>6. CASE UNCHANGED vars
  BY <1>3, <1>6 DEF vars, Safe, OneMover, Mover, Running, Apart, Intact
<1> QED BY <1>4, <1>5, <1>6, StepKinds

\* What a draft's row points at is there and matches its checksum, whatever call failed
\* and wherever the server stopped, unless two requests moved the device's bytes at a time.
THEOREM SnapshotsStayIntact == Spec => []SnapshotIntact
<1>1. Init => ReadInv /\ BytesInv
  <2>1. Init => BytesInv
    BY DEF Init, BytesInv, Safe, OneMover, Mover, Running, Intact, Resting
  <2> QED BY <2>1, ReadInit
<1>2. ReadInv /\ BytesInv /\ [Next]_vars => ReadInv' /\ BytesInv'
  BY ReadStep, BytesStep
<1>3. BytesInv => SnapshotIntact
  BY DEF BytesInv, Safe, Intact, SnapshotIntact
<1> QED BY <1>1, <1>2, <1>3, PTL DEF Spec

--------------------------------------------------------------------------------
(* Nothing is left behind: while no call fails, an object is named by its     *)
(* device's row or in the hands of the one request that moves its bytes.      *)

Names(d, g) == drafts[d] # NoDraft /\ drafts[d].generation = g

Carries(r, d, g) ==
    Mover(r, d) /\ requests[r].at \in {"write", "check", "deleteObject"} /\ requests[r].key = g

Accounted(d) ==
    \A g \in Generations : objects[d][g] # Nothing =>
        Names(d, g) \/ \E r \in Requests : Carries(r, d, g)

\* A discard about to delete the row has read which object to release after it.
Doomed(d) ==
    \A r \in Requests : Mover(r, d) /\ requests[r].at = "deleteRow" =>
        drafts[d] = NoDraft \/ Names(d, requests[r].seen.generation)

Tidy(d) == Doomed(d) /\ Accounted(d)

TidyInv ==
    /\ faults \in Nat
    /\ faults = 0 => \A d \in Devices \ overlapped : Tidy(d)

LEMMA OthersTidy ==
    ASSUME ReadInv, NEW r \in Requests, RequestStep(r), NEW d \in Devices,
           d \notin overlapped', Safe(d), Tidy(d), ~Mover(r, d), ~CallFails(r)
    PROVE  Tidy(d)'
<1>1. /\ objects'[d] = objects[d]
      /\ \/ drafts'[d] = drafts[d]
         \/ /\ drafts[d] # NoDraft /\ drafts'[d] # NoDraft
            /\ drafts'[d].generation = drafts[d].generation
  BY OthersLeave
<1>2. \A g : Names(d, g)' <=> Names(d, g)
  BY <1>1 DEF Names
<1>3. \A p \in Requests : p # r => requests'[p] = requests[p]
  BY OthersWait
<1>4. ASSUME NEW g, NEW p \in Requests, Carries(p, d, g)
      PROVE  Carries(p, d, g)'
  <2>1. p # r
    BY <1>4 DEF Carries
  <2> QED BY <1>3, <1>4, <2>1 DEF Carries, Mover, Running
<1>5. Accounted(d)'
  BY <1>1, <1>2, <1>4 DEF Tidy, Accounted
<1>6. ASSUME NEW p \in Requests, Mover(p, d)', requests'[p].at = "deleteRow"
      PROVE  p # r
  BY <1>6, OthersBegin
<1>7. Doomed(d)'
  <2> SUFFICES ASSUME NEW p \in Requests, Mover(p, d)', requests'[p].at = "deleteRow"
               PROVE  drafts'[d] = NoDraft \/ Names(d, requests[p].seen.generation)'
    BY DEF Doomed
  <2>1. requests'[p] = requests[p]
    BY <1>3, <1>6
  <2>2. drafts[d] = NoDraft \/ Names(d, requests[p].seen.generation)
    BY <2>1 DEF Tidy, Doomed, Mover, Running
  <2> QED BY <1>1, <2>1, <2>2 DEF Names
<1> QED BY <1>5, <1>7 DEF Tidy

\* A step of the request that does: what it takes in hand it names, carries or deletes.
LEMMA MoverTidy ==
    ASSUME ReadInv, NEW r \in Requests, RequestStep(r), NEW d \in Devices,
           Safe(d), Tidy(d), Mover(r, d), ~CallFails(r)
    PROVE  Tidy(d)'
<1>1. PICK q : q = requests[r]
  OBVIOUS
<1>2. /\ q \in Request /\ Prepared(q) /\ Apart(q)
      /\ q.device = d /\ q.at # "idle" /\ q.op \in {"save", "discard"}
  BY <1>1, AtStep DEF Mover, Running, Safe, MovesBytes
<1>3. PICK n : n = requests'[r]
  OBVIOUS
<1>4. /\ drafts \in [Devices -> DraftRow \cup {NoDraft}]
      /\ objects \in [Devices -> [Generations -> Nat \cup {Torn}]]
      /\ requests \in [Requests -> Request]
  BY DEF ReadInv, DraftTypes, Request
<1>5. \A p \in Requests : p # r => requests'[p] = requests[p] /\ ~Mover(p, d) /\ ~Mover(p, d)'
  <2> SUFFICES ASSUME NEW p \in Requests, p # r
               PROVE  requests'[p] = requests[p] /\ ~Mover(p, d) /\ ~Mover(p, d)'
    OBVIOUS
  <2>1. requests'[p] = requests[p]
    BY OthersWait
  <2>2. ~Mover(p, d)
    BY DEF Safe, OneMover
  <2> QED BY <2>1, <2>2 DEF Mover, Running
<1> DEFINE Holds(x, g) == x.at \in {"write", "check", "deleteObject"} /\ x.key = g
<1>6. ASSUME NEW g \in Generations, objects[d][g] # Nothing
      PROVE  Names(d, g) \/ Holds(q, g)
  BY <1>1, <1>5, <1>6 DEF Tidy, Accounted, Carries
<1>7. ASSUME n.at # "idle" => n.device = d /\ MovesBytes(n.op),
             \A g \in Generations : objects'[d][g] # Nothing => Names(d, g)' \/ Holds(n, g),
             n.at = "deleteRow" => drafts'[d] = NoDraft \/ Names(d, n.seen.generation)'
      PROVE  Tidy(d)'
  <2>1. Doomed(d)'
    BY <1>3, <1>5, <1>7 DEF Doomed
  <2>2. ASSUME NEW g, Holds(n, g)
        PROVE  Carries(r, d, g)'
    BY <1>3, <1>7, <2>2 DEF Carries, Mover, Running
  <2>3. Accounted(d)'
    BY <1>7, <2>2 DEF Accounted
  <2> QED BY <2>1, <2>3 DEF Tidy
<1> HIDE DEF Holds
<1>8. CASE LiveLeaseHolder(r)
  <2>1. q \in Working /\ q.at = "lease" /\ q.op = "save" /\ UNCHANGED <<drafts, objects>>
    BY <1>1, <1>2, <1>8, AtStep DEF LiveLeaseHolder, Prepared
  <2>2. n.at = "find" /\ n.device = d /\ n.op = "save"
    BY <1>1, <1>2, <1>3, <1>4, <1>8, <2>1 DEF LiveLeaseHolder, Working
  <2>3. \A g \in Generations : ~Holds(q, g)
    BY <2>1 DEF Holds
  <2> QED BY <1>6, <1>7, <2>1, <2>2, <2>3 DEF MovesBytes, Names
<1>9. CASE FindByDevice(r)
  <2>1. q \in Working /\ q.at = "find" /\ UNCHANGED <<drafts, objects>>
    BY <1>1, <1>9, AtStep DEF FindByDevice
  <2>2. \A g \in Generations : ~Holds(q, g)
    BY <2>1 DEF Holds
  <2>3. CASE q.op = "save"
    <3>1. n.at = "put" /\ n.device = d /\ n.op = "save"
      BY <1>1, <1>2, <1>3, <1>4, <1>9, <2>1, <2>3 DEF FindByDevice, Working
    <3> QED BY <1>6, <1>7, <2>1, <2>2, <3>1 DEF MovesBytes, Names
  <2>4. CASE q.op = "discard"
    <3>1. n = Resting \/ (n.at = "deleteRow" /\ n.device = d /\ n.op = "discard" /\ n.seen = drafts[d])
      BY <1>1, <1>2, <1>3, <1>4, <1>9, <2>1, <2>4 DEF FindByDevice, Working
    <3>2. n.at = "deleteRow" => drafts'[d] = NoDraft \/ Names(d, n.seen.generation)'
      BY <2>1, <3>1 DEF Names, Resting
    <3>3. n.at # "idle" => n.device = d /\ MovesBytes(n.op)
      BY <3>1 DEF Resting, MovesBytes
    <3> QED BY <1>6, <1>7, <2>1, <2>2, <3>2, <3>3 DEF Names
  <2> QED BY <1>2, <2>3, <2>4
<1>10. CASE PutSnapshot(r)
  <2>1. q \in Working /\ q.at = "put" /\ q.op = "save"
    BY <1>1, <1>2, <1>10, AtStep DEF PutSnapshot, Prepared
  <2>2. n.at = "write" /\ n.device = d /\ n.op = "save" /\ n.key = q.key
    BY <1>1, <1>2, <1>3, <1>4, <1>10, <2>1 DEF PutSnapshot, Working
  <2>3. /\ UNCHANGED drafts
        /\ \A g \in Generations : g # q.key => objects'[d][g] = objects[d][g]
    BY <1>1, <1>2, <1>4, <1>10 DEF PutSnapshot
  <2>4. \A g \in Generations : ~Holds(q, g) /\ (Holds(n, g) <=> g = q.key)
    BY <2>1, <2>2 DEF Holds
  <2>5. ASSUME NEW g \in Generations, objects'[d][g] # Nothing
        PROVE  Names(d, g)' \/ Holds(n, g)
    BY <1>6, <2>3, <2>4, <2>5 DEF Names
  <2> QED BY <1>7, <2>2, <2>5 DEF MovesBytes
<1>11. CASE WriteRow(r)
  <2>1. q \in Working /\ q.at = "write" /\ q.op = "save" /\ UNCHANGED objects /\ n = AfterWrite(q)
    BY <1>1, <1>2, <1>3, <1>4, <1>11, AtStep DEF WriteRow, Prepared
  <2>2. \A g \in Generations : Holds(q, g) => g = q.key
    BY DEF Holds
  <2>3. CASE ~Lands(q)
    <3>1. UNCHANGED drafts
      BY <1>1, <1>11, <2>3 DEF WriteRow
    <3>2. n.at = "check" /\ n.device = d /\ n.key = q.key /\ n.op = "save"
      BY <1>2, <2>1, <2>3 DEF AfterWrite, Release
    <3>3. Holds(n, q.key)
      BY <3>2 DEF Holds
    <3> QED BY <1>6, <1>7, <2>1, <2>2, <3>1, <3>2, <3>3 DEF MovesBytes, Names
  <2>4. CASE Lands(q) /\ Creates(q)
    <3>1. /\ drafts[d] = NoDraft /\ drafts' = [drafts EXCEPT ![d] = Created(q)]
          /\ Created(q).generation = 1 /\ Created(q) \in DraftRow /\ q.key = 1
      <4>1. WritesRow(q)
        BY <1>1, <1>11, <2>4 DEF WriteRow
      <4> QED BY <1>1, <1>2, <2>1, <2>4, <4>1, CreatedRow
    <3>2. Names(d, q.key)'
      BY <1>4, <3>1, AutosaveAssumption DEF Names
    <3>3. n = Resting \/ (n.at = "mark" /\ n.device = d /\ n.op = "save")
      BY <1>2, <2>1, <2>4 DEF AfterWrite, Working
    <3>4. \A g \in Generations : ~Names(d, g)
      BY <3>1 DEF Names
    <3>5. /\ n.at # "idle" => n.device = d /\ MovesBytes(n.op)
          /\ n.at # "deleteRow"
      BY <3>3 DEF Resting, MovesBytes
    <3> QED BY <1>6, <1>7, <2>1, <2>2, <3>2, <3>4, <3>5
  <2>5. CASE Lands(q) /\ ~Creates(q)
    <3>1. WritesRow(q)
      BY <1>1, <1>11, <2>5 DEF WriteRow
    <3>2. PICK row : row = drafts[d]
      OBVIOUS
    <3>3. PICK new : new = Updated(q, row)
      OBVIOUS
    <3>4. /\ row # NoDraft /\ q.seen.generation = row.generation
          /\ drafts' = [drafts EXCEPT ![d] = new] /\ new.generation = q.key /\ new # NoDraft
      BY <1>1, <1>2, <2>1, <2>5, <3>1, <3>2, <3>3, UpdatedRow, AutosaveAssumption
    <3>5. Names(d, q.key)'
      BY <1>2, <1>4, <2>1, <3>4 DEF Names, Working
    <3>6. n.at = "check" /\ n.device = d /\ n.key = row.generation /\ n.op = "save"
      BY <1>2, <2>1, <2>5, <3>4 DEF AfterWrite, Superseded, Release
    <3>7. \A g \in Generations : Names(d, g) => Holds(n, g)
      BY <3>2, <3>6 DEF Names, Holds
    <3> QED BY <1>6, <1>7, <2>1, <2>2, <3>5, <3>6, <3>7 DEF MovesBytes
  <2> QED BY <2>3, <2>4, <2>5
<1>12. CASE MarkConflict(r)
  <2>1. q.at = "mark" /\ UNCHANGED objects /\ n = Resting
    BY <1>1, <1>3, <1>4, <1>12 DEF MarkConflict
  <2>2. \A g \in Generations : ~Holds(q, g)
    BY <2>1 DEF Holds
  <2>3. Renamed(r, d)
    BY StepRenames
  <2>4. \A g \in Generations : Names(d, g) => Names(d, g)'
    BY <1>1, <2>1, <2>3 DEF Renamed, Names
  <2> QED BY <1>6, <1>7, <2>1, <2>2, <2>4 DEF Resting
<1>13. CASE DeleteRow(r)
  <2>1. q \in Working /\ q.at = "deleteRow" /\ q.op = "discard" /\ UNCHANGED objects
    BY <1>1, <1>2, <1>13, AtStep DEF DeleteRow, Prepared
  <2>2. \A g \in Generations : ~Holds(q, g)
    BY <2>1 DEF Holds
  <2>3. CASE ~SameRow(q)
    <3>1. n = Resting /\ UNCHANGED drafts
      BY <1>1, <1>3, <1>4, <1>13, <2>3 DEF DeleteRow
    <3> QED BY <1>6, <1>7, <2>1, <2>2, <3>1 DEF Resting, Names
  <2>4. CASE SameRow(q)
    <3>1. /\ drafts' = [drafts EXCEPT ![d] = NoDraft]
          /\ n.at = "check" /\ n.device = d /\ n.op = "discard" /\ n.key = q.seen.generation
      BY <1>1, <1>2, <1>3, <1>4, <1>13, <2>1, <2>4 DEF DeleteRow, Release
    <3>2. Names(d, q.seen.generation)
      BY <1>1, <1>2, <2>1, <2>4 DEF Tidy, Doomed, SameRow
    <3>3. \A g \in Generations : Names(d, g) => Holds(n, g)
      BY <3>1, <3>2 DEF Names, Holds
    <3> QED BY <1>6, <1>7, <2>1, <2>2, <3>1, <3>3 DEF MovesBytes
  <2> QED BY <2>3, <2>4
<1>14. CASE IsSnapshotReferenced(r)
  <2>1. q \in Releasing /\ q.at = "check" /\ UNCHANGED <<drafts, objects>>
    BY <1>1, <1>14, AtStep DEF IsSnapshotReferenced
  <2>2. \/ n = Resting /\ Names(d, q.key)
        \/ n.at = "deleteObject" /\ n.device = d /\ n.key = q.key /\ n.op = q.op
    BY <1>1, <1>2, <1>3, <1>4, <1>14, <2>1 DEF IsSnapshotReferenced, Releasing, Names
  <2>3. \A g \in Generations : Holds(q, g) => Names(d, g) \/ Holds(n, g)
    BY <2>2 DEF Holds
  <2>4. /\ n.at # "idle" => n.device = d /\ MovesBytes(n.op)
        /\ n.at # "deleteRow"
    BY <1>2, <2>2 DEF Resting, MovesBytes
  <2> QED BY <1>6, <1>7, <2>1, <2>3, <2>4 DEF Names
<1>15. CASE DeleteObject(r)
  <2>1. q \in Releasing /\ q.at = "deleteObject" /\ n = Resting /\ UNCHANGED drafts
    BY <1>1, <1>3, <1>4, <1>15, AtStep DEF DeleteObject
  <2>2. objects' = [objects EXCEPT ![d][q.key] = Nothing]
    BY <1>1, <1>2, <1>15 DEF DeleteObject
  <2>3. ASSUME NEW g \in Generations, objects'[d][g] # Nothing
        PROVE  g # q.key /\ objects[d][g] # Nothing
    BY <1>2, <1>4, <2>2, <2>3
  <2>4. \A g \in Generations : Holds(q, g) => g = q.key
    BY DEF Holds
  <2>5. ASSUME NEW g \in Generations, objects'[d][g] # Nothing
        PROVE  Names(d, g)'
    BY <1>6, <2>1, <2>3, <2>4, <2>5 DEF Names
  <2> QED BY <1>7, <2>1, <2>5 DEF Resting
<1>16. ~LoadSnapshot(r) /\ ~\E op \in Operations, e \in Devices : Begin(r, op, e)
  BY <1>1, <1>2 DEF LoadSnapshot, Begin, Prepared
<1> QED BY <1>8, <1>9, <1>10, <1>11, <1>12, <1>13, <1>14, <1>15, <1>16 DEF RequestStep

LEMMA TidyStep ==
    ASSUME ReadInv, BytesInv, TidyInv, [Next]_vars
    PROVE  TidyInv'
<1>1. faults' \in {faults, faults + 1}
  <2>1. ASSUME NEW r \in Requests, RequestStep(r)
        PROVE  faults' \in {faults, faults + 1}
    BY <2>1 DEF RequestStep, Begin, LiveLeaseHolder, FindByDevice, PutSnapshot, LoadSnapshot, WriteRow,
                MarkConflict, DeleteRow, IsSnapshotReferenced, DeleteObject, CallFails, Fault
  <2> QED BY <2>1, StepKinds DEF Crash, Fault, vars
<1>2. faults' \in Nat /\ (faults' = 0 => faults = 0)
  BY <1>1 DEF TidyInv
<1> SUFFICES ASSUME faults = 0, faults' = 0, NEW d \in Devices, d \notin overlapped'
             PROVE  Tidy(d)'
  BY <1>2 DEF TidyInv
<1>3. d \notin overlapped
  <2>1. ASSUME NEW r \in Requests, RequestStep(r)
        PROVE  overlapped \subseteq overlapped'
    BY <2>1 DEF RequestStep, Begin, LiveLeaseHolder, FindByDevice, PutSnapshot, LoadSnapshot,
                WriteRow, MarkConflict, DeleteRow, IsSnapshotReferenced, DeleteObject, CallFails
  <2> QED BY <2>1, StepKinds DEF Crash, vars
<1>4. Safe(d) /\ Tidy(d)
  BY <1>3 DEF BytesInv, TidyInv
<1>5. ASSUME NEW r \in Requests, RequestStep(r)
      PROVE  Tidy(d)'
  <2>1. ~CallFails(r)
    BY DEF CallFails, Fault
  <2> QED BY <1>4, <1>5, <2>1, OthersTidy, MoverTidy
<1>6. ~Crash
  BY DEF Crash, Fault
<1>7. CASE UNCHANGED vars
  BY <1>4, <1>7 DEF vars, Tidy, Doomed, Accounted, Carries, Names, Mover, Running
<1> QED BY <1>5, <1>6, <1>7, StepKinds

\* While no call fails and nothing restarts, a device whose requests are done keeps only the
\* object its row names: what a save supersedes, a lost save staged and a discard leaves behind
\* are released (releaseSnapshot), unless two requests moved the device's bytes at a time.
THEOREM NothingIsLeft == Spec => []NothingOrphaned
<1>1. Init => ReadInv /\ BytesInv /\ TidyInv
  <2>1. Init => BytesInv
    BY DEF Init, BytesInv, Safe, OneMover, Mover, Running, Intact, Resting
  <2>2. Init => TidyInv
    BY DEF Init, TidyInv, Tidy, Doomed, Accounted, Mover, Running, Resting
  <2> QED BY <2>1, <2>2, ReadInit
<1>2. ReadInv /\ BytesInv /\ TidyInv /\ [Next]_vars => ReadInv' /\ BytesInv' /\ TidyInv'
  BY ReadStep, BytesStep, TidyStep
<1>3. TidyInv => NothingOrphaned
  BY DEF TidyInv, Tidy, Accounted, Carries, Mover, Names, NothingOrphaned
<1> QED BY <1>1, <1>2, <1>3, PTL DEF Spec

================================================================================
