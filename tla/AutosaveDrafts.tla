---------------------------- MODULE AutosaveDrafts ----------------------------
(***************************************************************************)
(* The server's half of autosave: AutosaveService over its draft rows and  *)
(* the object store, for one author and one document.  Each device has at  *)
(* most one draft.  A request is a sequence of awaited calls, one action   *)
(* each, and requests interleave: a client that timed out sends again      *)
(* while the server still runs its first request, and the tabs of one      *)
(* browser share a device id.                                              *)
(*                                                                         *)
(* A payload is the number of the request that brought it, and its checksum   *)
(* is the same number.  Definitions named x_y are x with a plausible bug y.*)
(***************************************************************************)
EXTENDS Integers, FiniteSets

CONSTANTS
    Devices, Requests,   \* device ids; requests the server can run at a time
    NoDraft,             \* no row for the device
    Torn,                \* an object whose put was interrupted
    MaxReceived, MaxFaults  \* bounds: requests received, failed calls and crashes


VARIABLES
    drafts,      \* the row of each device
    objects,     \* the object store: bytes under each device and generation
    requests,    \* what each request does and has read
    made, received, faults  \* rows created, requests received, faults so far

\* What the properties remember.
VARIABLE
    overlapped   \* devices that had two requests which move bytes at a time

vars == <<drafts, objects, requests, made, received, faults, overlapped>>

Generations == 1..MaxReceived   \* bound: no more than the saves received

DraftRow ==
    [id: Nat, version: Nat, generation: Generations, checksum: Nat,
     status: {"dirty", "conflict", "saved"}, lease: BOOLEAN]

ASSUME AutosaveAssumption ==
    /\ MaxReceived \in Nat /\ MaxFaults \in Nat
    /\ NoDraft \notin DraftRow

Nothing == 0
Resting == [op |-> "none", at |-> "idle"]

--------------------------------------------------------------------------------
Init ==
    /\ drafts = [d \in Devices |-> NoDraft]
    /\ objects = [d \in Devices |-> [g \in Generations |-> Nothing]]
    /\ requests = [r \in Requests |-> Resting]
    /\ made = 0 /\ received = 0 /\ faults = 0 /\ overlapped = {}

Running(d) == {r \in Requests : requests[r].at # "idle" /\ requests[r].device = d}
MovesBytes(op) == op \in {"save", "discard"}

\* A request is authorised, and a save compares the document's revision with the expected one.
Begin(r, op, d) ==
    /\ requests[r].at = "idle"
    /\ \E behind \in BOOLEAN :
        /\ behind => op = "save"
        /\ requests' = [requests EXCEPT ![r] =
              [op |-> op, device |-> d, at |-> IF op = "save" THEN "lease" ELSE "find",
               payload |-> IF op = "save" THEN received + 1 ELSE Nothing,
               behind |-> behind, held |-> FALSE, seen |-> NoDraft, key |-> 1]]
    /\ received < MaxReceived /\ received' = received + 1
    /\ overlapped' = IF MovesBytes(op) /\ \E q \in Running(d) : MovesBytes(requests[q].op)
                     THEN overlapped \cup {d} ELSE overlapped
    /\ UNCHANGED <<drafts, objects, made, faults>>

\* liveLeaseHolder: another device of the author holds a lease, which may have expired by now.
LiveLeaseHolder(r) ==
    /\ requests[r].at = "lease"
    /\ \E held \in BOOLEAN :
         /\ held => \E d \in Devices \ {requests[r].device} : drafts[d] # NoDraft /\ drafts[d].lease
         /\ requests' = [requests EXCEPT ![r].at = "find", ![r].held = held]
    /\ UNCHANGED <<drafts, objects, made, received, faults, overlapped>>

\* Each save's bytes get a key nothing points at.
FreshGeneration_inPlace(row) == IF row = NoDraft THEN 1 ELSE row.generation
FreshGeneration(row) == IF row = NoDraft THEN 1 ELSE row.generation + 1

\* findByDevice; a save will stage its bytes under a fresh generation.
FindByDevice(r) ==
    LET q == requests[r]
        row == drafts[q.device]
        next == [save |-> "put", recover |-> "load", markSaved |-> "write", discard |-> "deleteRow"]
    IN  /\ q.at = "find"
        /\ q.op = "save" => FreshGeneration(row) \in Generations
        /\ requests' = IF q.op # "save" /\ row = NoDraft THEN [requests EXCEPT ![r] = Resting]
                       ELSE [requests EXCEPT ![r].at = next[q.op], ![r].seen = row,
                               ![r].key = FreshGeneration(row)]
        /\ UNCHANGED <<drafts, objects, made, received, faults, overlapped>>

\* putSnapshot: whatever the key held is overwritten.
PutSnapshot(r) ==
    /\ requests[r].at = "put"
    /\ objects' = [objects EXCEPT ![requests[r].device][requests[r].key] = requests[r].payload]
    /\ requests' = [requests EXCEPT ![r].at = "write"]
    /\ UNCHANGED <<drafts, made, received, faults, overlapped>>

\* loadSnapshot, for a recovery: bytes that fail the row's checksum are not handed back.
Verified_present(row, bytes) == bytes \notin {Nothing, Torn}
Verified(row, bytes) == bytes = row.checksum

LoadSnapshot(r) ==
    LET q == requests[r]
    IN  /\ q.at = "load"
        /\ requests' = IF Verified(q.seen, objects[q.device][q.seen.generation])
                       THEN [requests EXCEPT ![r].at = "write",
                               ![r].payload = objects[q.device][q.seen.generation]]
                       ELSE [requests EXCEPT ![r] = Resting]
        /\ UNCHANGED <<drafts, objects, made, received, faults, overlapped>>

--------------------------------------------------------------------------------
(* The row, and what is released after it.                                    *)

SameRow(q) == drafts[q.device] # NoDraft /\ drafts[q.device].id = q.seen.id

\* The row written is the one read, unchanged since.
Matches_anyVersion(q) == SameRow(q)
Matches(q) == SameRow(q) /\ drafts[q.device].version = q.seen.version

Creates(q) == q.op = "save" /\ q.seen = NoDraft
Lands(q) == IF Creates(q) THEN drafts[q.device] = NoDraft ELSE Matches(q)

\* markSaved's row: committed, and the lease given up.
Committed(row) == [row EXCEPT !.version = @ + 1, !.status = "saved", !.lease = FALSE]

\* The row a request writes. A save that found another device's lease leaves leases alone.
Created(q) ==
    [id |-> made + 1, version |-> 1, generation |-> 1, checksum |-> q.payload,
     status |-> IF q.behind \/ q.held THEN "conflict" ELSE "dirty",
     lease |-> ~q.held]
Updated(q, row) ==
    CASE q.op = "save" ->
           [row EXCEPT !.version = @ + 1, !.generation = q.key, !.checksum = q.payload,
                       !.status = IF q.behind \/ q.held THEN "conflict" ELSE "dirty",
                       !.lease = @ \/ ~q.held]
      [] q.op = "recover" -> [row EXCEPT !.version = @ + 1, !.status = "dirty", !.lease = TRUE]
      [] q.op = "markSaved" -> Committed(row)

Row(q) == IF Creates(q) THEN Created(q) ELSE Updated(q, drafts[q.device])

WritesRow(q) ==
    /\ drafts' = [drafts EXCEPT ![q.device] = Row(q)]
    /\ made' = IF Creates(q) THEN made + 1 ELSE made

Release(q, generation) == [op |-> q.op, device |-> q.device, at |-> "check", key |-> generation]
Superseded_kept(q) == Resting
Superseded(q) == Release(q, q.seen.generation)

\* A save that landed releases what it superseded, one that lost what it staged; a first save that
\* conflicts is marked so by a second write.
AfterWrite(q) ==
    IF q.op # "save" THEN Resting
    ELSE IF ~Lands(q) THEN Release(q, q.key)
    ELSE IF ~Creates(q) THEN Superseded(q)
    ELSE IF q.behind \/ q.held THEN [q EXCEPT !.at = "mark"] ELSE Resting

WriteRow(r) ==
    LET q == requests[r]
    IN  /\ q.at = "write"
        /\ IF Lands(q) THEN WritesRow(q) ELSE UNCHANGED <<drafts, made>>
        /\ requests' = [requests EXCEPT ![r] = AfterWrite(q)]
        /\ UNCHANGED <<objects, received, faults, overlapped>>

\* The conflict's reason, written over the row as it was created.
MarkConflict(r) ==
    LET q == requests[r]
        row == drafts[q.device]
    IN  /\ q.at = "mark"
        /\ drafts' = IF row # NoDraft /\ row.version = 1 /\ row.checksum = q.payload
                     THEN [drafts EXCEPT ![q.device].version = 2, ![q.device].status = "conflict"] ELSE drafts
        /\ requests' = [requests EXCEPT ![r] = Resting]
        /\ UNCHANGED <<objects, made, received, faults, overlapped>>

\* discardDraft deletes the row by its id, whatever its version.
DeleteRow(r) ==
    LET q == requests[r]
        there == SameRow(q)
    IN  /\ q.at = "deleteRow"
        /\ drafts' = IF there THEN [drafts EXCEPT ![q.device] = NoDraft] ELSE drafts
        /\ requests' = [requests EXCEPT ![r] = IF there THEN Release(q, q.seen.generation) ELSE Resting]
        /\ UNCHANGED <<objects, made, received, faults, overlapped>>

\* releaseSnapshot: asks whether a row references the object, and then deletes it.
IsSnapshotReferenced(r) ==
    LET q == requests[r]
        row == drafts[q.device]
    IN  /\ q.at = "check"
        /\ requests' = [requests EXCEPT ![r] =
              IF row # NoDraft /\ row.generation = q.key THEN Resting ELSE [q EXCEPT !.at = "deleteObject"]]
        /\ UNCHANGED <<drafts, objects, made, received, faults, overlapped>>

DeleteObject(r) ==
    /\ requests[r].at = "deleteObject"
    /\ objects' = [objects EXCEPT ![requests[r].device][requests[r].key] = Nothing]
    /\ requests' = [requests EXCEPT ![r] = Resting]
    /\ UNCHANGED <<drafts, made, received, faults, overlapped>>

--------------------------------------------------------------------------------
(* Faults.                                                                    *)

Fault == faults < MaxFaults /\ faults' = faults + 1

\* The call a request awaits throws, with or without its effect; a failed create releases its bytes.
CallFails(r) ==
    LET q == requests[r]
    IN  /\ q.at # "idle" /\ Fault
        /\ requests' = [requests EXCEPT ![r] =
              IF q.at = "write" /\ Creates(q) THEN Release(q, q.key) ELSE Resting]
        /\ IF q.at = "put"
             THEN \E left \in {objects[q.device][q.key], Torn, q.payload} :
                    objects' = [objects EXCEPT ![q.device][q.key] = left]
             ELSE UNCHANGED objects
        /\ \/ q.at = "write" /\ Lands(q) /\ WritesRow(q)
           \/ q.at = "deleteRow" /\ SameRow(q) /\ drafts' = [drafts EXCEPT ![q.device] = NoDraft] /\ UNCHANGED made
           \/ UNCHANGED <<drafts, made>>
        /\ UNCHANGED <<received, overlapped>>

\* The server restarts: no request goes on, and a put may be left half done.
Crash ==
    /\ \E r \in Requests : requests[r].at # "idle"
    /\ Fault
    /\ requests' = [r \in Requests |-> Resting]
    /\ \E torn \in SUBSET {r \in Requests : requests[r].at = "put"} :
         objects' = [d \in Devices |-> [g \in Generations |->
            IF \E r \in torn : requests[r].device = d /\ requests[r].key = g
            THEN Torn ELSE objects[d][g]]]
    /\ UNCHANGED <<drafts, made, received, overlapped>>

--------------------------------------------------------------------------------
Operations == {"save", "recover", "markSaved", "discard"}

Next ==
    \/ \E r \in Requests :
        \/ \E op \in Operations, d \in Devices : Begin(r, op, d)
        \/ LiveLeaseHolder(r) \/ FindByDevice(r) \/ PutSnapshot(r) \/ LoadSnapshot(r)
        \/ WriteRow(r) \/ MarkConflict(r) \/ DeleteRow(r) \/ IsSnapshotReferenced(r) \/ DeleteObject(r)
        \/ CallFails(r)
    \/ Crash

Spec == Init /\ [][Next]_vars

--------------------------------------------------------------------------------
\* Every variable keeps its type, and a draft marked saved holds no lease.
TypeOK ==
    /\ \A d \in Devices : drafts[d] # NoDraft =>
         /\ drafts[d] \in DraftRow /\ drafts[d].id \in 1..made /\ drafts[d].checksum \in 1..received
         /\ drafts[d].status = "saved" => ~drafts[d].lease
    /\ \A d \in Devices, g \in Generations : objects[d][g] \in 0..received \cup {Torn}
    /\ \A r \in Requests : requests[r].at # "idle" => requests[r].device \in Devices
    /\ faults \in 0..MaxFaults /\ overlapped \subseteq Devices

\* What a draft's row points at is there and matches its checksum, whatever call failed and wherever
\* the server stopped: unless two requests of the device moved bytes at a time.
SnapshotIntact ==
    \A d \in Devices \ overlapped :
        drafts[d] # NoDraft => objects[d][drafts[d].generation] = drafts[d].checksum

\* The same of every device, as the service's comment promises it.
SnapshotAlwaysIntact ==
    \A d \in Devices :
        drafts[d] # NoDraft => objects[d][drafts[d].generation] = drafts[d].checksum

\* Nothing is left in the object store but what a row references, once a device's requests are
\* done and none failed.
NothingOrphaned ==
    \A d \in Devices \ overlapped : faults = 0 /\ Running(d) = {} =>
        \A g \in Generations : objects[d][g] # Nothing =>
            drafts[d] # NoDraft /\ drafts[d].generation = g

\* A save never replaces a draft that it did not read: the payload of a row changes one generation
\* at a time, however many requests staged bytes for it.
SavesAreChained ==
    [][\A d \in Devices : drafts[d] # NoDraft /\ drafts'[d] # NoDraft /\ drafts'[d].id = drafts[d].id =>
         \/ drafts'[d].checksum = drafts[d].checksum /\ drafts'[d].generation = drafts[d].generation
         \/ drafts'[d].generation = drafts[d].generation + 1]_vars

\* A recovery that succeeds hands back the work the draft names at that moment: not what another
\* request replaced meanwhile, nor bytes that are not the draft's.
RecoveredIsCurrent ==
    [][\A r \in Requests :
         LET q == requests[r]
         IN  q.op = "recover" /\ q.at = "write" /\ drafts' # drafts /\ requests'[r] # q =>
               q.payload = drafts'[q.device].checksum]_vars
================================================================================
