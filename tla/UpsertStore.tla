----------------------------- MODULE UpsertStore -----------------------------
(***************************************************************************)
(* What the memory server promises of one memory: its table has no key,    *)
(* but as long as one operation is under way at a time it is a register    *)
(* with upsert and soft delete.  A write replaces what is there, deleted   *)
(* or not; a soft delete keeps the record, once, "so recovery is possible" *)
(* (mcp_server.py); and the record is lost only with an operation that is  *)
(* cut short.  When operations overlap the promise is off, until one runs  *)
(* alone again.                                                            *)
(***************************************************************************)
CONSTANTS
  Records,   \* with a field deleted
  None

VARIABLES
  record,    \* the record of the memory, or None
  serial,    \* is the promise on?
  lost       \* an operation was cut short, nothing was stored since

storeVars == <<record, serial, lost>>

StoreInit == record = None /\ serial = TRUE /\ lost = FALSE

Stored == record' \in Records /\ serial' = TRUE /\ lost' = FALSE

Write == Stored /\ ~record'.deleted

SoftDelete ==
  /\ Stored /\ record'.deleted
  /\ serial => /\ record # None /\ ~record.deleted
               /\ record' = [record EXCEPT !.deleted = TRUE]

CutShort == /\ serial /\ record' = None /\ lost' = TRUE
            /\ UNCHANGED serial

OperationsOverlap == record' = None /\ serial' = FALSE /\ lost' = FALSE

StoreNext == Write \/ SoftDelete \/ CutShort \/ OperationsOverlap

StoreSpec == StoreInit /\ [][StoreNext]_storeVars
=============================================================================
