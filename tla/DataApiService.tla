--------------------------- MODULE DataApiService ---------------------------
(***************************************************************************)
(* The data-api server as the data-api component sees it: a gRPC service   *)
(* that executes one request at a time and answers it, or fails to.  The   *)
(* server is not part of the repository; it is modelled from the requests  *)
(* that components/utilities/data-api sends and from the answers that its  *)
(* inner_request and request_reserved_ids accept.                          *)
(***************************************************************************)
EXTENDS Integers, Sequences

CONSTANTS
    Models,         \* names of the models (tables) of the application
    Existing,       \* records 1..Existing are in the database from the start
    ReserveFaults,  \* what may go wrong with a reserveRecords request
    MutationFaults  \* what may go wrong with a request that has mutations

(***************************************************************************)
(*  "refuse"    an error is answered and the request was not executed      *)
(*  "lost"      the request was executed but the caller gets an error      *)
(*  "miscount"  reserveRecords answers with too few or too many ids        *)
(*  "status"    the answer has a status the component takes for impossible *)
(***************************************************************************)
FaultKinds == {"refuse", "lost", "miscount", "status"}

ASSUME ServiceAssumption ==
    /\ Existing \in Nat
    /\ ReserveFaults \subseteq FaultKinds
    /\ MutationFaults \subseteq FaultKinds \ {"miscount"}

VARIABLES
    granted,    \* granted[i] is the model for which id Existing + i was reserved
    wire        \* the mutation requests the service executed, in order

serviceVars == <<granted, wire>>

ServiceInit ==
    /\ granted = <<>>
    /\ wire = <<>>

\* The ids the next reservation of n records answers with: never used before.
FreshIds(n) == [i \in 1..n |-> Existing + Len(granted) + i]

\* The ids that have been reserved for model m.
ReservedFor(m) == {Existing + i : i \in {j \in 1..Len(granted) : granted[j] = m}}

\* reserveRecords(model: m, amount: n) is executed.
Reserve(m, n) ==
    /\ granted' = granted \o [i \in 1..n |-> m]
    /\ UNCHANGED wire

\* A mutation request is executed.
Execute(request) ==
    /\ wire' = Append(wire, request)
    /\ UNCHANGED granted
=============================================================================
