------------------------------ MODULE ColdPath ------------------------------
(***************************************************************************)
(* The shared ClickHouse client of the API: class ColdPath of              *)
(* src/pipeline/analytics.py and its callers in src/pipeline/api/server.py.*)
(* Requests run concurrently and suspend at every await; what is between   *)
(* two awaits is one step.                                                 *)
(*                                                                         *)
(* A client is told apart by its identity only.  A query on a client that  *)
(* has been closed, or while ClickHouse is down, fails; the exception is   *)
(* seen some time later (CLICKHOUSE_QUERY_TIMEOUT).                        *)
(***************************************************************************)
EXTENDS Integers, FiniteSets

CONSTANTS
    Requests,    \* the requests in flight: each is served over and over
    Checks,      \* those of them that /healthz makes, with its own timeout
    Clients,     \* the clients that may be referred to at a time
    MaxOutages,  \* bound: how often ClickHouse goes down
    None         \* no client

ASSUME ChecksAssumption == Checks \subseteq Requests
ASSUME MaxOutagesAssumption == MaxOutages \in Nat
ASSUME ClientsAssumption ==
    IsFiniteSet(Clients) /\ Cardinality(Clients) > Cardinality(Requests)
ASSUME NoneAssumption == None \notin Clients

VARIABLES
    up,       \* whether ClickHouse answers
    outages,  \* how often it has gone down
    open,     \* the clients that have not been closed
    broken,   \* those of them whose connection an outage has broken
    client,   \* self._client
    at,       \* where each request is
    using,    \* the client each request queries, or closes
    sawDown,  \* history: whether an outage bears on the request
    refused   \* history: whether its answer was 503

coldVars == <<up, outages, open, broken, client, at, using, sawDown, refused>>

Places == {"idle", "connecting", "querying", "raised", "closing"}

ColdInit ==
    /\ up = TRUE
    /\ outages = 0
    /\ open = {}
    /\ broken = {}
    /\ client = None
    /\ at = [r \in Requests |-> "idle"]
    /\ using = [r \in Requests |-> None]
    /\ sawDown = [r \in Requests |-> FALSE]
    /\ refused = [r \in Requests |-> FALSE]

Go(r, place, c) ==
    /\ at' = [at EXCEPT ![r] = place]
    /\ using' = [using EXCEPT ![r] = c]

Finish(r, is503) ==
    /\ Go(r, "idle", None)
    /\ refused' = [refused EXCEPT ![r] = is503]

-----------------------------------------------------------------------------
(* ClickHouse *)

GoesDown ==
    /\ up
    /\ outages < MaxOutages
    /\ outages' = outages + 1
    /\ up' = FALSE
    /\ sawDown' = [r \in Requests |-> sawDown[r] \/ at[r] # "idle"]
    /\ \E lost \in SUBSET open : broken' = broken \cup lost
    /\ UNCHANGED <<open, client, at, using, refused>>

ComesBack ==
    /\ ~up
    /\ up' = TRUE
    /\ UNCHANGED <<outages, open, broken, client, at, using, sawDown, refused>>

-----------------------------------------------------------------------------
(* rows() and _connect(): with a client installed the query goes out at    *)
(* once.                                                                   *)
Request(r) ==
    /\ at[r] = "idle"
    /\ sawDown' = [sawDown EXCEPT ![r] = ~up \/ client \in broken]
    /\ refused' = [refused EXCEPT ![r] = FALSE]
    /\ IF client = None THEN Go(r, "connecting", None) ELSE Go(r, "querying", client)
    /\ UNCHANGED <<up, outages, open, broken, client>>

InUse == {client} \cup {using[r] : r \in Requests}

(* Mutation of Connected: the client it replaces is closed.                *)
ConnectedClosesOther(r) ==
    /\ at[r] = "connecting"
    /\ up
    /\ \E c \in Clients \ InUse :
         /\ open' = ((open \cap InUse) \ {client}) \cup {c}
         /\ client' = c
         /\ broken' = broken \ {c}
         /\ Go(r, "querying", c)
    /\ UNCHANGED <<up, outages, sawDown, refused>>

(* get_async_client() returns: what it returns is installed, whatever      *)
(* another request has installed meanwhile.  A client nobody refers to any *)
(* longer is garbage, and its name is free.                                *)
Connected(r) ==
    /\ at[r] = "connecting"
    /\ up
    /\ \E c \in Clients \ InUse :
         /\ open' = (open \cap InUse) \cup {c}
         /\ client' = c
         /\ broken' = broken \ {c}
         /\ Go(r, "querying", c)
    /\ UNCHANGED <<up, outages, sawDown, refused>>

ConnectFails(r) ==
    /\ at[r] = "connecting"
    /\ sawDown[r]
    /\ Finish(r, TRUE)
    /\ UNCHANGED <<up, outages, open, broken, client, sawDown>>

Answered(r) ==
    /\ at[r] = "querying"
    /\ up
    /\ using[r] \in open \ broken
    /\ Finish(r, FALSE)
    /\ UNCHANGED <<up, outages, open, broken, client, sawDown>>

QueryLost(r) ==
    /\ at[r] = "querying"
    /\ ~up \/ using[r] \notin open \ broken
    /\ Go(r, "raised", None)
    /\ UNCHANGED <<up, outages, open, broken, client, sawDown, refused>>

(* Mutation of Reset: the client is closed and not forgotten.              *)
ResetKeepsClient(r) ==
    /\ at[r] = "raised"
    /\ IF client = None
       THEN Finish(r, TRUE)
       ELSE Go(r, "closing", client) /\ UNCHANGED refused
    /\ UNCHANGED <<up, outages, open, broken, client, sawDown>>

(* The except clauses and _reset(): the client that is installed by now,   *)
(* not the one that failed, is taken out and then closed.                  *)
Reset(r) ==
    /\ at[r] = "raised"
    /\ client' = None
    /\ IF client = None
       THEN Finish(r, TRUE)
       ELSE Go(r, "closing", client) /\ UNCHANGED refused
    /\ UNCHANGED <<up, outages, open, broken, sawDown>>

Closed(r) ==
    /\ at[r] = "closing"
    /\ open' = open \ {using[r]}
    /\ Finish(r, TRUE)
    /\ UNCHANGED <<up, outages, broken, client, sawDown>>

(* cold_path_state() gives up after two seconds, at whichever await.       *)
GivesUp(r) ==
    /\ r \in Checks
    /\ at[r] # "idle"
    /\ sawDown[r]
    /\ Finish(r, TRUE)
    /\ UNCHANGED <<up, outages, open, broken, client, sawDown>>

-----------------------------------------------------------------------------
Proceed(r) ==
    Connected(r) \/ ConnectFails(r) \/ Answered(r) \/ QueryLost(r) \/ Reset(r) \/ Closed(r)

ColdNext ==
    \/ GoesDown
    \/ ComesBack
    \/ \E r \in Requests :
          \/ Request(r)
          \/ Connected(r)
          \/ ConnectFails(r)
          \/ Answered(r)
          \/ QueryLost(r)
          \/ Reset(r)
          \/ Closed(r)
          \/ GivesUp(r)

ColdSpec == ColdInit /\ [][ColdNext]_coldVars

(* Callers keep asking, ClickHouse comes back, and every await ends.       *)
FairColdSpec ==
    /\ ColdSpec
    /\ WF_coldVars(ComesBack)
    /\ \A r \in Requests : WF_coldVars(Request(r)) /\ WF_coldVars(Proceed(r))
-----------------------------------------------------------------------------
(* Properties *)

(* In particular, the installed client is never one that a request is      *)
(* closing: nobody starts a query on a client that another has condemned,  *)
(* although closing takes an await.                                        *)
ColdTypeOK ==
    /\ up \in BOOLEAN
    /\ outages \in 0 .. MaxOutages
    /\ open \subseteq Clients /\ broken \subseteq Clients
    /\ client \in Clients \cup {None}
    /\ at \in [Requests -> Places]
    /\ using \in [Requests -> Clients \cup {None}]
    /\ \A r \in Requests : using[r] # None <=> at[r] \in {"querying", "closing"}
    /\ \A r \in Requests : at[r] = "closing" => using[r] # client
    /\ sawDown \in [Requests -> BOOLEAN]
    /\ refused \in [Requests -> BOOLEAN]

(* Without an outage no request is refused, even when several connect at   *)
(* the same time and replace each other's client.                          *)
NoOutageNoRefusal == outages = 0 => \A r \in Requests : ~refused[r]

(* "ClickHouse could not be reached or did not answer in time"             *)
(* (ColdPathUnavailable): a 503 means that ClickHouse was down during the  *)
(* request, or that its outage had broken the connection in use.           *)
RefusedOnlyWhenDown == \A r \in Requests : refused[r] => sawDown[r]

(* "self-healing access to ClickHouse": once ClickHouse stays up, requests *)
(* are answered again.                                                     *)
SelfHealing == \A r \in Requests : <>[](at[r] = "idle" => ~refused[r])
=============================================================================
