------------------------------- MODULE Ingest --------------------------------
(***************************************************************************)
(* POST /webhooks (ingest/ingest.go), from the read of the body to the     *)
(* reply.  A request is one HTTP request; a vendor that resends a payload  *)
(* makes another request with the same body.  The handler interleaves with *)
(* everything else between any two of its database statements.             *)
(***************************************************************************)
EXTENDS Queue

CONSTANTS Requests,     \* the HTTP requests of a behaviour
          server,       \* [Requests -> the process that serves it]
          body,         \* [Requests -> the hash of its body, or one of the bodies below]
          Oversized,    \* a body over maxBodyBytes, or one that cannot be read
          NotJSON,      \* a body that json.Valid refuses
          NotJSONB      \* a body that json.Valid accepts and the column refuses (an escaped NUL)

ASSUME RequestsAssumption ==
  /\ server \in [Requests -> Processes]
  /\ body \in [Requests -> Hashes \cup {Oversized, NotJSON, NotJSONB}]
  /\ Oversized \notin Hashes
  /\ NotJSON \notin Hashes \cup {Oversized}
  /\ NotJSONB \notin Hashes \cup {Oversized, NotJSON}

VARIABLE req            \* [Requests -> where the request is, or its reply]

\* The replies: 202 with "duplicate": false or true, the refusals, 500, and no
\* reply at all when the process dies first.
Replies  == {"202 new", "202 duplicate", "400", "413", "500", "lost"}
InFlight == {"insert", "lookup", "notify"}

IngestTypeOK == req \in [Requests -> {"unsent"} \cup InFlight \cup Replies]

IngestInit == req = [r \in Requests |-> "unsent"]

GoTo(r, place) == req' = [req EXCEPT ![r] = place]

-----------------------------------------------------------------------------
\* The body is read and checked; a bad one is refused with no effect.
Receive(r) ==
  /\ req[r] = "unsent"
  /\ proc[server[r]] = "up"
  /\ GoTo(r, CASE body[r] = Oversized -> "413"
               [] body[r] = NotJSON   -> "400"
               [] OTHER               -> "insert")
  /\ UNCHANGED <<raw_events, notify, proc, faults>>

\* Mutant: the reply does not wait for the row.
InsertNewUnlogged(r) ==
  /\ req[r] = "insert"
  /\ body[r] \in Hashes /\ status[body[r]] = Absent
  /\ GoTo(r, "notify")
  /\ UNCHANGED <<raw_events, notify, proc, faults>>

\* Store.InsertRaw, first statement.  Without a RETURNING row it is a duplicate.
InsertNew(r) ==
  /\ req[r] = "insert"
  /\ InsertRaw(body[r])
  /\ GoTo(r, "notify")
  /\ UNCHANGED <<notify, proc, faults>>

\* Store.InsertRaw on a payload that is no JSONB: the first statement is an error,
\* every time, and the caller gets its 500.
InsertRefused(r) ==
  /\ req[r] = "insert"
  /\ body[r] = NotJSONB
  /\ GoTo(r, "500")
  /\ UNCHANGED <<raw_events, notify, proc, faults>>

\* Mutant: a conflict passes for an insert.
InsertConflictAsNew(r) ==
  /\ req[r] = "insert"
  /\ body[r] \in Hashes /\ status[body[r]] # Absent
  /\ GoTo(r, "notify")
  /\ UNCHANGED <<raw_events, notify, proc, faults>>

InsertConflict(r) ==
  /\ req[r] = "insert"
  /\ body[r] \in Hashes /\ status[body[r]] # Absent
  /\ GoTo(r, "lookup")
  /\ UNCHANGED <<raw_events, notify, proc, faults>>

\* The statement returns an error, whether or not the row was committed.
InsertError(r) ==
  /\ req[r] = "insert"
  /\ InsertRaw(body[r]) \/ UNCHANGED raw_events
  /\ GoTo(r, "500")
  /\ Fault
  /\ UNCHANGED <<notify, proc>>

\* Store.InsertRaw, second statement: the id of the row that is already there.
\* No row would be an error to the caller.
Lookup(r) ==
  /\ req[r] = "lookup"
  /\ GoTo(r, IF status[body[r]] = Absent THEN "500" ELSE "202 duplicate")
  /\ UNCHANGED <<raw_events, notify, proc, faults>>

LookupError(r) ==
  /\ req[r] = "lookup"
  /\ GoTo(r, "500")
  /\ Fault
  /\ UNCHANGED <<raw_events, notify, proc>>

\* The row is new: signal the queue of this process and acknowledge.
NotifyAndAck(r) ==
  /\ req[r] = "notify"
  /\ Notify(server[r])
  /\ GoTo(r, "202 new")
  /\ UNCHANGED <<raw_events, proc, faults>>

\* Requests still in flight when process p goes down get no reply.
DropRequests(p) ==
  req' = [r \in Requests |-> IF server[r] = p /\ req[r] \in InFlight
                               THEN "lost" ELSE req[r]]

RequestStep(r) ==
  \/ Receive(r)
  \/ InsertNew(r)
  \/ InsertRefused(r)
  \/ InsertConflict(r)
  \/ Lookup(r)
  \/ NotifyAndAck(r)

RequestFault(r) == InsertError(r) \/ LookupError(r)
=============================================================================
