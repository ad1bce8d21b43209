------------------------------ MODULE DataRoute ------------------------------
(***************************************************************************)
(* A request through the data routes of the Worker                          *)
(* (public-web/worker/data-api.js): /v1/catalog and /v1/query on behalf of  *)
(* the key the client sends. The body of a query is read piece by piece,    *)
(* under one timer for the whole request and the client's own abort, and    *)
(* forwarded as fixed bytes.                                                *)
(***************************************************************************)
EXTENDS Naturals

CONSTANTS
    MaxBody,     \* bytes the route admits
    MaxSent      \* bound: bytes a client sends

RouteAssumption == MaxBody \in Nat /\ MaxSent \in Nat /\ MaxBody < MaxSent

VARIABLES
    ask,         \* what the client sends
    size,        \* bytes read
    ended,       \* the reader has no more to give
    aborted,     \* signal.aborted
    stage,       \* of handleDataApi
    forwarded,   \* the body the data API was sent, if it was
    status       \* of the answer

vars == <<ask, size, ended, aborted, stage, forwarded, status>>

Absent == MaxSent + 1      \* no Content-Length; nothing forwarded

(* path, method: of the route or not; headers: their form and types; length *)
(* announces the body, whose client may announce another; body is what the  *)
(* client is going to send.                                                 *)
Init ==
    /\ ask \in [route : {"catalog", "query", "other"}, options : BOOLEAN, method : BOOLEAN,
                bearer : BOOLEAN, typed : BOOLEAN, length : 0..Absent, body : 0..MaxSent]
    /\ size = 0 /\ ended = FALSE /\ aborted = FALSE
    /\ stage = "checks" /\ forwarded = Absent /\ status = 0

Fails(code) ==
    /\ stage' = "done" /\ status' = code
    /\ UNCHANGED <<ask, size, ended, aborted, forwarded>>

(* The checks before anything is read, in their order. typed stands for the *)
(* form and type of the body; a catalogue is asked for without a body. At   *)
(* the end the Worker may find itself wrongly configured.                   *)
Check ==
    /\ stage = "checks"
    /\ CASE ask.route = "other" -> Fails(404)
         [] ask.route # "other" /\ ask.options -> Fails(204)
         [] ask.route # "other" /\ ~ask.options /\ ~ask.method -> Fails(405)
         [] ask.route # "other" /\ ~ask.options /\ ask.method /\ ~ask.bearer -> Fails(401)
         [] OTHER ->
              IF ask.route = "catalog" /\ (ask.length \notin {0, Absent} \/ ~ask.typed)
              THEN Fails(400)
              ELSE IF ask.route = "query" /\ ~ask.typed THEN Fails(415)
              ELSE IF ask.route = "query" /\ ask.length \in MaxBody + 1..MaxSent
              THEN Fails(413)
              ELSE \/ Fails(503)
                   \/ /\ stage' = IF ask.route = "query" THEN "reading" ELSE "sending"
                      /\ UNCHANGED <<ask, size, ended, aborted, forwarded, status>>

(* reader.read gives a piece, or the end. A cancelled reader ends as well.  *)
Read ==
    /\ stage = "reading" /\ ~ended
    /\ IF size < ask.body
       THEN /\ size' \in size + 1..ask.body
            /\ ended' \in (IF aborted THEN {TRUE} ELSE {FALSE})
       ELSE UNCHANGED size /\ ended' = TRUE
    /\ UNCHANGED <<ask, aborted, stage, forwarded, status>>

(* The timer, or the client: the reader is cancelled, and ends without the  *)
(* rest.                                                                    *)
Abort ==
    /\ stage \in {"reading", "sending"} /\ ~aborted
    /\ aborted' = TRUE
    /\ ended' = (ended \/ stage = "reading")
    /\ UNCHANGED <<ask, size, stage, forwarded, status>>

(* Fault: what is too large is cut.                                         *)
BodyReadFault ==
    /\ stage = "reading"
    /\ \/ aborted /\ Fails(504)
       \/ /\ ~aborted /\ (ended \/ size > MaxBody)
          /\ stage' = "sending" /\ size' = IF size > MaxBody THEN MaxBody ELSE size
          /\ UNCHANGED <<ask, ended, aborted, forwarded, status>>

(* readBody returns: after every piece the signal is looked at first.       *)
BodyRead ==
    /\ stage = "reading"
    /\ \/ aborted /\ Fails(504)
       \/ ~aborted /\ size > MaxBody /\ Fails(413)
       \/ /\ ~aborted /\ ended /\ size <= MaxBody
          /\ IF ask.length # Absent /\ ask.length # size THEN Fails(400)
             ELSE stage' = "sending" /\ UNCHANGED <<ask, size, ended, aborted, forwarded, status>>

(* The data API is asked, unless the request was given up; it may fail,     *)
(* redirect or answer in another form. An answer that has begun is passed   *)
(* on as it is.                                                             *)
Forward ==
    /\ stage = "sending"
    /\ \/ aborted /\ Fails(504)
       \/ /\ ~aborted
          /\ forwarded' = size /\ stage' = "asked"
          /\ UNCHANGED <<ask, size, ended, aborted, status>>

Answered ==
    /\ stage = "asked"
    /\ stage' = "done" /\ status' \in {200, 502, 504}
    /\ UNCHANGED <<ask, size, ended, aborted, forwarded>>

(* The answer is over. *)
Rest == stage = "done" /\ UNCHANGED vars

Next == Check \/ Read \/ Abort \/ BodyRead \/ Forward \/ Answered \/ Rest

Spec == Init /\ [][Next]_vars

-----------------------------------------------------------------------------
(* Properties *)

(* What the data API is sent is what the client sent: a body the timer or   *)
(* the client cut off is not forwarded as a whole one, also when its length *)
(* was not announced; one that was announced otherwise, or is too large,    *)
(* not at all; and nobody is asked anything without the client's own key    *)
(* (data-api.js:31, 50, 67).                                                *)
WholeBodiesOnly ==
    forwarded # Absent =>
        /\ ask.bearer /\ ask.method /\ ask.route # "other"
        /\ ask.route = "query" =>
              /\ forwarded = ask.body /\ forwarded <= MaxBody
              /\ ask.length \in {Absent, forwarded}
=============================================================================
