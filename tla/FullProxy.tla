------------------------------ MODULE FullProxy ------------------------------
(***************************************************************************)
(* The full mode of the collector (internal/fullproxy): TLS ends here, the *)
(* fingerprint is taken from a copy of the raw bytes, and each request of  *)
(* a connection is checked, admitted and recorded on its own.  Callers of  *)
(* Admission are the requests.                                             *)
(***************************************************************************)
EXTENDS Admission

CONSTANTS
  Conns,       \* connections; request <<c, i>> is made on c
  Addresses,   \* client addresses
  Hellos       \* what a client may greet with: readable, or "huge", "garbled"

Unreadable == {"huge", "garbled"}
Of(q) == q[1]

\* A request is made on a connection; no greeting is empty.
ASSUME FullAssumption == (\A q \in Callers : Of(q) \in Conns) /\ "" \notin Hellos

VARIABLES
  conn,     \* each connection: where it is, its bytes, its address, what it speaks
  request,  \* each request: where its handler is
  blocked,  \* the addresses the live blocklist refuses
  records,  \* what RateStore was given: request, address, fingerprint
  serving,  \* Serve: "on", "draining", "returned", "failed"
  \* History, for the properties.
  given,    \* requests whose client did not wait for the answer
  barred    \* requests whose address has been blocked ever since they were made

fullVars == <<gateVars, conn, request, blocked, records, serving, given, barred>>

Unaccepted ==
  [at |-> "none", hello |-> "", capturing |-> FALSE, fp |-> "", ip |-> "", h2 |-> FALSE]

FullInit ==
  /\ GateInit
  /\ conn = [c \in Conns |-> Unaccepted]
  /\ request = [q \in Callers |-> "none"]
  /\ blocked = {} /\ records = {} /\ serving = "on"
  /\ given = {} /\ barred = {}

\* The requests of c that are in a handler.
Running(c) == {q \in Callers : Of(q) = c /\ request[q] \notin {"none", "answered"}}

\* The requests the connection itself knows of: over HTTP/2 a stream ends
\* with the client's RST_STREAM, and its handler is left to find out.
Streams(c) == IF conn[c].h2 THEN Running(c) \ given ELSE Running(c)

-----------------------------------------------------------------------------
(* A connection.                                                           *)

\* snoopListener.Accept.
SnoopAccept(c, ip) ==
  /\ serving = "on" /\ conn[c].at = "none"
  /\ conn' = [conn EXCEPT ![c] = [Unaccepted EXCEPT !.at = "greeting", !.capturing = TRUE, !.ip = ip]]
  /\ UNCHANGED <<gateVars, request, blocked, records, serving, given, barred>>

\* snoopConn.Read: a greeting past maxSnoopBytes ends the capture.
Greet(c, hello) ==
  /\ conn[c].at = "greeting" /\ conn[c].hello = ""
  /\ conn' = [conn EXCEPT ![c].hello = hello, ![c].capturing = hello # "huge"]
  /\ UNCHANGED <<gateVars, request, blocked, records, serving, given, barred>>

Fingerprint(c) ==
  IF conn[c].hello \in Unreadable THEN "" ELSE conn[c].hello

\* GetConfigForClient, inside the handshake: no request is read before it.
\* The client chooses one of the two protocols offered.
CaptureFingerprint(c) ==
  /\ conn[c].at = "greeting" /\ conn[c].hello # ""
  /\ \E h2 \in BOOLEAN :
       conn' = [conn EXCEPT ![c].at = "open", ![c].capturing = FALSE,
                            ![c].fp = Fingerprint(c), ![c].h2 = h2]
  /\ UNCHANGED <<gateVars, request, blocked, records, serving, given, barred>>

\* The client leaves, the handshake or the idle timeout ends it.  net/http
\* gives up an HTTP/1.1 connection when its handler returns, an HTTP/2 one at
\* once, whatever handlers still run for it.
Leave(c) ==
  /\ conn[c].at \in {"greeting", "open"} /\ (conn[c].h2 \/ Running(c) = {})
  /\ conn' = [conn EXCEPT ![c].at = "gone", ![c].hello = "", ![c].capturing = FALSE]
  /\ given' = given \cup Running(c)
  /\ UNCHANGED <<gateVars, request, blocked, records, serving, barred>>

-----------------------------------------------------------------------------
(* A request: recordingHandler.                                            *)

\* HTTP/1.1 serves one request of a connection after another.
AskRequest(q) ==
  /\ request[q] = "none" /\ conn[Of(q)].at = "open"
  /\ conn[Of(q)].h2 \/ Running(Of(q)) = {}
  /\ request' = [request EXCEPT ![q] = "geo"]
  /\ barred' = IF conn[Of(q)].ip \in blocked THEN barred \cup {q} ELSE barred
  /\ UNCHANGED <<gateVars, conn, blocked, records, serving, given>>

\* The client resets the stream, or hangs up on an HTTP/1.1 handler.
GiveUp(q) ==
  /\ q \in Running(Of(q)) \ given
  /\ given' = given \cup {q}
  /\ UNCHANGED <<gateVars, conn, request, blocked, records, serving, barred>>

\* Mutant of GeoCheck: asked at the first request of a connection only.
GeoCheckOnce(q) ==
  /\ request[q] = "geo"
  /\ request' = [request EXCEPT ![q] =
                   IF /\ conn[Of(q)].ip \in blocked
                      /\ \A p \in Callers \ {q} : Of(p) = Of(q) => request[p] \in {"none", "geo"}
                   THEN "answered" ELSE "admit"]
  /\ UNCHANGED <<gateVars, conn, blocked, records, serving, given, barred>>

\* geoBlocked, before the limiter and outside it.
GeoCheck(q) ==
  /\ request[q] = "geo"
  /\ request' = [request EXCEPT ![q] =
                   IF conn[Of(q)].ip \in blocked THEN "answered" ELSE "admit"]
  /\ UNCHANGED <<gateVars, conn, blocked, records, serving, given, barred>>

Admit(q) ==
  /\ request[q] = "admit"
  /\ \/ \E m \in Caps : Proceed(q, m) /\ request' = [request EXCEPT ![q] = "record"]
     \/ Degrade(q) /\ request' = [request EXCEPT ![q] = "serve"]
     \/ Refuse(q) /\ request' = [request EXCEPT ![q] = "answered"]
  /\ UNCHANGED <<conn, blocked, records, serving, given, barred>>

\* The client may have gone: the handler runs on, and finds out on writing.
Record(q) ==
  /\ request[q] = "record"
  /\ records' = records \cup {[request |-> q, ip |-> conn[Of(q)].ip, fp |-> conn[Of(q)].fp]}
  /\ request' = [request EXCEPT ![q] = "serve"]
  /\ UNCHANGED <<gateVars, conn, blocked, serving, given, barred>>

\* The reverse proxy has answered, with the backend's answer or a 502, or has
\* panicked because the client is gone; the deferred release runs.
AnswerRequest(q) ==
  /\ request[q] = "serve"
  /\ GiveBack(q)
  /\ request' = [request EXCEPT ![q] = "answered"]
  /\ UNCHANGED <<conn, blocked, records, serving, given, barred>>

-----------------------------------------------------------------------------
(* Serve.                                                                  *)

\* The live settings replace the blocklist.
SetBlocklist ==
  /\ \E s \in SUBSET Addresses : blocked # s /\ blocked' = s
  /\ barred' = {q \in barred : conn[Of(q)].ip \in blocked'}
  /\ UNCHANGED <<gateVars, conn, request, records, serving, given>>

CancelFull ==
  /\ serving = "on" /\ serving' = "draining"
  /\ UNCHANGED <<gateVars, conn, request, blocked, records, given, barred>>

\* What Shutdown closes: a connection on which nothing is going on.
CloseIdle(c) == conn[c].at \in {"greeting", "open"} /\ Streams(c) = {}

Shutdown(c) ==
  /\ serving = "draining" /\ CloseIdle(c)
  /\ conn' = [conn EXCEPT ![c].at = "gone", ![c].hello = "", ![c].capturing = FALSE]
  /\ UNCHANGED <<gateVars, request, blocked, records, serving, given, barred>>

\* Every connection closed, or the grace over: then Serve returns an error
\* and leaves what runs running.
Return ==
  /\ serving = "draining"
  /\ serving' = IF \A c \in Conns : conn[c].at \in {"none", "gone"} THEN "returned" ELSE "failed"
  /\ UNCHANGED <<gateVars, conn, request, blocked, records, given, barred>>

FullNext ==
  \/ \E c \in Conns :
       \/ \E ip \in Addresses : SnoopAccept(c, ip)
       \/ \E h \in Hellos : Greet(c, h)
       \/ CaptureFingerprint(c) \/ Leave(c) \/ Shutdown(c)
  \/ \E q \in Callers : AskRequest(q) \/ GiveUp(q) \/ GeoCheck(q) \/ Admit(q) \/ Record(q) \/ AnswerRequest(q)
  \/ SetBlocklist \/ CancelFull \/ Return

FullSpec == FullInit /\ [][FullNext]_fullVars

-----------------------------------------------------------------------------
(* Properties.                                                             *)

\* geoBlocked: a match "is rejected with 403 before ever consuming a Limiter
\* concurrency slot", and "is anything blocked" is a question of each request,
\* the lists being replaced while connections stay open (server.go:280-291,
\* 340-350): a request made under a block that has held since goes nowhere.
BlockedAreRefused ==
  \A q \in barred : request[q] \in {"geo", "answered"} /\ q \notin Holders

\* A Shutdown that returns nil cut off nobody who was waiting: what is still in
\* a handler, or still holds a slot of the limiter, is an HTTP/2 request its
\* own client had given up (server.go:124-128, 229-239).
CleanReturn ==
  serving = "returned" =>
    \A q \in Holders \cup UNION {Running(c) : c \in Conns} : conn[Of(q)].h2 /\ q \in given

\* A request is refused, served and let go by itself, not by its connection.
RequestsAreFollowed == BlockedAreRefused /\ CleanReturn
=============================================================================
