--------------------------------- MODULE Mail ---------------------------------
(***************************************************************************)
(* Outgoing mail: the account in panel_smtp (panel/mailaccount.go), the    *)
(* conversation with its server (internal/mail), and the panel that saves, *)
(* verifies and deletes the account and mails links through it             *)
(* (web/mail.go, web/maildelivery.go).                                     *)
(*                                                                         *)
(* A job is one request that talks to a server: a verification, a test     *)
(* message or the delivery of a link.  A server may answer any command     *)
(* with a refusal, or not at all.                                          *)
(***************************************************************************)
EXTENDS Naturals, FiniteSets

CONSTANTS
  Jobs,       \* requests that talk to the server
  Kinds,      \* "probe" (no message), "message", "link"
  MaxSaves    \* bound on the saves of the account

VARIABLES
  account,    \* panel_smtp: which account, how it speaks, what it holds
  verified,   \* its verification columns, and the account they speak of
  keySet,     \* the panel has its secret key
  job,        \* each request: its copy of the account and its probe
  heard,      \* what each job's server received and accepted
  saves

mailVars == <<account, verified, keySet, job, heard, saves>>

NoAccount == [id |-> 0, tls |-> "", secret |-> "none", on |-> FALSE]
NotVerified == [of |-> 0, ok |-> FALSE, diagnosis |-> ""]
NoJob == [at |-> "none", kind |-> "", id |-> 0, mode |-> "", credentials |-> FALSE,
          stage |-> "connect", tls |-> "", reached |-> FALSE, oauth |-> FALSE,
          authenticated |-> FALSE, anonymous |-> FALSE, sent |-> FALSE, err |-> ""]
Silence == [password |-> FALSE, encrypted |-> FALSE, accepted |-> FALSE]

MailInit ==
  /\ account = NoAccount /\ verified = NotVerified /\ keySet \in BOOLEAN
  /\ job = [j \in Jobs |-> NoJob] /\ heard = [j \in Jobs |-> Silence]
  /\ saves = 0

-----------------------------------------------------------------------------
(* The account.                                                            *)

\* SaveMailAccount: a password that was not typed is kept, one that was
\* needs the key; whatever was verified is forgotten.
Save(typed, clear, tls, on) ==
  /\ saves < MaxSaves /\ (typed => keySet)
  /\ saves' = saves + 1
  /\ account' = [id |-> saves + 1, tls |-> tls, on |-> on,
                 secret |-> IF clear THEN "none" ELSE IF typed THEN "sealed" ELSE account.secret]
  /\ verified' = NotVerified
  /\ UNCHANGED <<keySet, job, heard>>

DeleteAccount ==
  /\ account.id # 0
  /\ account' = NoAccount /\ verified' = NotVerified
  /\ UNCHANGED <<keySet, job, heard, saves>>

\* MailConfig: no row, or sending turned off, or a password the key does not
\* open.
MailConfigured == account.id # 0 /\ account.on /\ (account.secret = "sealed" => keySet)

\* verifyMail and deliverLink begin with a copy of the account.
Start(j, kind) ==
  /\ job[j].at = "none" /\ MailConfigured
  /\ job' = [job EXCEPT ![j] = [NoJob EXCEPT !.at = "talking", !.kind = kind, !.id = account.id,
               !.mode = account.tls, !.credentials = account.secret = "sealed"]]
  /\ UNCHANGED <<account, verified, keySet, heard, saves>>

\* The panel comes back with another key file, or with none.
NewKey ==
  /\ \A j \in Jobs : job[j].at # "talking"
  /\ keySet' = ~keySet
  /\ UNCHANGED <<account, verified, job, heard, saves>>

-----------------------------------------------------------------------------
(* The conversation, a stage at a time.                                    *)

Talking(j, stage) == job[j].at = "talking" /\ job[j].stage = stage

MailStop(j, err) == [job[j] EXCEPT !.at = "over", !.err = err]
MailGo(j, stage) == [job[j] EXCEPT !.stage = stage]
MailFault == {"timeout", "dropped"}

\* dial: TCP, then TLS at once or the greeting first.
Connect(j) ==
  /\ Talking(j, "connect")
  /\ \/ job' = [job EXCEPT ![j] = [MailGo(j, IF job[j].mode = "implicit" THEN "tls" ELSE "greeting")
                                     EXCEPT !.reached = TRUE]]
     \/ \E e \in MailFault : job' = [job EXCEPT ![j] = MailStop(j, e)]
  /\ UNCHANGED <<account, verified, keySet, heard, saves>>

\* The address does not parse: nothing is attempted.
BadAddress(j) ==
  /\ Talking(j, "connect") /\ job[j].kind # "probe"
  /\ job' = [job EXCEPT ![j] = [MailStop(j, "address") EXCEPT !.stage = "recipient"]]
  /\ UNCHANGED <<account, verified, keySet, heard, saves>>

Greeting(j) ==
  /\ Talking(j, "greeting")
  /\ \/ job' = [job EXCEPT ![j] = MailGo(j, IF job[j].tls = "implicit" THEN "auth" ELSE "tls")]
     \/ \E e \in MailFault : job' = [job EXCEPT ![j] = MailStop(j, e)]
  /\ UNCHANGED <<account, verified, keySet, heard, saves>>

\* A handshake, when the server offers one: its certificate is always
\* checked.  A server that offers none is spoken to in the clear.
Handshake(j) ==
  /\ Talking(j, "tls")
  /\ \/ job' = [job EXCEPT ![j] = [MailGo(j, IF job[j].mode = "implicit" THEN "greeting" ELSE "auth")
                                     EXCEPT !.tls = job[j].mode]]
     \/ job[j].mode = "starttls" /\ job' = [job EXCEPT ![j] = MailGo(j, "auth")]
     \/ \E e \in MailFault \cup {"plain banner", "certificate"} : job' = [job EXCEPT ![j] = MailStop(j, e)]
  /\ UNCHANGED <<account, verified, keySet, heard, saves>>

\* Mutant of MaySend: the mode that was asked for, not the one that came
\* about.
MaySendByMode(j) == job[j].mode # ""

MaySend(j) == job[j].tls # ""

\* authenticate, then the end of a probe or the first command of a message.
Authenticate(j) ==
  /\ Talking(j, "auth")
  /\ \E oauth \in BOOLEAN :
       LET next == IF job[j].kind = "probe" THEN [job[j] EXCEPT !.at = "over", !.stage = "done"]
                   ELSE MailGo(j, "sender")
       IN  \/ /\ ~job[j].credentials
              /\ job' = [job EXCEPT ![j] = [next EXCEPT !.anonymous = TRUE]]
              /\ UNCHANGED heard
           \/ /\ job[j].credentials /\ ~MaySend(j)
              /\ job' = [job EXCEPT ![j] = [MailStop(j, "clear") EXCEPT !.oauth = oauth]]
              /\ UNCHANGED heard
           \/ /\ job[j].credentials /\ MaySend(j)
              /\ heard' = [heard EXCEPT ![j].password = TRUE, ![j].encrypted = job[j].tls # ""]
              /\ \/ job' = [job EXCEPT ![j] = [next EXCEPT !.authenticated = TRUE]]
                 \/ \E e \in MailFault \cup {"refused"} :
                      job' = [job EXCEPT ![j] = [MailStop(j, e) EXCEPT !.oauth = oauth]]
  /\ UNCHANGED <<account, verified, keySet, saves>>

\* MAIL, RCPT and the body.
Command(j, stage, after) ==
  /\ Talking(j, stage)
  /\ \/ job' = [job EXCEPT ![j] = MailGo(j, after)]
     \/ \E e \in MailFault \cup {"refused"} : job' = [job EXCEPT ![j] = MailStop(j, e)]
  /\ UNCHANGED <<account, verified, keySet, heard, saves>>

\* The end of the body: a message may be accepted and the answer lost.
Deliver(j) ==
  /\ Talking(j, "data")
  /\ \/ /\ heard' = [heard EXCEPT ![j].accepted = TRUE]
        /\ \/ job' = [job EXCEPT ![j] = [MailGo(j, "done") EXCEPT !.at = "over", !.sent = TRUE]]
           \/ \E e \in MailFault : job' = [job EXCEPT ![j] = MailStop(j, e)]
     \/ /\ \E e \in MailFault \cup {"refused"} : job' = [job EXCEPT ![j] = MailStop(j, e)]
        /\ UNCHANGED heard
  /\ UNCHANGED <<account, verified, keySet, saves>>

-----------------------------------------------------------------------------
(* What is said of it (diagnose.go).                                       *)

OK(p) == p.err = "" /\ (p.authenticated \/ p.anonymous \/ p.sent)

AtTLS(p) ==
  CASE p.err = "plain banner" -> "wrong port"
    [] p.err = "timeout" -> "timeout"
    [] OTHER -> "tls failed"

AtAuth(p) ==
  CASE p.oauth -> "needs oauth"
    [] p.err = "clear" -> "no tls"
    [] p.err = "timeout" -> "timeout"
    [] OTHER -> "bad credentials"

Diagnose(p) ==
  CASE OK(p) -> "ok"
    [] p.err = "address" -> "invalid address"
    [] ~p.reached -> IF p.err = "timeout" THEN "timeout" ELSE "unreachable"
    [] p.stage = "tls" -> AtTLS(p)
    [] p.stage = "greeting" -> "wrong port"
    [] p.stage = "auth" -> AtAuth(p)
    [] p.stage = "sender" -> "sender refused"
    [] p.stage = "recipient" -> "recipient refused"
    [] OTHER -> "message rejected"

\* RecordMailVerification: into the one row, whichever account it is now.
RecordVerification(j) ==
  /\ job[j].at = "over"
  /\ verified' = IF account.id = 0 THEN verified
                 ELSE [of |-> job[j].id, ok |-> OK(job[j]), diagnosis |-> Diagnose(job[j])]
  /\ job' = [job EXCEPT ![j] = [NoJob EXCEPT !.at = "told"]]
  /\ UNCHANGED <<account, keySet, heard, saves>>

-----------------------------------------------------------------------------

MailNext ==
  \/ \E typed, clear, on \in BOOLEAN, tls \in {"starttls", "implicit"} : Save(typed, clear, tls, on)
  \/ DeleteAccount \/ NewKey
  \/ \E j \in Jobs :
       \/ \E kind \in Kinds : Start(j, kind)
       \/ Connect(j) \/ BadAddress(j) \/ Greeting(j) \/ Handshake(j) \/ Authenticate(j)
       \/ Command(j, "sender", "recipient") \/ Command(j, "recipient", "data")
       \/ Deliver(j) \/ RecordVerification(j)

MailSpec == MailInit /\ [][MailNext]_mailVars

-----------------------------------------------------------------------------
(* Properties.                                                             *)

\* authenticate: a password is handed over only where the connection came to
\* be encrypted, whatever the server left out of its offer; and a job that
\* says it sent a message was told so by the server.
MailIsGuarded ==
  \A j \in Jobs :
    /\ heard[j].password => heard[j].encrypted
    /\ job[j].sent => heard[j].accepted
=============================================================================
