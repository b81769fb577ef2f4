-------------------------------- MODULE Login --------------------------------
(***************************************************************************)
(* Signing in to the panel: the budget of failures (panel/attempts.go),    *)
(* the second factor (totp.go), recovery codes (recovery.go,               *)
(* recoveryissue.go) and the pages that use them (web/auth.go,             *)
(* web/recovery.go, web/account.go, web/members.go).                       *)
(*                                                                         *)
(* One account, and the browsers that knock.  A request is a goroutine:    *)
(* it asks the throttle, reads the account, compares (which takes a while  *)
(* for a password) and writes, each a statement of its own, so any number  *)
(* of others can come between.  Time is relative: a failure has the ticks  *)
(* left in which it counts, and a code is known by its distance from the   *)
(* oldest step that would still be accepted.  The budget of an address is  *)
(* left out: it can only refuse what this one lets through.                *)
(***************************************************************************)
EXTENDS Naturals, Sequences, FiniteSets

CONSTANTS
  Browsers,
  Attempts,    \* the requests there can be at once
  Window,      \* LoginThrottleWindow, in ticks
  MaxFailures, \* maxFailuresPerEmail
  Secrets,     \* the secrets an authenticator is given, 1..n
  Codes,       \* the recovery codes that are ever drawn
  CodeCount,   \* RecoveryCodeCount
  MaxPassword, \* how often the password is changed
  MaxLost      \* how often the record of a failure is not written

ASSUME LoginAssumption ==
  /\ Window \in Nat \ {0} /\ MaxFailures \in Nat \ {0} /\ MaxPassword \in Nat /\ MaxLost \in Nat /\ CodeCount \in Nat
  /\ Secrets \subseteq Nat \ {0} /\ IsFiniteSet(Attempts) /\ IsFiniteSet(Codes)

Offsets == 1..3 \* the step before this one, this one, and the next

VARIABLES
  password, \* password_hash, as the number of the password
  weakHash, \* it was hashed with parameters that are behind
  secret,   \* totp_secret, 0 when there is none
  lastStep, \* totp_last_step, as the offset it has by now (0: none of them)
  codes,    \* recovery codes not used yet
  fails,    \* panel_login_attempts that failed: the ticks each still counts
  lifted,   \* ticks for which the lock has been lifted already
  sess,     \* what each browser's session says
  enrol,    \* the secret each session is being given (keyPendingTOTP)
  attempt,
  guesses,  \* history: wrong guesses compared since the last sign-in, as fails
  lost,     \* history: those of them whose failure was not written
  spent,    \* history: codes that were accepted, by secret and offset
  drawn     \* history: recovery codes drawn so far

account == <<password, weakHash, secret, lastStep, codes>>
budget == <<fails, lifted, guesses, lost>>
loginVars == <<account, budget, sess, enrol, attempt, spent, drawn>>

NoAttempt == [op |-> "none", at |-> "idle", by |-> "none", seen |-> 0, rehash |-> 0]

LoginInit ==
  /\ password = 1 /\ weakHash = TRUE /\ secret \in Secrets \union {0} /\ lastStep = 0
  /\ codes = {} /\ drawn = {}
  /\ fails = <<>> /\ guesses = <<>> /\ lost = 0 /\ lifted = 0
  /\ sess = [b \in Browsers |-> "anonymous"] /\ enrol = [b \in Browsers |-> 0]
  /\ attempt = [r \in Attempts |-> NoAttempt] /\ spent = {}

-----------------------------------------------------------------------------
(* The budget.                                                             *)

accountFailures == Len(fails)

accountLock == accountFailures >= MaxFailures

AttemptDone(r) == attempt' = [attempt EXCEPT ![r] = NoAttempt]

\* A locked account is refused, and the refusal is not an attempt.
CheckLoginThrottle(r) ==
  /\ attempt[r].at = "asked"
  /\ \/ ~accountLock /\ attempt' = [attempt EXCEPT ![r].at = "verify"]
     \/ accountLock /\ AttemptDone(r)
  /\ UNCHANGED <<account, budget, sess, enrol, spent, drawn>>

\* RecordLoginAttempt, for one that failed.  Where it cannot be written there
\* is a warning in the log, and the form is answered all the same.
recordFailedLogin(r) ==
  /\ attempt[r].at = "failed"
  /\ \/ fails' = Append(fails, Window) /\ UNCHANGED lost
     \/ lost < MaxLost /\ lost' = lost + 1 /\ UNCHANGED fails
  /\ AttemptDone(r)
  /\ UNCHANGED <<account, lifted, guesses, sess, enrol, spent, drawn>>

\* What completeLogin does to the budget; a failure of it is a warning too.
ClearLoginFailures == fails' = <<>> \/ UNCHANGED fails

\* Once in a window.  The lock on the account's row makes one step of it.
UnlockLogin ==
  /\ accountLock /\ lifted = 0
  /\ fails' = <<>> /\ lifted' = Window
  /\ UNCHANGED <<account, guesses, lost, sess, enrol, attempt, spent, drawn>>

\* The form of the members page, for another owner of the site.
liftLoginLock == UnlockLogin

\* A wrong guess has been compared, and is still to be recorded.
Failed(r) ==
  /\ attempt' = [attempt EXCEPT ![r] = [NoAttempt EXCEPT !.at = "failed"]]
  /\ guesses' = Append(guesses, Window)

-----------------------------------------------------------------------------
(* Sessions, as the sign-in pages use them.                                *)

AwaitSecondFactor(b) == sess' = [sess EXCEPT ![b] = "pending"]
LogIn(b) == sess' = [sess EXCEPT ![b] = "user"]
LogOut(b) == sess' = [sess EXCEPT ![b] = "anonymous"] /\ enrol' = [enrol EXCEPT ![b] = 0]

\* completeLogin: the session, and only now the budget.  It is the session that
\* ends the count of guesses.
completeLogin(r) ==
  /\ LogIn(attempt[r].by) /\ ClearLoginFailures /\ AttemptDone(r)
  /\ guesses' = <<>> /\ lost' = 0
  /\ UNCHANGED <<account, lifted, enrol, spent, drawn>>

logoutHandler(b) ==
  /\ sess[b] # "anonymous" /\ LogOut(b)
  /\ UNCHANGED <<account, budget, attempt, spent, drawn>>

\* What the form holds matters only once it is compared, and is chosen there.
Ask(r, b, op, at, s) ==
  /\ attempt[r].at = "idle"
  /\ attempt' = [attempt EXCEPT ![r] = [op |-> op, at |-> at, by |-> b, seen |-> s, rehash |-> 0]]

\* What was typed is right; s is the factor that is still owed.
Pass(r, s, rehash) ==
  attempt' = [attempt EXCEPT ![r] = [op |-> "none", at |-> "passed", by |-> attempt[r].by, seen |-> s,
                                     rehash |-> rehash]]

-----------------------------------------------------------------------------
(* The password.                                                           *)

submitLogin(r, b) ==
  /\ sess[b] # "user" /\ Ask(r, b, "login", "asked", 0)
  /\ UNCHANGED <<account, budget, sess, enrol, spent, drawn>>

\* (mutant) A right password starts the budget again, with the factor still owed.
VerifyClears(r) ==
  /\ attempt[r].at = "verify" /\ attempt[r].op = "login"
  /\ \/ Pass(r, secret, IF weakHash THEN password ELSE 0) /\ ClearLoginFailures /\ UNCHANGED guesses
     \/ Failed(r) /\ UNCHANGED fails
  /\ UNCHANGED <<account, lifted, lost, sess, enrol, spent, drawn>>

\* The account is read once: its password, its secret, and whether its hash
\* is behind.
VerifyPassword(r) ==
  /\ attempt[r].at = "verify" /\ attempt[r].op = "login"
  /\ \/ Pass(r, secret, IF weakHash THEN password ELSE 0) /\ UNCHANGED guesses
     \/ Failed(r)
  /\ UNCHANGED <<account, fails, lifted, lost, sess, enrol, spent, drawn>>

\* The one moment the plain password is there: it is hashed again and
\* written, whatever the account holds by now.
Rehash(r) ==
  /\ attempt[r].at = "passed" /\ attempt[r].rehash # 0
  /\ password' = attempt[r].rehash /\ weakHash' = FALSE
  /\ attempt' = [attempt EXCEPT ![r].rehash = 0]
  /\ UNCHANGED <<secret, lastStep, codes, budget, sess, enrol, spent, drawn>>

\* The end of submitLogin and of submitRecovery.
Passed(r) ==
  /\ attempt[r].at = "passed" /\ attempt[r].rehash = 0
  /\ \/ /\ attempt[r].seen # 0 /\ AwaitSecondFactor(attempt[r].by) /\ AttemptDone(r)
        /\ UNCHANGED <<account, budget, enrol, spent, drawn>>
     \/ attempt[r].seen = 0 /\ completeLogin(r)

-----------------------------------------------------------------------------
(* The second factor.                                                      *)

\* A pending session whose account has no factor any more starts again.
secondFactorHandler(r, b) ==
  /\ sess[b] = "pending"
  /\ \/ secret # 0 /\ Ask(r, b, "code", "asked", secret) /\ UNCHANGED <<sess, enrol>>
     \/ secret = 0 /\ LogOut(b) /\ UNCHANGED attempt
  /\ UNCHANGED <<account, budget, spent, drawn>>

\* (mutant) A code is good for as long as its step is.
StepIsFreshOrSame(o) == o >= lastStep

\* totp_last_step < step, in the statement that sets it.
StepIsFresh(o) == o > lastStep

\* VerifyTOTP, with the secret that was read before.
VerifyTOTP(s, o) == StepIsFresh(o) /\ lastStep' = o /\ spent' = spent \union {<<s, o>>}

submitSecondFactor(r) ==
  /\ attempt[r].at = "verify" /\ attempt[r].op = "code"
  /\ \/ \E o \in Offsets : VerifyTOTP(attempt[r].seen, o) /\ Pass(r, 0, 0) /\ UNCHANGED guesses
     \/ Failed(r) /\ UNCHANGED <<lastStep, spent>>
  /\ UNCHANGED <<password, weakHash, secret, codes, fails, lifted, lost, sess, enrol, drawn>>

-----------------------------------------------------------------------------
(* Recovery codes.                                                         *)

submitRecovery(r, b) ==
  /\ Ask(r, b, "recover", "asked", 0)
  /\ UNCHANGED <<account, budget, sess, enrol, spent, drawn>>

NewPassword == IF password <= MaxPassword THEN password + 1 ELSE password

\* One transaction: the code is taken, then the password is replaced, and
\* the factor goes only if the form said so.
UseRecoveryCode(r) ==
  /\ attempt[r].at = "verify" /\ attempt[r].op = "recover"
  /\ \/ /\ \E c \in codes : codes' = codes \ {c}
        /\ password' = NewPassword /\ weakHash' = FALSE
        /\ \/ secret' = 0 /\ lastStep' = 0 /\ spent' = {}
           \/ UNCHANGED <<secret, lastStep, spent>>
        /\ Pass(r, secret', 0)
        /\ UNCHANGED guesses
     \/ Failed(r) /\ UNCHANGED <<account, spent>>
  /\ UNCHANGED <<fails, lifted, lost, sess, enrol, drawn>>

\* Drawing codes replaces the ones that are left.
storeRecoveryCodes(n) ==
  \E new \in SUBSET (Codes \ drawn) :
    /\ Cardinality(new) = n /\ codes' = new /\ drawn' = drawn \union new
    /\ UNCHANGED <<password, weakHash, secret, lastStep, budget, sess, enrol, attempt, spent>>

\* The holder, with the password typed again.
regenerateRecoveryCodes(b) == sess[b] = "user" /\ storeRecoveryCodes(CodeCount)

IssueRecoveryCode == storeRecoveryCodes(1)

\* The operator, with the developer password, for a member who asked.
issueMemberRecovery == IssueRecoveryCode

-----------------------------------------------------------------------------
(* The account page, for a session that is signed in.                      *)

\* The form is read, and what it asks for is compared with the account.
saveAccount(r, b) ==
  /\ sess[b] = "user"
  /\ Ask(r, b, "password", "write", 0) \/ (secret # 0 /\ Ask(r, b, "disable", "write", 0))
  /\ UNCHANGED <<account, budget, sess, enrol, spent, drawn>>

savePassword(r) ==
  /\ attempt[r].at = "write" /\ attempt[r].op = "password"
  /\ password' = NewPassword /\ weakHash' = FALSE
  /\ AttemptDone(r)
  /\ UNCHANGED <<secret, lastStep, codes, budget, sess, enrol, spent, drawn>>

disableTOTP(r) ==
  /\ attempt[r].at = "write" /\ attempt[r].op = "disable"
  /\ secret' = 0
  /\ AttemptDone(r)
  /\ UNCHANGED <<password, weakHash, lastStep, codes, budget, sess, enrol, spent, drawn>>

\* A secret is kept in the session until a code proves that it was taken.
beginTOTP(b) ==
  /\ sess[b] = "user" /\ secret = 0
  /\ \E s \in Secrets : enrol' = [enrol EXCEPT ![b] = s]
  /\ UNCHANGED <<account, budget, sess, attempt, spent, drawn>>

cancelTOTP(b) ==
  /\ sess[b] = "user" /\ enrol[b] # 0 /\ enrol' = [enrol EXCEPT ![b] = 0]
  /\ UNCHANGED <<account, budget, sess, attempt, spent, drawn>>

\* The code is verified, and then the secret is stored.
confirmTOTP(r, b) ==
  /\ sess[b] = "user" /\ enrol[b] # 0
  /\ \E o \in Offsets : VerifyTOTP(enrol[b], o) /\ Ask(r, b, "confirm", "write", enrol[b])
  /\ UNCHANGED <<password, weakHash, secret, codes, budget, sess, enrol, drawn>>

SetTOTPSecret(r) ==
  /\ attempt[r].at = "write" /\ attempt[r].op = "confirm"
  /\ secret' = attempt[r].seen /\ enrol' = [enrol EXCEPT ![attempt[r].by] = 0]
  /\ AttemptDone(r)
  /\ UNCHANGED <<password, weakHash, lastStep, codes, budget, sess, spent, drawn>>

-----------------------------------------------------------------------------
(* Time.                                                                   *)

\* The rows that still count a tick later: they were written in the order of
\* time, so the first of them are the ones that stop counting.
Aged(f) ==
  LET gone == CHOOSE n \in 0..Len(f) : \A i \in DOMAIN f : f[i] > 1 <=> i > n
  IN [i \in 1..(Len(f) - gone) |-> f[i + gone] - 1]

LoginTick ==
  /\ fails' = Aged(fails) /\ guesses' = Aged(guesses)
  /\ lost' = IF guesses' = <<>> THEN 0 ELSE lost
  /\ lifted' = IF lifted = 0 THEN 0 ELSE lifted - 1
  /\ lastStep' = IF lastStep = 0 THEN 0 ELSE lastStep - 1
  /\ spent' = {c \in Secrets \X Offsets : <<c[1], c[2] + 1>> \in spent}
  /\ UNCHANGED <<password, weakHash, secret, codes, sess, enrol, attempt, drawn>>

LoginNext ==
  \/ LoginTick \/ liftLoginLock \/ issueMemberRecovery
  \/ \E r \in Attempts :
       \/ CheckLoginThrottle(r) \/ recordFailedLogin(r) \/ VerifyPassword(r) \/ Rehash(r)
       \/ Passed(r) \/ submitSecondFactor(r) \/ UseRecoveryCode(r)
       \/ savePassword(r) \/ disableTOTP(r) \/ SetTOTPSecret(r)
  \/ \E b \in Browsers :
       \/ logoutHandler(b) \/ regenerateRecoveryCodes(b) \/ beginTOTP(b) \/ cancelTOTP(b)
       \/ \E r \in Attempts :
            \/ submitLogin(r, b) \/ secondFactorHandler(r, b) \/ submitRecovery(r, b)
            \/ saveAccount(r, b) \/ confirmTOTP(r, b)

\* Time passes, and nothing else has to.
LoginSpec == LoginInit /\ [][LoginNext]_loginVars /\ WF_loginVars(LoginTick)

-----------------------------------------------------------------------------
(* Properties.                                                             *)

\* The budget holds however sign-ins, codes and recoveries are interleaved:
\* between one completed sign-in and the next, no more wrong guesses are
\* compared in a window than the limit and the requests that were past the
\* throttle together; a lock that an owner lifts buys that once more, and a
\* failure that could not be written buys one guess.  A right password that
\* still owes the factor buys nothing (ClearLoginFailures, attempts.go:190).
GuessesBounded ==
  Len(guesses) <= (IF lifted > 0 THEN 2 ELSE 1) * (MaxFailures - 1 + Cardinality(Attempts)) + lost

\* No code is accepted twice (ErrTOTPReplayed), by the sign-in or by the
\* enrolment that the first use of it completed, unless the factor was
\* cleared by a recovery in between.
CodesAreSpent ==
  [][ \A r \in Attempts :
        /\ attempt[r].op = "code" /\ attempt'[r].at = "passed" => <<attempt[r].seen, lastStep'>> \notin spent
        /\ attempt'[r].op = "confirm" /\ attempt[r].at = "idle" => <<attempt'[r].seen, lastStep'>> \notin spent ]_loginVars

\* A password that was changed stays changed (savePassword, UseRecoveryCode):
\* nothing puts an older one back.
ChangedPasswordStays == [][password' >= password]_loginVars
==============================================================================
