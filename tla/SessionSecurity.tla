--------------------------- MODULE SessionSecurity ---------------------------
(***************************************************************************)
(* The PC's session security (windows/security): the attempt policy        *)
(* (rate_limiter.cpp), the challenge and proof of StoredSessionSecurity    *)
(* and the numbered envelopes of SessionProtector (crypto.cpp), the        *)
(* pairing exchange (spake2.cpp) and the record on disk                    *)
(* (pairing_store.cpp).                                                    *)
(*                                                                         *)
(* One phone is paired under one device id and connects from several       *)
(* sources.  A key is the number of the pairing that made it; a proof is   *)
(* right when it was made with the challenge's key for the challenge's     *)
(* nonce, and no other proof is (the hash and the curve are not modelled). *)
(* A challenge is identified by the attempt it charged.  The process may   *)
(* die, or the machine lose power, between any two steps; the memory, and  *)
(* the attempts charged in it, are then gone.                              *)
(***************************************************************************)
EXTENDS Naturals, Sequences, FiniteSets, SequencesExt

CONSTANTS
    Sources,         \* addresses the phone connects from
    MaxPerSource,    \* maxAttemptsPerSource
    MaxGlobal,       \* maxAttemptsGlobal
    Window,          \* failureWindow
    Cooldown,
    ChallengeLife,   \* the 10 seconds of a challenge
    PairingLife,     \* kPairingLifetimeSeconds
    SessionLife,     \* kMaximumSessionLifetimeSeconds
    MaxRecords,      \* kMaximumSessionRecordsPerChannel
    MaxAttempts,     \* bound: attempts between two starts of the process
    MaxPairings,     \* bound: pairings begun, the first before the start
    MaxSent,         \* bound: records the phone sends in a session
    MaxTime          \* bound: the clock

ASSUME LimitsPositive ==
    /\ {MaxPerSource, MaxGlobal, MaxRecords, MaxPairings} \subseteq Nat \ {0}
    /\ {Window, Cooldown, ChallengeLife, PairingLife, SessionLife} \subseteq Nat
    /\ {MaxAttempts, MaxSent, MaxTime} \subseteq Nat
ASSUME LifetimesOrdered ==
    0 < ChallengeLife /\ ChallengeLife <= Cooldown /\ Cooldown <= Window

VARIABLES
    now,
    log,             \* per attempt: its source, its start, its key, its grants
    charged,         \* attempts_, by number
    peerBlocked,     \* peerBlockedUntil_, 0 for none
    globalBlocked,   \* globalBlockedUntil_, 0 for none
    pending,         \* per source, the attempt of the challenge sent, or 0
    server,          \* PairingServer: its stage and when its offer expires
    pairings,        \* pairings begun so far, the key of the latest
    phoneKey,        \* the key the phone holds, or 0
    saving,          \* where PairingStore::save is
    temp, file,      \* the temporary file and the record: a key and its state
    session,         \* the attempt that was granted a protector, or 0
    until,           \* expiresUnixSeconds_
    out, in,         \* per channel, the SequenceCounter of the phone and the PC
    used, accepted   \* per channel, the numbers protected and unprotected

Channels == {"control", "video"}

policyVars == <<charged, peerBlocked, globalBlocked>>
storeVars == <<saving, temp, file>>
pairVars == <<server, pairings, phoneKey>>
sessionVars == <<session, until, out, in, used, accepted>>
vars == <<now, log, policyVars, pending, pairVars, storeVars, sessionVars>>

NoFile == [key |-> 0, state |-> "none"]
NoServer == [stage |-> "none", until |-> 0]
NoSession ==
    /\ session' = 0 /\ until' = 0
    /\ out' = [c \in Channels |-> [next |-> 0, exhausted |-> FALSE]]
    /\ in' = [c \in Channels |-> [next |-> 0, exhausted |-> FALSE]]
    /\ used' = [c \in Channels |-> <<>>]
    /\ accepted' = [c \in Channels |-> <<>>]

(* The PC starts with the record of an earlier pairing; Erase takes it away. *)
Init ==
    /\ now = 0 /\ log = <<>>
    /\ charged = {} /\ peerBlocked = [s \in Sources |-> 0] /\ globalBlocked = 0
    /\ pending = [s \in Sources |-> 0]
    /\ server = NoServer /\ pairings = 1 /\ phoneKey = 1
    /\ saving = "idle" /\ temp = NoFile /\ file = [key |-> 1, state |-> "whole"]
    /\ session = 0 /\ until = 0
    /\ out = [c \in Channels |-> [next |-> 0, exhausted |-> FALSE]]
    /\ in = [c \in Channels |-> [next |-> 0, exhausted |-> FALSE]]
    /\ used = [c \in Channels |-> <<>>]
    /\ accepted = [c \in Channels |-> <<>>]

Tick ==
    /\ now < MaxTime
    /\ now' = now + 1
    /\ UNCHANGED <<log, policyVars, pending, pairVars, storeVars, sessionVars>>

-----------------------------------------------------------------------------
(* AttemptPolicy.  Every call begins with prune: an ended global cooldown    *)
(* clears all, an ended cooldown of a source that source, and the window     *)
(* what is too old.                                                          *)
Of(ids, s) == {i \in ids : log[i].source = s}

Pruned ==
    LET over(t) == t # 0 /\ now >= t
        ended == {s \in Sources : over(peerBlocked[s])}
    IN IF over(globalBlocked)
       THEN [charged |-> {}, peers |-> [s \in Sources |-> 0], global |-> 0]
       ELSE [charged |-> {i \in charged : /\ log[i].source \notin ended
                                          /\ log[i].started + Window >= now},
             peers |-> [s \in Sources |-> IF s \in ended THEN 0 ELSE peerBlocked[s]],
             global |-> globalBlocked]

Allowed(s) ==
    /\ Pruned.global = 0 /\ Pruned.peers[s] = 0
    /\ Cardinality(Pruned.charged) < MaxGlobal
    /\ Cardinality(Of(Pruned.charged, s)) < MaxPerSource

Prune ==
    /\ charged' = Pruned.charged
    /\ peerBlocked' = Pruned.peers
    /\ globalBlocked' = Pruned.global

(* Bound: a pairing counts as two of the attempts. *)
Spent == Len(log) + 2 * (pairings - 1)

(* beginAttempt charges before anything is known of the attempt. *)
BeginAttempt(s, key) ==
    LET id == Len(log) + 1
        all == Pruned.charged \cup {id}
        ours == Of(Pruned.charged, s) \cup {id}
    IN /\ Allowed(s) /\ Spent < MaxAttempts
       /\ log' = Append(log, [source |-> s, started |-> now, key |-> key, grants |-> 0])
       /\ charged' = all
       /\ peerBlocked' = IF Cardinality(ours) >= MaxPerSource
                         THEN [Pruned.peers EXCEPT ![s] = now + Cooldown]
                         ELSE Pruned.peers
       /\ globalBlocked' = IF Cardinality(all) >= MaxGlobal
                           THEN now + Cooldown ELSE Pruned.global

(* finishAttempt(id, true): exactly its own charge is taken back. *)
ForgivesSource(id) ==   \* mutant: a success forgives the source's failures
    Pruned.charged \ Of(Pruned.charged, log[id].source)
Uncharge(id) == Pruned.charged \ {id}

StaysBlocked(left, limit) == FALSE   \* mutant: a success ends no cooldown
Unblocks(left, limit) == Cardinality(left) < limit

Succeed(id) ==
    LET left == Uncharge(id)
        s == log[id].source
    IN IF id \in Pruned.charged
       THEN /\ charged' = left
            /\ peerBlocked' = IF Unblocks(Of(left, s), MaxPerSource)
                              THEN [Pruned.peers EXCEPT ![s] = 0] ELSE Pruned.peers
            /\ globalBlocked' = IF Unblocks(left, MaxGlobal) THEN 0 ELSE Pruned.global
       ELSE Prune

-----------------------------------------------------------------------------
(* PairingStore::load: the file is whole, or there is an error. *)
Loads == file.state = "whole"

(* beginAuthentication, on a connection without a session.  A failing load   *)
(* leaves the charge and an earlier challenge; a new challenge replaces the  *)
(* earlier one, whose charge stays.                                          *)
BeginAuthentication(s) ==
    /\ session = 0
    /\ \/ /\ BeginAttempt(s, file.key) /\ Loads
          /\ pending' = [pending EXCEPT ![s] = Len(log) + 1]
       \/ /\ BeginAttempt(s, 0)
          /\ UNCHANGED pending
       \/ /\ ~Allowed(s) /\ Prune
          /\ UNCHANGED <<log, pending>>
    /\ UNCHANGED <<now, pairVars, storeVars, sessionVars>>

(* finishAuthentication without a challenge is an attempt of its own. *)
Unsolicited(s) ==
    /\ session = 0 /\ pending[s] = 0
    /\ \/ BeginAttempt(s, 0)
       \/ ~Allowed(s) /\ Prune /\ UNCHANGED log
    /\ UNCHANGED <<now, pending, pairVars, storeVars, sessionVars>>

(* The challenge is taken out before the proof is looked at. *)
KeepsChallenge(s) == pending   \* mutant: it is taken out of the copy only
Taken(s) == [pending EXCEPT ![s] = 0]

Expired(id) == now >= log[id].started + ChallengeLife

FinishWrong(s) ==
    /\ session = 0 /\ pending[s] # 0
    /\ pending' = Taken(s)
    /\ Prune
    /\ UNCHANGED <<now, log, pairVars, storeVars, sessionVars>>

(* makeAuthenticationProof: the proof over both nonces is the one expected   *)
(* exactly if it was made with the key the challenge was issued for.         *)
Proves(id) == phoneKey = log[id].key

(* deriveSessionKeys and createSessionProtector: the nonces of this exchange *)
(* give every channel fresh keys, so that its counters start at 0, and the   *)
(* protector its end.                                                        *)
CreateSessionProtector(id) ==
    /\ session' = id /\ until' = now + SessionLife
    /\ UNCHANGED <<out, in, used, accepted>>

FinishRight(s) ==
    LET id == pending[s] IN
    /\ session = 0 /\ id # 0
    /\ ~Expired(id) /\ Proves(id)
    /\ pending' = Taken(s)
    /\ Succeed(id)
    /\ log' = [log EXCEPT ![id].grants = @ + 1]
    /\ CreateSessionProtector(id)
    /\ UNCHANGED <<now, pairVars, storeVars>>

(* The connection ends, and with it the protector. *)
Disconnect ==
    /\ session # 0
    /\ NoSession
    /\ UNCHANGED <<now, log, policyVars, pending, pairVars, storeVars>>

-----------------------------------------------------------------------------
(* SessionProtector.  The counter stops at the last number it may use. *)
WrapsRound(counter) ==   \* mutant: the last number is used again
    IF counter.next + 1 >= MaxRecords THEN counter
    ELSE [counter EXCEPT !.next = @ + 1]
CountsOn(counter) ==   \* mutant: the limit is found one number too late
    IF counter.next >= MaxRecords THEN [counter EXCEPT !.exhausted = TRUE]
    ELSE [counter EXCEPT !.next = @ + 1]
Advance(counter) ==
    IF counter.next + 1 >= MaxRecords THEN [counter EXCEPT !.exhausted = TRUE]
    ELSE [counter EXCEPT !.next = @ + 1]

Usable(counter) == session # 0 /\ now < until /\ ~counter.exhausted

Protect(c) ==
    /\ Usable(out[c])
    /\ Len(used["control"]) + Len(used["video"]) < MaxSent
    /\ used' = [used EXCEPT ![c] = Append(@, out[c].next)]
    /\ out' = [out EXCEPT ![c] = Advance(@)]
    /\ UNCHANGED <<now, log, policyVars, pending, pairVars, storeVars,
                   session, until, in, accepted>>

ProtectControl == Protect("control")
ProtectMedia == Protect("video")

(* Any record protected so far may arrive, again or out of turn: two threads *)
(* number and send theirs in different orders, and the network repeats.      *)
InTurn(c, n) == n = in[c].next

Unprotect(c) ==
    /\ Usable(in[c])
    /\ \E n \in Range(used[c]) :
         /\ InTurn(c, n)
         /\ accepted' = [accepted EXCEPT ![c] = Append(@, n)]
    /\ in' = [in EXCEPT ![c] = Advance(@)]
    /\ UNCHANGED <<now, log, policyVars, pending, pairVars, storeVars,
                   session, until, out, used>>

UnprotectControl == Unprotect("control")
UnprotectMedia == Unprotect("video")

(* A rejected envelope changes no counter; the session controller ends the   *)
(* connection.                                                               *)
Rejected(c) ==
    /\ session # 0
    /\ \/ ~Usable(in[c])
       \/ \E n \in Range(used[c]) : ~InTurn(c, n)
    /\ NoSession
    /\ UNCHANGED <<now, log, policyVars, pending, pairVars, storeVars>>

-----------------------------------------------------------------------------
(* PairingServer.  The phone learns its key with confirmationB, if it was    *)
(* given the right code.                                                     *)
PairBegin ==
    /\ pairings < MaxPairings /\ Spent + 2 <= MaxAttempts /\ saving = "idle"
    /\ pairings' = pairings + 1
    /\ server' = [stage |-> "begun", until |-> now + PairingLife]
    /\ UNCHANGED <<now, log, policyVars, pending, phoneKey, storeVars, sessionVars>>

(* Spake2P256::finish: both ends come to the same secret, and so to the      *)
(* confirmations the other expects, exactly if they were given the same code.*)
Agreement(sameCode) == IF sameCode THEN "agreed" ELSE "wrong"

ReceiveCommit ==
    /\ server.stage = "begun"
    /\ \E sameCode \in BOOLEAN :
         /\ server' = [server EXCEPT !.stage = Agreement(sameCode)]
         /\ phoneKey' = IF sameCode THEN pairings ELSE phoneKey
    /\ UNCHANGED <<now, log, policyVars, pending, pairings, storeVars, sessionVars>>

(* verifyPeer; a wrong confirmation may be followed by another. *)
VerifyPeer ==
    /\ server.stage = "agreed" /\ now < server.until
    /\ server' = [server EXCEPT !.stage = "verified"]
    /\ saving' = "create"
    /\ UNCHANGED <<now, log, policyVars, pending, pairings, phoneKey,
                   temp, file, sessionVars>>

(* PairingStore::save: the temporary file, its bytes, the flush, the move.   *)
(* Bytes that were not flushed do not survive a loss of power.               *)
SaveStep(from, to) == saving = from /\ saving' = to
Store == UNCHANGED <<now, log, policyVars, pending, pairVars, sessionVars>>

CreateTemp ==
    /\ SaveStep("create", "write")
    /\ temp' = [key |-> pairings, state |-> "partial"]
    /\ UNCHANGED file /\ Store

WriteTemp ==
    /\ SaveStep("write", "flush")
    /\ temp' = [temp EXCEPT !.state = "cached"]
    /\ UNCHANGED file /\ Store

FlushSkipped ==   \* mutant: a failed flush is not an error
    /\ SaveStep("flush", "move")
    /\ UNCHANGED <<temp, file>> /\ Store
FlushTemp ==
    /\ SaveStep("flush", "move")
    /\ temp' = [temp EXCEPT !.state = "whole"]
    /\ UNCHANGED file /\ Store

MoveTemp ==
    /\ SaveStep("move", "idle")
    /\ file' = temp /\ temp' = NoFile
    /\ Store

(* A failing step: the temporary file is deleted and the record kept. *)
SaveFails ==
    /\ saving # "idle"
    /\ saving' = "idle" /\ temp' = NoFile
    /\ UNCHANGED file /\ Store

Erase ==
    /\ file # NoFile /\ saving = "idle"
    /\ file' = NoFile
    /\ UNCHANGED <<saving, temp>> /\ Store

(* The process dies, and starts again.  A loss of power also takes what was  *)
(* only cached; the temporary file is left behind and never opened again.    *)
PowerLoss(f) == IF f.state = "cached" THEN [f EXCEPT !.state = "partial"] ELSE f

Crash ==
    /\ log' = <<>> /\ charged' = {} /\ globalBlocked' = 0
    /\ peerBlocked' = [s \in Sources |-> 0]
    /\ pending' = [s \in Sources |-> 0]
    /\ server' = NoServer
    /\ saving' = "idle" /\ temp' = NoFile /\ file' = PowerLoss(file)
    /\ NoSession
    /\ UNCHANGED <<now, pairings, phoneKey>>

-----------------------------------------------------------------------------
Next ==
    \/ Tick \/ Disconnect \/ Crash
    \/ \E s \in Sources :
         BeginAuthentication(s) \/ Unsolicited(s) \/ FinishWrong(s) \/ FinishRight(s)
    \/ ProtectControl \/ ProtectMedia \/ UnprotectControl \/ UnprotectMedia
    \/ \E c \in Channels : Rejected(c)
    \/ PairBegin \/ ReceiveCommit \/ VerifyPeer
    \/ CreateTemp \/ WriteTemp \/ FlushTemp \/ MoveTemp \/ SaveFails \/ Erase

Spec == Init /\ [][Next]_vars

-----------------------------------------------------------------------------
Times == 0..(MaxTime + Cooldown + PairingLife + SessionLife)
Counters == [next : 0..(MaxRecords - 1), exhausted : BOOLEAN]
Files == [key : 0..MaxPairings, state : {"none", "partial", "cached", "whole"}]

(* The policy's charges and the challenges name attempts that were made, and *)
(* no counter passes the last number a channel may use                       *)
(* (kMaximumSessionRecordsPerChannel).                                       *)
TypeOK ==
    /\ now \in 0..MaxTime
    /\ log \in Seq([source : Sources, started : Times,
                    key : 0..MaxPairings, grants : Nat])
    /\ charged \subseteq DOMAIN log
    /\ peerBlocked \in [Sources -> Times] /\ globalBlocked \in Times
    /\ pending \in [Sources -> 0..Len(log)]
    /\ server \in [stage : {"none", "begun", "agreed", "wrong", "verified"}, until : Times]
    /\ pairings \in 0..MaxPairings /\ phoneKey \in 0..MaxPairings
    /\ saving \in {"idle", "create", "write", "flush", "move"}
    /\ temp \in Files /\ file \in Files
    /\ session \in 0..Len(log) /\ until \in Times
    /\ out \in [Channels -> Counters] /\ in \in [Channels -> Counters]
    /\ used \in [Channels -> Seq(Nat)] /\ accepted \in [Channels -> Seq(Nat)]

(* The attempts that were not granted a session, of one source or of all,    *)
(* within less than a cooldown from t on.                                    *)
Ungranted(s, t) ==
    {i \in DOMAIN log : /\ log[i].source = s /\ log[i].grants = 0
                        /\ t <= log[i].started /\ log[i].started < t + Cooldown}

(* What the limits are for (security.h, "charges a provisional failure to    *)
(* both the source and global budgets"): whatever successes, replaced and    *)
(* unsolicited answers and ended cooldowns come in between, no stretch       *)
(* shorter than a cooldown holds more failing attempts than the limits.      *)
GuessesBounded ==
    \A t \in 0..now :
        /\ \A s \in Sources : Cardinality(Ungranted(s, t)) <= MaxPerSource
        /\ Cardinality(UNION {Ungranted(s, t) : s \in Sources}) <= MaxGlobal

(* "A successful completion removes exactly that charge": with no failed or  *)
(* open attempt within the window nobody is turned away.                     *)
SuccessIsFree ==
    (\A i \in DOMAIN log : log[i].grants > 0 \/ log[i].started + Window < now)
        => \A s \in Sources : Allowed(s)

(* A challenge grants at most one session, however often a proof for it is   *)
(* repeated.                                                                 *)
OneSessionPerChallenge == \A i \in DOMAIN log : log[i].grants <= 1

(* A number is used once in a session, and what one end accepts is what the  *)
(* other protected, in that order and without repetition or gap.             *)
RecordsInOrderOnce ==
    \A c \in Channels : IsInjective(used[c]) /\ IsPrefix(accepted[c], used[c])

(* The record on disk can be loaded at all times: a crash, a loss of power   *)
(* or a failing write while a new one is saved leaves the old one in place.  *)
RecordLoadable == file.state \in {"none", "whole"}

(* The attempt policy bounds the failures and costs a success nothing.       *)
PolicyInv == GuessesBounded /\ SuccessIsFree

(* Counters and charges stay within their limits (TypeOK), and a challenge   *)
(* grants at most one session.                                               *)
ChallengeInv == TypeOK /\ OneSessionPerChallenge

=============================================================================
