----------------------------- MODULE PairStore -----------------------------
(***************************************************************************)
(* Who may reach the machine: the pairing tokens, the pairing requests and *)
(* the devices of noxd's store.  Every operation is one transaction of the *)
(* single write connection, so operations are atomic; but each is handed   *)
(* the `now' its caller read before it waited for that connection, and may *)
(* be late.  A request is named by its token (the token column is unique). *)
(* The machine holds one person; a refused operation changes nothing and   *)
(* is the absence of a step.                                               *)
(***************************************************************************)
EXTENDS Integers

CONSTANTS
    Device,     \* device keys
    Token,      \* token values that may be minted
    Page,       \* loads of the service page under way at a time
    NoKey,      \* NULL in a key column
    TTL,        \* TokenTTLSeconds
    MaxClock,   \* bound: the clock runs to here, and no token outlives it
    MaxLag      \* bound: how long an operation waits for the writer

ASSUME PairStoreAssumption ==
    /\ NoKey \notin Device
    /\ TTL \in Nat \ {0}
    /\ MaxClock \in Nat
    /\ MaxLag \in Nat

VARIABLES
    clock,
    people,    \* rows of users
    paired,    \* device keys with a row in devices
    kind,      \* of a token; "none" before it is minted, "gone" once deleted
    issuer,    \* issuer_key
    expires,   \* expires_at
    spent,     \* tokens whose used_at is set
    usedBy,    \* used_by
    named,     \* tokens that name the person they paired (paired_user_id)
    asker,     \* device_key of the request
    outcome,   \* of the request; "none" where there is none
    page       \* whether a page load has found nothing and is about to mint

tokenVars == <<kind, issuer, expires, spent, usedBy, named>>
requestVars == <<asker, outcome>>
pairVars == <<clock, people, paired, tokenVars, requestVars, page>>

Closed == {"allowed", "denied", "expired", "cancelled"}

PairInit ==
    /\ clock = 0
    /\ people = 0
    /\ paired = {}
    /\ kind = [t \in Token |-> "none"]
    /\ issuer = [t \in Token |-> NoKey]
    /\ expires = [t \in Token |-> 0]
    /\ spent = {}
    /\ usedBy = [t \in Token |-> NoKey]
    /\ named = {}
    /\ asker = [t \in Token |-> NoKey]
    /\ outcome = [t \in Token |-> "none"]
    /\ page = [p \in Page |-> "idle"]

\* What an operation that reaches the writer now may believe the time is.
Recent == {t \in 0 .. clock : clock - t <= MaxLag}

Tick ==
    /\ clock < MaxClock
    /\ clock' = clock + 1
    /\ UNCHANGED <<people, paired, tokenVars, requestVars, page>>

(***************************************************************************)
(* Machine links                                                           *)
(***************************************************************************)

Unspent(k) == {t \in Token : kind[t] = k /\ t \notin spent}

\* Faulty variant: the earlier links are left as they are.
InsertOneMore(t, now) ==
    /\ kind[t] = "none" /\ now + TTL <= MaxClock
    /\ kind' = [kind EXCEPT ![t] = "machine"]
    /\ expires' = [expires EXCEPT ![t] = now + TTL]
    /\ UNCHANGED <<issuer, spent, usedBy, named>>

\* Earlier machine links are voided by the transaction that mints the new one.
insertMachineLink(t, now) ==
    /\ kind[t] = "none" /\ now + TTL <= MaxClock
    /\ spent' = spent \cup Unspent("machine")
    /\ kind' = [kind EXCEPT ![t] = "machine"]
    /\ expires' = [expires EXCEPT ![t] = now + TTL]
    /\ UNCHANGED <<issuer, usedBy, named>>

\* Asked for at the machine: `New link', `Add a device', noxd's own command.
IssueMachineLink(t, now) ==
    /\ insertMachineLink(t, now)
    /\ UNCHANGED <<clock, people, paired, requestVars, page>>

\* pageLinkState finds neither a device nor an unspent link.
NothingToShow == paired = {} /\ Unspent("machine") = {}

\* PageMachineLink looks on the read pool first ...
PageReads(p) ==
    /\ page[p] = "idle" /\ NothingToShow
    /\ page' = [page EXCEPT ![p] = "minting"]
    /\ UNCHANGED <<clock, people, paired, tokenVars, requestVars>>

\* Faulty variant: ... and believes what it saw there.
PageMintsUnseen(p, t, now) ==
    /\ page[p] = "minting"
    /\ page' = [page EXCEPT ![p] = "idle"]
    /\ insertMachineLink(t, now)
    /\ UNCHANGED <<clock, people, paired, requestVars>>

\* ... and asks again inside the write transaction before it mints.
PageMints(p, t, now) ==
    /\ page[p] = "minting"
    /\ page' = [page EXCEPT ![p] = "idle"]
    /\ \/ NothingToShow /\ insertMachineLink(t, now)
       \/ ~NothingToShow /\ UNCHANGED tokenVars
    /\ UNCHANGED <<clock, people, paired, requestVars>>

\* The pairing that token stands for was d's, and d is still paired.
pairedBy(t, d) == t \in spent \cap named /\ usedBy[t] = d /\ d \in paired

\* Faulty variant: a link somebody has used is used again.
UsableTwice(t, now) == expires[t] > now

Usable(t, now) == t \notin spent /\ expires[t] > now

\* pairByMachineLink: spends the link and binds the device in one transaction.
\* A repeat by the device it paired is answered from pairedBy, without a step.
PairByMachineLink(t, d, now) ==
    /\ kind[t] = "machine"
    /\ ~pairedBy(t, d)
    /\ Usable(t, now)
    /\ spent' = spent \cup {t}
    /\ usedBy' = [usedBy EXCEPT ![t] = d]
    /\ named' = named \cup {t}
    /\ people' = 1
    /\ paired' = paired \cup {d}
    /\ UNCHANGED <<clock, kind, issuer, expires, requestVars, page>>

(***************************************************************************)
(* Invites and requests                                                    *)
(***************************************************************************)

\* Faulty variant: the issuer was looked up before, by the handler.
MayInviteUnchecked(d) == d \in Device

\* The statement that writes the token reads the issuer's row.
MayInvite(d) == d \in paired

IssueDeviceInvite(t, d, now) ==
    /\ kind[t] = "none" /\ MayInvite(d) /\ now + TTL <= MaxClock
    /\ kind' = [kind EXCEPT ![t] = "invite"]
    /\ issuer' = [issuer EXCEPT ![t] = d]
    /\ expires' = [expires EXCEPT ![t] = now + TTL]
    /\ UNCHANGED <<clock, people, paired, spent, usedBy, named, requestVars, page>>

\* requestByInvite with no request yet: one is opened, the token stays unspent.
OpenRequest(t, d, now) ==
    /\ kind[t] = "invite" /\ outcome[t] = "none"
    /\ Usable(t, now)
    /\ issuer[t] \in paired
    /\ asker' = [asker EXCEPT ![t] = d]
    /\ outcome' = [outcome EXCEPT ![t] = "waiting"]
    /\ UNCHANGED <<clock, people, paired, tokenVars, page>>

Waiting(t) == outcome[t] = "waiting"

\* closeRequest for every request of R: an invite unspent so far is spent by the
\* device that held the request.
CloseRequests(R, o) ==
    /\ outcome' = [t \in Token |-> IF t \in R THEN o[t] ELSE outcome[t]]
    /\ usedBy' = [t \in Token |-> IF t \in R \ spent THEN asker[t] ELSE usedBy[t]]

CloseRequest(t, o) ==
    /\ CloseRequests({t}, [u \in {t} |-> o])
    /\ spent' = spent \cup {t}
    /\ UNCHANGED <<clock, people, kind, issuer, expires, asker, page>>

\* repeatRequest of a waiting request past its deadline: the sweep was not here.
RepeatFindsExpired(t, d, now) ==
    /\ Waiting(t) /\ asker[t] = d /\ expires[t] <= now
    /\ CloseRequest(t, "expired")
    /\ UNCHANGED <<paired, named>>

\* What DecidePairRequest asks of the request and of who answers it.
Decidable(t, d, now) ==
    /\ d \in paired /\ issuer[t] = d
    /\ Waiting(t) /\ expires[t] > now

\* Faulty variant: the outcome is not recorded.
AllowUnrecorded(t, d, now) ==
    /\ Decidable(t, d, now) /\ t \notin spent
    /\ CloseRequest(t, "allowed")
    /\ paired' = paired \cup {asker[t]}
    /\ UNCHANGED named

\* Allow: spent, closed, bound and recorded in one transaction.
Allow(t, d, now) ==
    /\ Decidable(t, d, now) /\ t \notin spent
    /\ CloseRequest(t, "allowed")
    /\ paired' = paired \cup {asker[t]}
    /\ named' = named \cup {t}

Deny(t, d, now) ==
    /\ Decidable(t, d, now)
    /\ CloseRequest(t, "denied")
    /\ UNCHANGED <<paired, named>>

\* Faulty variant: closed requests are cancelled too.
CancellableAlways(t, d) == outcome[t] # "none" /\ asker[t] = d

Cancellable(t, d) == Waiting(t) /\ asker[t] = d

CancelPairRequest(t, d, now) ==
    /\ Cancellable(t, d)
    /\ CloseRequest(t, IF expires[t] <= now THEN "expired" ELSE "cancelled")
    /\ UNCHANGED <<paired, named>>

Due(now) == {t \in Token : Waiting(t) /\ expires[t] <= now}

\* The sweep: every request past its deadline at once.
ExpirePairRequests(now) ==
    /\ Due(now) # {}
    /\ CloseRequests(Due(now), [t \in Due(now) |-> "expired"])
    /\ spent' = spent \cup Due(now)
    /\ UNCHANGED <<clock, people, paired, kind, issuer, expires, named, asker, page>>

(***************************************************************************)
(* Leaving                                                                 *)
(***************************************************************************)

\* Faulty variant: only what the device itself asked for is closed.
RequestsAskedBy(d) == {t \in Token : Waiting(t) /\ asker[t] = d}

\* closeRequestsOf: addressed to the device or opened by it.
RequestsOf(d) == {t \in Token : Waiting(t) /\ d \in {issuer[t], asker[t]}}

\* A machine link that ran out unused goes with the last device.
RunOutLinks(d, now) == {t \in Unspent("machine") : paired = {d} /\ expires[t] <= now}

\* device.revoke by a device c that is paired in the same transaction.
RevokeDevice(c, d, now) ==
    /\ c \in paired /\ d \in paired
    /\ paired' = paired \ {d}
    /\ CloseRequests(RequestsOf(d),
                     [t \in RequestsOf(d) |-> IF expires[t] <= now THEN "expired"
                                              ELSE "denied"])
    /\ spent' = spent \cup RequestsOf(d) \cup {t \in Unspent("invite") : issuer[t] = d}
                      \cup RunOutLinks(d, now)
    /\ UNCHANGED <<clock, people, kind, issuer, expires, named, asker, page>>

\* A start finds the key of another implementation: every device is let go,
\* every token and request deleted.  The person stays.
RekeyServerIdentity ==
    /\ paired' = {}
    /\ kind' = [t \in Token |-> IF kind[t] = "none" THEN "none" ELSE "gone"]
    /\ issuer' = [t \in Token |-> NoKey]
    /\ expires' = [t \in Token |-> 0]
    /\ spent' = {}
    /\ usedBy' = [t \in Token |-> NoKey]
    /\ named' = {}
    /\ asker' = [t \in Token |-> NoKey]
    /\ outcome' = [t \in Token |-> "none"]
    /\ page' = [p \in Page |-> "idle"]
    /\ UNCHANGED <<clock, people>>

AtTheMachine(t, now) ==
    IssueMachineLink(t, now) \/ \E p \in Page : PageMints(p, t, now)

\* What a device can ask for.
ByDevice(t, d, now) ==
    \/ PairByMachineLink(t, d, now) \/ IssueDeviceInvite(t, d, now)
    \/ OpenRequest(t, d, now) \/ RepeatFindsExpired(t, d, now)
    \/ Allow(t, d, now) \/ Deny(t, d, now) \/ CancelPairRequest(t, d, now)

PairNext ==
    \/ Tick
    \/ RekeyServerIdentity
    \/ \E p \in Page : PageReads(p)
    \/ \E now \in Recent :
         \/ ExpirePairRequests(now)
         \/ \E c, d \in Device : RevokeDevice(c, d, now)
         \/ \E t \in Token : AtTheMachine(t, now)
                             \/ \E d \in Device : ByDevice(t, d, now)

PairSpec == PairInit /\ [][PairNext]_pairVars

(***************************************************************************)
(* What it promises                                                        *)
(***************************************************************************)

\* Every variable has its type; an invite has an issuer and a request the
\* device that opened it (readToken, scanRequest).
PairTypeOK ==
    /\ clock \in Nat
    /\ people \in 0 .. 1
    /\ paired \subseteq Device
    /\ kind \in [Token -> {"none", "machine", "invite", "gone"}]
    /\ issuer \in [Token -> Device \cup {NoKey}]
    /\ expires \in [Token -> Nat]
    /\ spent \subseteq Token /\ named \subseteq Token
    /\ usedBy \in [Token -> Device \cup {NoKey}]
    /\ asker \in [Token -> Device \cup {NoKey}]
    /\ outcome \in [Token -> Closed \cup {"none", "waiting"}]
    /\ page \in [Page -> {"idle", "minting"}]
    /\ \A t \in Token : kind[t] = "invite" => issuer[t] \in Device
    /\ \A t \in Token : outcome[t] # "none" => asker[t] \in Device

\* There is at most one unspent machine link, live or run out, whatever the
\* page, the machine's own command and revocations do (PageMachineLink).
OneMachineLink ==
    \A t, u \in Unspent("machine") : t = u

\* No door is left open by a device that was told to leave: an unspent invite
\* was issued by a device that is still paired (IssueDeviceInvite).
UnspentInviteHasIssuer ==
    \A t \in Unspent("invite") : issuer[t] \in paired

\* A waiting request can be answered: its invite is unspent and the device that
\* is asked is still paired, so it is neither stuck nor allowed by a stranger.
WaitingCanBeAnswered ==
    \A t \in Token : Waiting(t) => t \notin spent /\ issuer[t] \in paired

\* A closed request has spent its invite in the name of the device that asked,
\* and names the person exactly when it was allowed - so a repeat of pair finds
\* somebody only after an Allow (closeRequest, recordOutcome).
ClosedTellsTheTruth ==
    \A t \in Token : outcome[t] \in Closed =>
      /\ t \in spent /\ usedBy[t] = asker[t]
      /\ t \in named <=> outcome[t] = "allowed"

\* d joins by spending t, unspent until this step.
JoinsWith(d, t) ==
    /\ paired' = paired \cup {d}
    /\ t \notin spent /\ t \in spent' /\ usedBy'[t] = d
    /\ kind[t] = "machine" \/ (outcome'[t] = "allowed" /\ issuer[t] \in paired)

\* A device joins only through a token unspent until that very moment, which
\* this device and no other spends: a machine link, or an invite whose issuer,
\* still paired, allows it.  No replayed token brings a revoked device back
\* (pairByMachineLink, DecidePairRequest).
JoinsByConsent ==
    [][\A d \in paired' \ paired : \E t \in Token : JoinsWith(d, t)]_pairVars

\* A request is closed once, by whichever of the five ways got there first; only
\* a rekey takes the row away (closeRequest).
ClosesOnce ==
    [][\A t \in Token : outcome[t] \in Closed /\ kind'[t] # "gone"
                        => outcome'[t] = outcome[t]]_pairVars

\* A load of the service page never replaces a link behind anybody's back,
\* however many load at once and whatever is issued meanwhile (PageMachineLink).
PageReplacesNothing ==
    [][\A p \in Page : page[p] = "minting" /\ page'[p] = "idle"
                       => Unspent("machine") \cap spent' = {}]_pairVars
=============================================================================
