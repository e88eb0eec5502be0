-------------------------- MODULE PairStoreProofs --------------------------
(***************************************************************************)
(* The safety properties of PairStore, proved for any number of devices,   *)
(* tokens and page loads, any TTL and any lag between the clock a caller   *)
(* read and the transaction it got.                                        *)
(*                                                                         *)
(* The properties are nearly inductive together.  What is missing is that  *)
(* only invites carry requests, so that nothing done to a machine link     *)
(* reaches one, and that a token names a person only once it is spent, so  *)
(* that a waiting request names nobody yet.                                *)
(***************************************************************************)
EXTENDS PairStore, TLAPS

\* A request hangs on an invite.
RequestsAreInvites ==
    \A t \in Token : outcome[t] # "none" => kind[t] = "invite"

\* recordOutcome comes after the token is spent.
NamedAreSpent == named \subseteq spent

\* The inductive invariant.
PairInv ==
    /\ PairTypeOK
    /\ OneMachineLink
    /\ UnspentInviteHasIssuer
    /\ WaitingCanBeAnswered
    /\ ClosedTellsTheTruth
    /\ RequestsAreInvites
    /\ NamedAreSpent

(***************************************************************************)
(* One lemma per operation                                                 *)
(***************************************************************************)

\* Time alone touches no row.
LEMMA TickKeepsInv ==
  ASSUME PairInv,
         Tick
  PROVE  PairInv'
<1>1. PairTypeOK'
      BY DEF PairInv, PairTypeOK, tokenVars, requestVars, Tick
<1>2. OneMachineLink'
      BY DEF PairInv, OneMachineLink, Unspent, tokenVars, Tick
<1>3. UnspentInviteHasIssuer'
      BY DEF PairInv, UnspentInviteHasIssuer, Unspent, tokenVars, Tick
<1>4. WaitingCanBeAnswered'
      BY DEF PairInv, WaitingCanBeAnswered, Waiting, tokenVars,
             requestVars, Tick
<1>5. ClosedTellsTheTruth'
      BY DEF PairInv, ClosedTellsTheTruth, tokenVars, requestVars, Tick
<1>6. RequestsAreInvites'
      BY DEF PairInv, RequestsAreInvites, tokenVars, requestVars, Tick
<1>7. NamedAreSpent'
      BY DEF PairInv, NamedAreSpent, tokenVars, Tick
<1> QED
      BY <1>1, <1>2, <1>3, <1>4, <1>5, <1>6, <1>7 DEF PairInv

\* insertMachineLink voids the links before the one it mints.
LEMMA IssueMachineLinkKeepsInv ==
  ASSUME PairInv, NEW t \in Token, NEW now \in Nat,
         IssueMachineLink(t, now)
  PROVE  PairInv'
<1>1. PairTypeOK'
      BY PairStoreAssumption DEF PairInv, PairTypeOK, Unspent,
             requestVars, IssueMachineLink, insertMachineLink
<1>2. OneMachineLink'
      BY DEF PairInv, OneMachineLink, Unspent, IssueMachineLink,
             insertMachineLink
<1>3. UnspentInviteHasIssuer'
      BY DEF PairInv, UnspentInviteHasIssuer, Unspent, IssueMachineLink,
             insertMachineLink
<1>4. WaitingCanBeAnswered'
      BY DEF PairInv, WaitingCanBeAnswered, RequestsAreInvites, Unspent,
             Waiting, requestVars, IssueMachineLink, insertMachineLink
<1>5. ClosedTellsTheTruth'
      BY DEF PairInv, ClosedTellsTheTruth, requestVars, IssueMachineLink,
             insertMachineLink
<1>6. RequestsAreInvites'
      BY DEF PairInv, RequestsAreInvites, requestVars, IssueMachineLink,
             insertMachineLink
<1>7. NamedAreSpent'
      BY DEF PairInv, NamedAreSpent, IssueMachineLink, insertMachineLink
<1> QED
      BY <1>1, <1>2, <1>3, <1>4, <1>5, <1>6, <1>7 DEF PairInv

\* A page load that only looks touches no row.
LEMMA PageReadsKeepsInv ==
  ASSUME PairInv, NEW p \in Page,
         PageReads(p)
  PROVE  PairInv'
<1>1. PairTypeOK'
      BY DEF PairInv, PairTypeOK, tokenVars, requestVars, PageReads
<1>2. OneMachineLink'
      BY DEF PairInv, OneMachineLink, Unspent, tokenVars, PageReads
<1>3. UnspentInviteHasIssuer'
      BY DEF PairInv, UnspentInviteHasIssuer, Unspent, tokenVars,
             PageReads
<1>4. WaitingCanBeAnswered'
      BY DEF PairInv, WaitingCanBeAnswered, Waiting, tokenVars,
             requestVars, PageReads
<1>5. ClosedTellsTheTruth'
      BY DEF PairInv, ClosedTellsTheTruth, tokenVars, requestVars,
             PageReads
<1>6. RequestsAreInvites'
      BY DEF PairInv, RequestsAreInvites, tokenVars, requestVars,
             PageReads
<1>7. NamedAreSpent'
      BY DEF PairInv, NamedAreSpent, tokenVars, PageReads
<1> QED
      BY <1>1, <1>2, <1>3, <1>4, <1>5, <1>6, <1>7 DEF PairInv

\* A page load mints where it still finds nothing, or leaves everything alone.
LEMMA PageMintsKeepsInv ==
  ASSUME PairInv, NEW p \in Page, NEW t \in Token, NEW now \in Nat,
         PageMints(p, t, now)
  PROVE  PairInv'
<1>1. PairTypeOK'
      BY PairStoreAssumption DEF PairInv, PairTypeOK, Unspent, tokenVars,
             requestVars, PageMints, insertMachineLink
<1>2. OneMachineLink'
      BY DEF PairInv, PairTypeOK, OneMachineLink, Unspent, tokenVars,
             PageMints, insertMachineLink
<1>3. UnspentInviteHasIssuer'
      BY DEF PairInv, PairTypeOK, UnspentInviteHasIssuer, Unspent,
             tokenVars, PageMints, insertMachineLink
<1>4. WaitingCanBeAnswered'
      BY DEF PairInv, WaitingCanBeAnswered, RequestsAreInvites, Unspent,
             Waiting, tokenVars, requestVars, PageMints, insertMachineLink
<1>5. ClosedTellsTheTruth'
      BY DEF PairInv, ClosedTellsTheTruth, tokenVars, requestVars,
             PageMints, insertMachineLink
<1>6. RequestsAreInvites'
      BY DEF PairInv, PairTypeOK, RequestsAreInvites, tokenVars,
             requestVars, PageMints, insertMachineLink
<1>7. NamedAreSpent'
      BY DEF PairInv, NamedAreSpent, tokenVars, PageMints,
             insertMachineLink
<1> QED
      BY <1>1, <1>2, <1>3, <1>4, <1>5, <1>6, <1>7 DEF PairInv

\* Pairing by machine link spends a link, which no request hangs on.
LEMMA PairByMachineLinkKeepsInv ==
  ASSUME PairInv, NEW t \in Token, NEW d \in Device, NEW now \in Nat,
         PairByMachineLink(t, d, now)
  PROVE  PairInv'
<1>1. PairTypeOK'
      BY DEF PairInv, PairTypeOK, requestVars, PairByMachineLink
<1>2. OneMachineLink'
      BY DEF PairInv, OneMachineLink, Unspent, PairByMachineLink
<1>3. UnspentInviteHasIssuer'
      BY DEF PairInv, UnspentInviteHasIssuer, Unspent, PairByMachineLink
<1>4. WaitingCanBeAnswered'
      BY DEF PairInv, WaitingCanBeAnswered, RequestsAreInvites, Waiting,
             requestVars, PairByMachineLink
<1>5. ClosedTellsTheTruth'
      BY DEF PairInv, ClosedTellsTheTruth, requestVars, PairByMachineLink,
             Usable
<1>6. RequestsAreInvites'
      BY DEF PairInv, RequestsAreInvites, requestVars, PairByMachineLink
<1>7. NamedAreSpent'
      BY DEF PairInv, NamedAreSpent, PairByMachineLink
<1> QED
      BY <1>1, <1>2, <1>3, <1>4, <1>5, <1>6, <1>7 DEF PairInv

\* An invite is minted for a device that is paired in the same statement.
LEMMA IssueDeviceInviteKeepsInv ==
  ASSUME PairInv, NEW t \in Token, NEW d \in Device, NEW now \in Nat,
         IssueDeviceInvite(t, d, now)
  PROVE  PairInv'
<1>1. PairTypeOK'
      BY PairStoreAssumption DEF PairInv, PairTypeOK, requestVars,
             IssueDeviceInvite
<1>2. OneMachineLink'
      BY DEF PairInv, OneMachineLink, Unspent, IssueDeviceInvite
<1>3. UnspentInviteHasIssuer'
      BY DEF PairInv, PairTypeOK, UnspentInviteHasIssuer, Unspent,
             IssueDeviceInvite, MayInvite
<1>4. WaitingCanBeAnswered'
      BY DEF PairInv, WaitingCanBeAnswered, Waiting, requestVars,
             IssueDeviceInvite, MayInvite
<1>5. ClosedTellsTheTruth'
      BY DEF PairInv, ClosedTellsTheTruth, requestVars, IssueDeviceInvite
<1>6. RequestsAreInvites'
      BY DEF PairInv, RequestsAreInvites, requestVars, IssueDeviceInvite
<1>7. NamedAreSpent'
      BY DEF PairInv, NamedAreSpent, IssueDeviceInvite
<1> QED
      BY <1>1, <1>2, <1>3, <1>4, <1>5, <1>6, <1>7 DEF PairInv

\* A request opens on an unspent invite of a paired issuer.
LEMMA OpenRequestKeepsInv ==
  ASSUME PairInv, NEW t \in Token, NEW d \in Device, NEW now \in Nat,
         OpenRequest(t, d, now)
  PROVE  PairInv'
<1>1. PairTypeOK'
      BY DEF PairInv, PairTypeOK, tokenVars, OpenRequest
<1>2. OneMachineLink'
      BY DEF PairInv, OneMachineLink, Unspent, tokenVars, OpenRequest
<1>3. UnspentInviteHasIssuer'
      BY DEF PairInv, UnspentInviteHasIssuer, Unspent, tokenVars,
             OpenRequest
<1>4. WaitingCanBeAnswered'
      BY DEF PairInv, WaitingCanBeAnswered, Waiting, tokenVars,
             OpenRequest, Usable
<1>5. ClosedTellsTheTruth'
      BY DEF PairInv, ClosedTellsTheTruth, Closed, tokenVars, OpenRequest
<1>6. RequestsAreInvites'
      BY DEF PairInv, RequestsAreInvites, tokenVars, OpenRequest
<1>7. NamedAreSpent'
      BY DEF PairInv, NamedAreSpent, tokenVars, OpenRequest
<1> QED
      BY <1>1, <1>2, <1>3, <1>4, <1>5, <1>6, <1>7 DEF PairInv

\* A repeated pair may close the request as expired.
LEMMA RepeatFindsExpiredKeepsInv ==
  ASSUME PairInv, NEW t \in Token, NEW d \in Device, NEW now \in Nat,
         RepeatFindsExpired(t, d, now)
  PROVE  PairInv'
<1>1. PairTypeOK'
      BY DEF PairInv, PairTypeOK, Closed, RepeatFindsExpired,
             CloseRequest, CloseRequests
<1>2. OneMachineLink'
      BY DEF PairInv, OneMachineLink, Unspent, RepeatFindsExpired,
             CloseRequest
<1>3. UnspentInviteHasIssuer'
      BY DEF PairInv, UnspentInviteHasIssuer, Unspent, RepeatFindsExpired,
             CloseRequest
<1>4. WaitingCanBeAnswered'
      BY DEF PairInv, WaitingCanBeAnswered, Waiting, RepeatFindsExpired,
             CloseRequest, CloseRequests
<1>5. ClosedTellsTheTruth'
      BY DEF PairInv, WaitingCanBeAnswered, ClosedTellsTheTruth,
             NamedAreSpent, RepeatFindsExpired, CloseRequest,
             CloseRequests
<1>6. RequestsAreInvites'
      BY DEF PairInv, RequestsAreInvites, Waiting, RepeatFindsExpired,
             CloseRequest, CloseRequests
<1>7. NamedAreSpent'
      BY DEF PairInv, NamedAreSpent, RepeatFindsExpired, CloseRequest
<1> QED
      BY <1>1, <1>2, <1>3, <1>4, <1>5, <1>6, <1>7 DEF PairInv

\* Allow closes, spends, binds and records together.
LEMMA AllowKeepsInv ==
  ASSUME PairInv, NEW t \in Token, NEW d \in Device, NEW now \in Nat,
         Allow(t, d, now)
  PROVE  PairInv'
<1>1. PairTypeOK'
      BY DEF PairInv, PairTypeOK, Waiting, Closed, Allow, Decidable,
             CloseRequest, CloseRequests
<1>2. OneMachineLink'
      BY DEF PairInv, OneMachineLink, Unspent, Allow, CloseRequest
<1>3. UnspentInviteHasIssuer'
      BY DEF PairInv, UnspentInviteHasIssuer, Unspent, Allow, CloseRequest
<1>4. WaitingCanBeAnswered'
      BY DEF PairInv, WaitingCanBeAnswered, Waiting, Allow, CloseRequest,
             CloseRequests
<1>5. ClosedTellsTheTruth'
      BY DEF PairInv, ClosedTellsTheTruth, Allow, CloseRequest,
             CloseRequests
<1>6. RequestsAreInvites'
      BY DEF PairInv, RequestsAreInvites, Waiting, Allow, Decidable,
             CloseRequest, CloseRequests
<1>7. NamedAreSpent'
      BY DEF PairInv, NamedAreSpent, Allow, CloseRequest
<1> QED
      BY <1>1, <1>2, <1>3, <1>4, <1>5, <1>6, <1>7 DEF PairInv

\* Deny closes and spends.
LEMMA DenyKeepsInv ==
  ASSUME PairInv, NEW t \in Token, NEW d \in Device, NEW now \in Nat,
         Deny(t, d, now)
  PROVE  PairInv'
<1>1. PairTypeOK'
      BY DEF PairInv, PairTypeOK, Waiting, Closed, Deny, Decidable,
             CloseRequest, CloseRequests
<1>2. OneMachineLink'
      BY DEF PairInv, OneMachineLink, Unspent, Deny, CloseRequest
<1>3. UnspentInviteHasIssuer'
      BY DEF PairInv, UnspentInviteHasIssuer, Unspent, Deny, CloseRequest
<1>4. WaitingCanBeAnswered'
      BY DEF PairInv, WaitingCanBeAnswered, Waiting, Deny, CloseRequest,
             CloseRequests
<1>5. ClosedTellsTheTruth'
      BY DEF PairInv, WaitingCanBeAnswered, ClosedTellsTheTruth,
             NamedAreSpent, Deny, Decidable, CloseRequest, CloseRequests
<1>6. RequestsAreInvites'
      BY DEF PairInv, RequestsAreInvites, Waiting, Deny, Decidable,
             CloseRequest, CloseRequests
<1>7. NamedAreSpent'
      BY DEF PairInv, NamedAreSpent, Deny, CloseRequest
<1> QED
      BY <1>1, <1>2, <1>3, <1>4, <1>5, <1>6, <1>7 DEF PairInv

\* pair.cancel closes and spends.
LEMMA CancelPairRequestKeepsInv ==
  ASSUME PairInv, NEW t \in Token, NEW d \in Device, NEW now \in Nat,
         CancelPairRequest(t, d, now)
  PROVE  PairInv'
<1>1. PairTypeOK'
      BY DEF PairInv, PairTypeOK, Closed, CancelPairRequest, Cancellable,
             CloseRequest, CloseRequests
<1>2. OneMachineLink'
      BY DEF PairInv, OneMachineLink, Unspent, CancelPairRequest,
             CloseRequest
<1>3. UnspentInviteHasIssuer'
      BY DEF PairInv, UnspentInviteHasIssuer, Unspent, CancelPairRequest,
             CloseRequest
<1>4. WaitingCanBeAnswered'
      BY DEF PairInv, WaitingCanBeAnswered, Waiting, CancelPairRequest,
             CloseRequest, CloseRequests
<1>5. ClosedTellsTheTruth'
      BY DEF PairInv, WaitingCanBeAnswered, ClosedTellsTheTruth,
             NamedAreSpent, CancelPairRequest, Cancellable, CloseRequest,
             CloseRequests
<1>6. RequestsAreInvites'
      BY DEF PairInv, RequestsAreInvites, Waiting, CancelPairRequest,
             Cancellable, CloseRequest, CloseRequests
<1>7. NamedAreSpent'
      BY DEF PairInv, NamedAreSpent, CancelPairRequest, CloseRequest
<1> QED
      BY <1>1, <1>2, <1>3, <1>4, <1>5, <1>6, <1>7 DEF PairInv

\* The sweep closes every request that is due.
LEMMA ExpirePairRequestsKeepsInv ==
  ASSUME PairInv, NEW now \in Nat,
         ExpirePairRequests(now)
  PROVE  PairInv'
<1>1. PairTypeOK'
      BY DEF PairInv, PairTypeOK, Waiting, Closed, ExpirePairRequests,
             Due, CloseRequests
<1>2. OneMachineLink'
      BY DEF PairInv, OneMachineLink, Unspent, ExpirePairRequests
<1>3. UnspentInviteHasIssuer'
      BY DEF PairInv, UnspentInviteHasIssuer, Unspent, ExpirePairRequests
<1>4. WaitingCanBeAnswered'
      BY DEF PairInv, WaitingCanBeAnswered, Waiting, ExpirePairRequests,
             CloseRequests
<1>5. ClosedTellsTheTruth'
      BY DEF PairInv, WaitingCanBeAnswered, ClosedTellsTheTruth,
             NamedAreSpent, ExpirePairRequests, Due, CloseRequests
<1>6. RequestsAreInvites'
      BY DEF PairInv, RequestsAreInvites, Waiting, ExpirePairRequests,
             Due, CloseRequests
<1>7. NamedAreSpent'
      BY DEF PairInv, NamedAreSpent, ExpirePairRequests
<1> QED
      BY <1>1, <1>2, <1>3, <1>4, <1>5, <1>6, <1>7 DEF PairInv

\* Revocation closes the requests and voids the invites of the device it
\* removes, so no waiting request and no unspent invite is left without issuer.
LEMMA RevokeDeviceKeepsInv ==
  ASSUME PairInv, NEW c \in Device, NEW d \in Device, NEW now \in Nat,
         RevokeDevice(c, d, now)
  PROVE  PairInv'
<1>1. PairTypeOK'
      BY DEF PairInv, PairTypeOK, Unspent, Waiting, Closed, RevokeDevice,
             RequestsOf, RunOutLinks, CloseRequests
<1>2. OneMachineLink'
      BY DEF PairInv, OneMachineLink, Unspent, RevokeDevice
<1>3. UnspentInviteHasIssuer'
      BY DEF PairInv, UnspentInviteHasIssuer, Unspent, RevokeDevice
<1>4. WaitingCanBeAnswered'
      BY DEF PairInv, WaitingCanBeAnswered, Waiting, RevokeDevice,
             RequestsOf, RunOutLinks, CloseRequests
<1>5. ClosedTellsTheTruth'
      BY DEF PairInv, WaitingCanBeAnswered, ClosedTellsTheTruth,
             NamedAreSpent, RevokeDevice, RequestsOf, CloseRequests
<1>6. RequestsAreInvites'
      BY DEF PairInv, RequestsAreInvites, Waiting, RevokeDevice,
             RequestsOf, CloseRequests
<1>7. NamedAreSpent'
      BY DEF PairInv, NamedAreSpent, RevokeDevice
<1> QED
      BY <1>1, <1>2, <1>3, <1>4, <1>5, <1>6, <1>7 DEF PairInv

\* A rekey leaves no token, request or device.
LEMMA RekeyServerIdentityKeepsInv ==
  ASSUME PairInv,
         RekeyServerIdentity
  PROVE  PairInv'
<1>1. PairTypeOK'
      BY DEF PairInv, PairTypeOK, RekeyServerIdentity
<1>2. OneMachineLink'
      BY DEF PairInv, OneMachineLink, Unspent, RekeyServerIdentity
<1>3. UnspentInviteHasIssuer'
      BY DEF PairInv, UnspentInviteHasIssuer, Unspent, RekeyServerIdentity
<1>4. WaitingCanBeAnswered'
      BY DEF PairInv, WaitingCanBeAnswered, Waiting, RekeyServerIdentity
<1>5. ClosedTellsTheTruth'
      BY DEF PairInv, ClosedTellsTheTruth, Closed, RekeyServerIdentity
<1>6. RequestsAreInvites'
      BY DEF PairInv, RequestsAreInvites, RekeyServerIdentity
<1>7. NamedAreSpent'
      BY DEF PairInv, NamedAreSpent, RekeyServerIdentity
<1> QED
      BY <1>1, <1>2, <1>3, <1>4, <1>5, <1>6, <1>7 DEF PairInv

(***************************************************************************)
(* The invariant                                                           *)
(***************************************************************************)

\* The empty store satisfies the invariant.
THEOREM PairInitially == PairInit => PairInv
BY PairStoreAssumption DEF PairInit, PairInv, PairTypeOK, OneMachineLink, Unspent,
   UnspentInviteHasIssuer, WaitingCanBeAnswered, Waiting, ClosedTellsTheTruth,
   Closed, RequestsAreInvites, NamedAreSpent

\* Every operation of the store, late or not, preserves the invariant.
THEOREM PairInductive == PairInv /\ [PairNext]_pairVars => PairInv'
<1> SUFFICES ASSUME PairInv, [PairNext]_pairVars
             PROVE  PairInv'
  OBVIOUS
<1>0. Recent \subseteq Nat
  BY DEF PairInv, PairTypeOK, Recent
<1>1. CASE Tick
  BY <1>1, TickKeepsInv
<1>2. CASE RekeyServerIdentity
  BY <1>2, RekeyServerIdentityKeepsInv
<1>3. CASE \E p \in Page : PageReads(p)
  BY <1>3, PageReadsKeepsInv
<1>4. ASSUME NEW now \in Recent, ExpirePairRequests(now)
      PROVE  PairInv'
  BY <1>0, <1>4, ExpirePairRequestsKeepsInv
<1>5. ASSUME NEW now \in Recent, NEW c \in Device, NEW d \in Device,
             RevokeDevice(c, d, now)
      PROVE  PairInv'
  BY <1>0, <1>5, RevokeDeviceKeepsInv
<1>6. ASSUME NEW now \in Recent, NEW t \in Token, AtTheMachine(t, now)
      PROVE  PairInv'
  BY <1>0, <1>6, IssueMachineLinkKeepsInv, PageMintsKeepsInv DEF AtTheMachine
<1>7. ASSUME NEW now \in Recent, NEW t \in Token, NEW d \in Device,
             ByDevice(t, d, now)
      PROVE  PairInv'
  <2>1. CASE PairByMachineLink(t, d, now)
    BY <1>0, <2>1, PairByMachineLinkKeepsInv
  <2>2. CASE IssueDeviceInvite(t, d, now)
    BY <1>0, <2>2, IssueDeviceInviteKeepsInv
  <2>3. CASE OpenRequest(t, d, now)
    BY <1>0, <2>3, OpenRequestKeepsInv
  <2>4. CASE RepeatFindsExpired(t, d, now)
    BY <1>0, <2>4, RepeatFindsExpiredKeepsInv
  <2>5. CASE Allow(t, d, now)
    BY <1>0, <2>5, AllowKeepsInv
  <2>6. CASE Deny(t, d, now)
    BY <1>0, <2>6, DenyKeepsInv
  <2>7. CASE CancelPairRequest(t, d, now)
    BY <1>0, <2>7, CancelPairRequestKeepsInv
  <2> QED
    BY <1>7, <2>1, <2>2, <2>3, <2>4, <2>5, <2>6, <2>7 DEF ByDevice
<1>8. CASE UNCHANGED pairVars
  BY <1>8 DEF PairInv, PairTypeOK, OneMachineLink, Unspent, UnspentInviteHasIssuer,
     WaitingCanBeAnswered, Waiting, ClosedTellsTheTruth, RequestsAreInvites,
     NamedAreSpent, pairVars, tokenVars, requestVars
<1> QED
  BY <1>1, <1>2, <1>3, <1>4, <1>5, <1>6, <1>7, <1>8 DEF PairNext

\* The invariant holds in every state of every behaviour.
THEOREM PairInvariant == PairSpec => []PairInv
BY PairInitially, PairInductive, PTL DEF PairSpec

\* Every column keeps its type, an invite its issuer and a request its device,
\* for any devices, tokens and page loads and any lag of the writer.
THEOREM PairTypeCorrect == PairSpec => []PairTypeOK
<1>1. PairInv => PairTypeOK
  BY DEF PairInv
<1> QED BY <1>1, PairInvariant, PTL

\* There is never a second unspent machine link.
THEOREM OneMachineLinkAlways == PairSpec => []OneMachineLink
<1>1. PairInv => OneMachineLink
  BY DEF PairInv
<1> QED BY <1>1, PairInvariant, PTL

\* A revoked device leaves no unspent invite behind.
THEOREM UnspentInviteHasIssuerAlways == PairSpec => []UnspentInviteHasIssuer
<1>1. PairInv => UnspentInviteHasIssuer
  BY DEF PairInv
<1> QED BY <1>1, PairInvariant, PTL

\* A request that waits can always be answered by the device it is addressed to.
THEOREM WaitingCanBeAnsweredAlways == PairSpec => []WaitingCanBeAnswered
<1>1. PairInv => WaitingCanBeAnswered
  BY DEF PairInv
<1> QED BY <1>1, PairInvariant, PTL

\* A closed request's invite is spent by the device that asked, and names the
\* person exactly when the answer was Allow.
THEOREM ClosedTellsTheTruthAlways == PairSpec => []ClosedTellsTheTruth
<1>1. PairInv => ClosedTellsTheTruth
  BY DEF PairInv
<1> QED BY <1>1, PairInvariant, PTL

(***************************************************************************)
(* What a step may never do                                                *)
(***************************************************************************)

\* The operations that let nobody in: the set of paired devices only shrinks.
LEMMA NobodyElseJoins ==
  ASSUME PairInv, [PairNext]_pairVars,
         ~ \E now \in Recent, t \in Token, d \in Device :
             PairByMachineLink(t, d, now) \/ Allow(t, d, now)
  PROVE  paired' \subseteq paired
<1>1. CASE Tick \/ RekeyServerIdentity \/ (\E p \in Page : PageReads(p))
  BY <1>1 DEF Tick, RekeyServerIdentity, PageReads
<1>2. ASSUME NEW now \in Recent,
             ExpirePairRequests(now) \/ \E c, d \in Device : RevokeDevice(c, d, now)
      PROVE  paired' \subseteq paired
  BY <1>2 DEF ExpirePairRequests, RevokeDevice
<1>3. ASSUME NEW now \in Recent, NEW t \in Token, AtTheMachine(t, now)
      PROVE  paired' \subseteq paired
  BY <1>3 DEF AtTheMachine, IssueMachineLink, PageMints
<1>4. ASSUME NEW now \in Recent, NEW t \in Token, NEW d \in Device,
             ByDevice(t, d, now)
      PROVE  paired' \subseteq paired
  BY <1>4 DEF ByDevice, IssueDeviceInvite, OpenRequest, RepeatFindsExpired, Deny,
     CancelPairRequest
<1>5. CASE UNCHANGED pairVars
  BY <1>5 DEF pairVars
<1> QED
  BY <1>1, <1>2, <1>3, <1>4, <1>5 DEF PairNext

\* A device joins only by spending a machine link, or an invite that its paired
\* issuer allows, and each token lets in one device once.
THEOREM JoinsByConsentAlways == PairSpec => JoinsByConsent
<1>1. ASSUME PairInv, [PairNext]_pairVars, NEW d \in paired' \ paired
      PROVE  \E t \in Token : JoinsWith(d, t)
  <2>1. PICK now \in Recent, t \in Token, e \in Device :
          PairByMachineLink(t, e, now) \/ Allow(t, e, now)
    BY <1>1, NobodyElseJoins
  <2>2. CASE PairByMachineLink(t, e, now)
    <3>1. d = e
      BY <1>1, <2>2 DEF PairByMachineLink
    <3> QED
      BY <1>1, <2>2, <3>1
      DEF PairByMachineLink, Usable, JoinsWith, PairInv, PairTypeOK
  <2>3. CASE Allow(t, e, now)
    <3>1. d = asker[t]
      BY <1>1, <2>3 DEF Allow
    <3> QED
      BY <1>1, <2>3, <3>1
      DEF Allow, Decidable, CloseRequest, CloseRequests, JoinsWith, PairInv, PairTypeOK
  <2> QED BY <2>1, <2>2, <2>3
<1>2. PairInv /\ [PairNext]_pairVars
      => [\A d \in paired' \ paired : \E t \in Token : JoinsWith(d, t)]_pairVars
  BY <1>1
<1> QED BY <1>2, PairInvariant, PTL DEF PairSpec, JoinsByConsent

\* A closed request keeps its outcome, whoever comes late.
THEOREM ClosesOnceAlways == PairSpec => ClosesOnce
<1>1. ASSUME PairInv, [PairNext]_pairVars, NEW t \in Token,
             outcome[t] \in Closed, kind'[t] # "gone"
      PROVE  outcome'[t] = outcome[t]
  <2>1. ~Waiting(t) /\ kind[t] = "invite" /\ outcome[t] # "none"
    BY <1>1 DEF PairInv, RequestsAreInvites, Waiting, Closed
  <2>2. CASE Tick \/ RekeyServerIdentity \/ (\E p \in Page : PageReads(p))
    BY <1>1, <2>1, <2>2 DEF Tick, RekeyServerIdentity, PageReads, requestVars
  <2>3. ASSUME NEW now \in Recent,
               ExpirePairRequests(now) \/ \E c, d \in Device : RevokeDevice(c, d, now)
        PROVE  outcome'[t] = outcome[t]
    BY <2>1, <2>3 DEF ExpirePairRequests, RevokeDevice, CloseRequests, Due, RequestsOf
  <2>4. ASSUME NEW now \in Recent, NEW u \in Token, AtTheMachine(u, now)
        PROVE  outcome'[t] = outcome[t]
    BY <2>4 DEF AtTheMachine, IssueMachineLink, PageMints, requestVars
  <2>5. ASSUME NEW now \in Recent, NEW u \in Token, NEW d \in Device,
               ByDevice(u, d, now)
        PROVE  outcome'[t] = outcome[t]
    <3>1. CASE PairByMachineLink(u, d, now) \/ IssueDeviceInvite(u, d, now)
      BY <3>1 DEF PairByMachineLink, IssueDeviceInvite, requestVars
    <3>2. CASE OpenRequest(u, d, now)
      BY <1>1, <2>1, <3>2 DEF OpenRequest, PairInv, PairTypeOK
    <3>3. CASE RepeatFindsExpired(u, d, now) \/ Allow(u, d, now) \/ Deny(u, d, now)
               \/ CancelPairRequest(u, d, now)
      BY <2>1, <3>3 DEF RepeatFindsExpired, Allow, Deny, Decidable,
         CancelPairRequest, Cancellable, CloseRequest, CloseRequests
    <3> QED BY <2>5, <3>1, <3>2, <3>3 DEF ByDevice
  <2>6. CASE UNCHANGED pairVars
    BY <2>6 DEF pairVars, requestVars
  <2> QED
    BY <1>1, <2>2, <2>3, <2>4, <2>5, <2>6 DEF PairNext
<1>2. PairInv /\ [PairNext]_pairVars
      => [\A t \in Token : outcome[t] \in Closed /\ kind'[t] # "gone"
                           => outcome'[t] = outcome[t]]_pairVars
  BY <1>1
<1> QED BY <1>2, PairInvariant, PTL DEF PairSpec, ClosesOnce

\* A page load spends no machine link, however late it mints.
THEOREM PageReplacesNothingAlways == PairSpec => PageReplacesNothing
<1>1. ASSUME PairInv, [PairNext]_pairVars, NEW p \in Page,
             page[p] = "minting", page'[p] = "idle"
      PROVE  Unspent("machine") \cap spent' = {}
  <2>1. ASSUME UNCHANGED page
        PROVE  FALSE
    BY <1>1, <2>1
  <2>2. CASE RekeyServerIdentity
    BY <2>2 DEF RekeyServerIdentity
  <2>3. ASSUME NEW q \in Page, NEW t \in Token, NEW now \in Recent,
               PageMints(q, t, now)
        PROVE  Unspent("machine") \cap spent' = {}
    BY <2>3 DEF PageMints, NothingToShow, insertMachineLink, Unspent, tokenVars
  <2>4. ASSUME NEW q \in Page, PageReads(q)
        PROVE  FALSE
    BY <1>1, <2>4 DEF PageReads, PairInv, PairTypeOK
  <2>5. ASSUME NEW now \in Recent,
               ExpirePairRequests(now) \/ \E c, d \in Device : RevokeDevice(c, d, now)
        PROVE  UNCHANGED page
    BY <2>5 DEF ExpirePairRequests, RevokeDevice
  <2>6. ASSUME NEW now \in Recent, NEW t \in Token, NEW d \in Device,
               ByDevice(t, d, now)
        PROVE  UNCHANGED page
    BY <2>6 DEF ByDevice, PairByMachineLink, IssueDeviceInvite,
       OpenRequest, RepeatFindsExpired, Allow, Deny, CancelPairRequest, CloseRequest
  <2>7. ASSUME NEW now \in Recent, NEW t \in Token, IssueMachineLink(t, now)
        PROVE  UNCHANGED page
    BY <2>7 DEF IssueMachineLink
  <2>8. CASE Tick \/ UNCHANGED pairVars
    BY <2>1, <2>8 DEF Tick, pairVars
  <2> QED
    BY <1>1, <2>1, <2>2, <2>3, <2>4, <2>5, <2>6, <2>7, <2>8
    DEF PairNext, AtTheMachine
<1>2. PairInv /\ [PairNext]_pairVars
      => [\A p \in Page : page[p] = "minting" /\ page'[p] = "idle"
                          => Unspent("machine") \cap spent' = {}]_pairVars
  BY <1>1
<1> QED BY <1>2, PairInvariant, PTL DEF PairSpec, PageReplacesNothing
=============================================================================
