---------------------------- MODULE PushDecision ----------------------------
(***************************************************************************)
(* What makes a push worth an incident: the pure functions of the c2       *)
(* directory that processPushWebhook calls one after the other, on an      *)
(* authenticated request, the policies it is given and what the repository *)
(* holds at the two commits of the push.                                   *)
(*                                                                         *)
(* Abstractions.  A request or a policy is a record of the facts that are  *)
(* compared; the checks of its shape (headers, UTF-8, JSON, GUID, digests, *)
(* title, fingerprint, TTL, timestamps) are one flag.  A commit names its  *)
(* content: content[c] is the digest of the file at the policy's path in   *)
(* commit c, or Absent.  Fixture policies are refused, as in the           *)
(* maintained runtime.                                                     *)
(***************************************************************************)

CONSTANTS
  C2_PUSH_REPOSITORY, \* the frozen repository
  C2_PUSH_REF,        \* the frozen branch
  Repository, Ref,    \* those, and what else a request may name
  Sha, ZERO_SHA,      \* commit ids, and forty zeros among them
  Digest, Absent,     \* SHA-256 of contents, and no file
  PolicyId, Version,
  None

ASSUME FrozenAssumption == C2_PUSH_REPOSITORY \in Repository /\ C2_PUSH_REF \in Ref
ASSUME ShaAssumption == ZERO_SHA \in Sha
ASSUME AbsentAssumption == Absent \notin Digest

Request ==
  [authentic : BOOLEAN, \* the signature is that of the body
   push : BOOLEAN, wellFormed : BOOLEAN,
   repository : Repository, ref : Ref,
   deleted : BOOLEAN, created : BOOLEAN, forced : BOOLEAN,
   before : Sha, after : Sha]

C2PushPolicyV2 ==
  [policy_id : PolicyId, policy_version : Version,
   repository : Repository, ref : Ref,
   sound : BOOLEAN,      \* every other field is valid
   live : BOOLEAN,       \* LIVE_PROVENANCE
   enabled : BOOLEAN,
   digest : Digest]      \* expected_private_material_sha256

ASSUME PolicyAssumption == None \notin C2PushPolicyV2

\* The request yields an event; any other is answered with an error.
normalizeVerifiedPushEvent(q) ==
  /\ q.authentic /\ q.push /\ q.wellFormed
  /\ q.repository = C2_PUSH_REPOSITORY
  /\ q.ref = C2_PUSH_REF
  /\ ~q.deleted
  /\ q.after # ZERO_SHA

----------------------------------------------------------------------------
(* The policy                                                               *)

\* valid, with requireLiveProvenance
validateC2PushPolicyV2(p) ==
  /\ p.sound /\ p.live
  /\ p.repository = C2_PUSH_REPOSITORY
  /\ p.ref = C2_PUSH_REF

Matching(event, policies) ==
  {p \in policies : p.repository = event.repository /\ p.ref = event.ref}

NonRetired(event, policies, retired) ==
  {p \in Matching(event, policies) : p.policy_id \notin retired}

Usable(event, policies, retired) ==
  {p \in NonRetired(event, policies, retired) : p.enabled /\ validateC2PushPolicyV2(p)}

\* Two versions of one policy, whatever they say, are nobody's authority.
DuplicateIdentity(event, policies, retired) ==
  \E p, r \in NonRetired(event, policies, retired) : p # r /\ p.policy_id = r.policy_id

Ambiguous(event, policies, retired) ==
  \/ DuplicateIdentity(event, policies, retired)
  \/ \E p, r \in Usable(event, policies, retired) : p # r

\* The kind of the lookup's result; "MATCH" comes with the only usable policy.
lookupPreExistingPushPolicy(event, policies, retired) ==
  IF Matching(event, policies) = {} THEN "NO_MATCH"
  ELSE IF Ambiguous(event, policies, retired) THEN "AMBIGUOUS"
  ELSE IF Usable(event, policies, retired) # {} THEN "MATCH"
  ELSE IF \A p \in Matching(event, policies) : p.policy_id \notin retired /\ p.enabled
  THEN "NO_MATCH" ELSE "DISABLED"

LookupRejection ==
  [NO_MATCH  |-> "C2_PUSH_NO_MATCHING_POLICY",
   AMBIGUOUS |-> "C2_PUSH_POLICY_AMBIGUOUS",
   DISABLED  |-> "C2_PUSH_POLICY_DISABLED"]

----------------------------------------------------------------------------
(* The event                                                                *)

\* The policy itself was looked up for this event.
assertPushAuthorityEligible(event) ==
  /\ ~event.created /\ ~event.forced /\ ~event.deleted
  /\ event.before # ZERO_SHA /\ event.after # ZERO_SHA
  /\ event.before # event.after

\* What one GET of the path at a commit says: 404, or 200 and a digest.
ImmutablePathObservation == [commit_sha : Sha, content : Digest \cup {Absent}]

readImmutableContent(content, commit) == [commit_sha |-> commit, content |-> content[commit]]

\* Mutant of verifyPushSecretTransition: the state before the push is not
\* looked at.
AfterHoldsSecret(before, after, event, policy) ==
  IF after.content = policy.digest THEN "CAUSAL_SECRET_INTRODUCED" ELSE "AFTER_DIGEST_MISMATCH"

verifyPushSecretTransition(before, after, event, policy) ==
  IF before.commit_sha # event.before \/ after.commit_sha # event.after
  THEN "TARGET_POLICY_MISMATCH"
  ELSE IF after.content = Absent THEN "AFTER_MISSING"
  ELSE IF after.content # policy.digest THEN "AFTER_DIGEST_MISMATCH"
  ELSE IF before.content = policy.digest THEN "SECRET_ALREADY_PRESENT_BEFORE"
  ELSE "CAUSAL_SECRET_INTRODUCED"

\* The create request is derived, or the boundary error is thrown.
derivePushC1CreateRequest(event, policy, transition) ==
  /\ validateC2PushPolicyV2(policy) /\ policy.enabled
  /\ event.repository = C2_PUSH_REPOSITORY /\ event.ref = C2_PUSH_REF /\ ~event.deleted
  /\ transition = "CAUSAL_SECRET_INTRODUCED"
=============================================================================
