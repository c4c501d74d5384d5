------------------------------ MODULE Sidechains ------------------------------
(***************************************************************************)
(* The SidechainManager (src/layer2_solutions/sidechains/                  *)
(* sidechain_manager.py), the ValidatorBridge (validator_bridge.py) and    *)
(* the AuthorityManager (poa/authority_manager.py).                        *)
(*                                                                         *)
(* create_sidechain stores the caller's initial_validators list itself, and *)
(* add_validator and remove_validator change it in place, so the lists are *)
(* a heap: vlists is the sequence of validator lists the caller has built  *)
(* and a sidechain's "validators" is an index into it.  The name, the      *)
(* consensus string and created_at are left out.  The bridge's validator   *)
(* states and the authority metadata are model values.                     *)
(***************************************************************************)
EXTENDS Integers, SequencesExt

CONSTANTS
    Validators,      \* validator addresses
    ValidatorLists,  \* initial_validators lists a caller builds
    ChainIds,        \* chain ids a caller passes to the bridge
    States,          \* validator state dicts passed to the bridge
    Metadata,        \* metadata dicts passed to the authority manager
    MaxChains        \* bound on the sidechains created

VARIABLES sidechains, next_chain_id, vlists,
          validator_states, authorized_validators

manager_vars == <<sidechains, next_chain_id, vlists>>
vars == <<manager_vars, validator_states, authorized_validators>>

Init ==
    /\ sidechains = <<>>
    /\ next_chain_id = 1
    /\ vlists = <<>>
    /\ validator_states = <<>>
    /\ authorized_validators = <<>>

\* create_sidechain with list l: chain_id = next_chain_id, which is then
\* incremented; the record holds the list itself and is active.
CreateSidechainWith(l) ==
    /\ next_chain_id <= MaxChains
    /\ sidechains' = (next_chain_id :> [validators |-> l, active |-> TRUE]) @@ sidechains
    /\ next_chain_id' = next_chain_id + 1

\* The caller builds a new list for the call.
CreateSidechainNewList(vl) ==
    /\ vlists' = Append(vlists, vl)
    /\ CreateSidechainWith(Len(vlists'))
    /\ UNCHANGED <<validator_states, authorized_validators>>

\* The caller passes a list it passed before.
CreateSidechainSameList(l) ==
    /\ CreateSidechainWith(l)
    /\ UNCHANGED <<vlists, validator_states, authorized_validators>>

\* deactivate_sidechain: False for an unknown id; otherwise active = False.
DeactivateSidechain(cid) ==
    /\ cid \in DOMAIN sidechains
    /\ sidechains' = [sidechains EXCEPT ![cid].active = FALSE]
    /\ UNCHANGED <<next_chain_id, vlists, validator_states, authorized_validators>>

\* add_validator: False for an unknown id or a validator already in the
\* list; otherwise append.  Whether the chain is active is not checked.
AddValidator(cid, v) ==
    /\ cid \in DOMAIN sidechains
    /\ ~Contains(vlists[sidechains[cid].validators], v)
    /\ vlists' = [vlists EXCEPT ![sidechains[cid].validators] = Append(@, v)]
    /\ UNCHANGED <<sidechains, next_chain_id, validator_states, authorized_validators>>

\* remove_validator: False for an unknown id or a validator not in the
\* list; otherwise list.remove, which drops the first occurrence.
RemoveValidator(cid, v) ==
    /\ cid \in DOMAIN sidechains
    /\ Contains(vlists[sidechains[cid].validators], v)
    /\ vlists' = [vlists EXCEPT ![sidechains[cid].validators] = RemoveFirst(@, v)]
    /\ UNCHANGED <<sidechains, next_chain_id, validator_states, authorized_validators>>

\* ValidatorBridge.register_validator: the chain's dict is created first,
\* even when the call then returns False for an address already there.
RegisterValidator(cid, v, st) ==
    LET states == IF cid \in DOMAIN validator_states
                  THEN validator_states ELSE (cid :> <<>>) @@ validator_states
    IN  /\ validator_states' =
             IF v \in DOMAIN states[cid] THEN states
             ELSE [states EXCEPT ![cid] = (v :> st) @@ @]
        /\ UNCHANGED <<manager_vars, authorized_validators>>

\* ValidatorBridge.update_validator_state: False unless registered.
UpdateValidatorState(cid, v, st) ==
    /\ cid \in DOMAIN validator_states
    /\ v \in DOMAIN validator_states[cid]
    /\ validator_states' = [validator_states EXCEPT ![cid][v] = st]
    /\ UNCHANGED <<manager_vars, authorized_validators>>

\* AuthorityManager.add_validator: False for an address already there.
AuthorizeValidator(v, md) ==
    /\ v \notin DOMAIN authorized_validators
    /\ authorized_validators' = (v :> md) @@ authorized_validators
    /\ UNCHANGED <<manager_vars, validator_states>>

\* AuthorityManager.remove_validator: False for an unknown address.
RevokeValidator(v) ==
    /\ v \in DOMAIN authorized_validators
    /\ authorized_validators' = Restrict(authorized_validators,
                                         DOMAIN authorized_validators \ {v})
    /\ UNCHANGED <<manager_vars, validator_states>>

\* AuthorityManager.update_validator_metadata: False for an unknown address.
UpdateValidatorMetadata(v, md) ==
    /\ v \in DOMAIN authorized_validators
    /\ authorized_validators' = [authorized_validators EXCEPT ![v] = md]
    /\ UNCHANGED <<manager_vars, validator_states>>

Next ==
    \/ \E vl \in ValidatorLists : CreateSidechainNewList(vl)
    \/ \E l \in DOMAIN vlists : CreateSidechainSameList(l)
    \/ \E cid \in DOMAIN sidechains : DeactivateSidechain(cid)
    \/ \E cid \in DOMAIN sidechains, v \in Validators :
          AddValidator(cid, v) \/ RemoveValidator(cid, v)
    \/ \E cid \in ChainIds, v \in Validators, st \in States :
          RegisterValidator(cid, v, st) \/ UpdateValidatorState(cid, v, st)
    \/ \E v \in Validators, md \in Metadata :
          AuthorizeValidator(v, md) \/ UpdateValidatorMetadata(v, md)
    \/ \E v \in Validators : RevokeValidator(v)

Spec == Init /\ [][Next]_vars

-----------------------------------------------------------------------------
(* Properties                                                              *)

TypeOK ==
    /\ DOMAIN sidechains = 1 .. next_chain_id - 1
    /\ \A cid \in DOMAIN sidechains :
         /\ sidechains[cid].validators \in DOMAIN vlists
         /\ sidechains[cid].active \in BOOLEAN
    /\ \A l \in DOMAIN vlists : vlists[l] \in Seq(Validators)
    /\ DOMAIN validator_states \subseteq ChainIds
    /\ \A cid \in DOMAIN validator_states :
         DOMAIN validator_states[cid] \subseteq Validators
    /\ DOMAIN authorized_validators \subseteq Validators

\* A sidechain's validator set changes only through a call naming that
\* sidechain: an add or remove on one chain leaves every other chain's
\* validators as they were.
ChainsIsolated ==
    [][\A c1, c2 \in DOMAIN sidechains :
         c1 /= c2 /\ vlists'[sidechains[c1].validators] /= vlists[sidechains[c1].validators]
         => vlists'[sidechains[c2].validators] = vlists[sidechains[c2].validators]]_vars
==============================================================================
