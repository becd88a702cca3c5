----------------------------- MODULE MCRecords -----------------------------
(***************************************************************************)
(* The instance TLC checks of the components of the backend whose state is *)
(* a row, or a few, that several requests read and write back.  As in      *)
(* MCWorkers they share no state and are taken one at a time: part is the  *)
(* one that moves, the others stay in one initial state.                   *)
(***************************************************************************)
EXTENDS Retention, KnowledgeBase, Credentials, TeamsConnection, NotificationInteraction,
        RateLimiter, Slo, Catalogue, TLC

CONSTANTS i1, e1, run1

VARIABLE part

vars == <<part, retentionVars, kbVars, leaseVars, teamsVars, interactionVars, rateVars, sloVars,
          catalogueVars>>

MCOwner == e1 :> i1 @@ run1 :> i1
MCBodies == {"model" :> 1, "secret" :> 2, "tenant" :> 3 @@ "secret" :> 3, "key" :> 4 @@ "secret" :> 4}
MCPresses ==
    <<[by |-> "slack", action |-> "acknowledge", token |-> TRUE],
      [by |-> "teams", action |-> "resolve", token |-> FALSE],
      [by |-> "slack", action |-> "view_rca", token |-> TRUE],
      [by |-> "slack", action |-> "snooze", token |-> TRUE]>>

\* Which of the requests for a lease is which does not matter.
MCSymmetry == Permutations(LeaseRequests)

RecordsInit ==
    /\ part \in {"retention", "knowledge", "leases", "teams", "interaction", "rate", "slo", "catalogue"}
    /\ RetentionInit
    /\ KbInit /\ (part # "knowledge" => semantic)
    /\ LeasesInit /\ providerType = "azure_aks_jit" /\ credential = [default |-> 0, cap |-> 0]
    /\ TeamsInit /\ (part # "teams" => org["tenant"] = 0)
    /\ InteractionInit /\ (part # "interaction" => channel = "slack")
    /\ RateInit
    /\ SloInit /\ (part # "slo" => target = 50)
    /\ CatalogueInit /\ (part # "catalogue" => family = "software")

RecordsNext ==
    /\ UNCHANGED part
    /\ \/ /\ part = "retention" /\ RetentionNext
          /\ UNCHANGED <<kbVars, leaseVars, teamsVars, interactionVars, rateVars,
                        sloVars, catalogueVars>>
       \/ /\ part = "knowledge" /\ KbNext
          /\ UNCHANGED <<retentionVars, leaseVars, teamsVars, interactionVars, rateVars,
                        sloVars, catalogueVars>>
       \/ /\ part = "leases" /\ LeasesNext
          /\ UNCHANGED <<retentionVars, kbVars, teamsVars, interactionVars, rateVars,
                        sloVars, catalogueVars>>
       \/ /\ part = "teams" /\ TeamsNext
          /\ UNCHANGED <<retentionVars, kbVars, leaseVars, interactionVars, rateVars,
                        sloVars, catalogueVars>>
       \/ /\ part = "interaction" /\ InteractionNext
          /\ UNCHANGED <<retentionVars, kbVars, leaseVars, teamsVars, rateVars,
                        sloVars, catalogueVars>>
       \/ /\ part = "rate" /\ RateNext
          /\ UNCHANGED <<retentionVars, kbVars, leaseVars, teamsVars, interactionVars,
                        sloVars, catalogueVars>>
       \/ /\ part = "slo" /\ SloNext
          /\ UNCHANGED <<retentionVars, kbVars, leaseVars, teamsVars, interactionVars,
                        rateVars, catalogueVars>>
       \/ /\ part = "catalogue" /\ CatalogueNext
          /\ UNCHANGED <<retentionVars, kbVars, leaseVars, teamsVars, interactionVars,
                        rateVars, sloVars>>

RecordsSpec == RecordsInit /\ [][RecordsNext]_vars

RecordsTypeOK ==
    /\ RetentionTypeOK /\ KbTypeOK /\ LeasesTypeOK /\ TeamsTypeOK /\ InteractionTypeOK /\ RateTypeOK
    /\ SloTypeOK /\ CatalogueTypeOK
============================================================================
