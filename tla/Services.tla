------------------------------ MODULE Services ------------------------------
(***************************************************************************)
(* The parts of the process around its controllers, none of which touches  *)
(* the state of another: the audit log and its writer, the breaker's       *)
(* exported operations, the metrics store, the prices, the settings, the   *)
(* alerts and their channels, the locks and drains of nodes, the pools of  *)
(* the clouds, and what the pages and the purger delete.  A behaviour is   *)
(* one of one part, the focus, while the others rest: every part is        *)
(* checked by itself, and all of them together by one model checker's run. *)
(***************************************************************************)
EXTENDS AuditLog, BreakerOps, MetricsStore, Pricing, Settings, Alerts,
        Channels, Drains, CloudPools, Cleanup, Disruption

VARIABLE focus

services ==
  <<focus, allVars, opsVars, storeVars, pricingVars, settingsVars, alertsVars,
    channelsVars, drainsVars, poolVars, cleanupVars, disruptionVars>>

Parts == {"audit", "breaker", "store", "prices", "settings", "alerts", "channels",
          "drains", "pools", "cleanup", "budgets"}

\* A part starts in any of its states when the focus is on it, and in one of them
\* otherwise.
ServicesInit ==
  /\ focus \in Parts
  /\ AuditInit /\ OpsInit /\ StoreInit /\ PricingInit /\ SettingsInit /\ AlertsInit
  /\ ChannelsInit /\ DrainsInit /\ CleanupInit /\ DisruptionInit
  /\ CloudPoolsInit
  /\ focus # "pools" =>
       pool = [vendor |-> "gcp", auto |-> FALSE, min |-> 0, max |-> 0, count |-> 0,
               zones |-> 1, unit |-> "zone"]
  /\ focus # "cleanup" => purger.on

ServicesNext ==
  /\ \/ focus = "audit" /\ AuditNext
     \/ focus = "breaker" /\ OpsNext
     \/ focus = "store" /\ StoreNext
     \/ focus = "prices" /\ PricingNext
     \/ focus = "settings" /\ SettingsNext
     \/ focus = "alerts" /\ AlertsNext
     \/ focus = "channels" /\ ChannelsNext
     \/ focus = "drains" /\ DrainsNext
     \/ focus = "pools" /\ CloudPoolsNext
     \/ focus = "cleanup" /\ CleanupNext
     \/ focus = "budgets" /\ DisruptionNext
  /\ IF focus = "audit" THEN TRUE ELSE UNCHANGED allVars
  /\ IF focus = "breaker" THEN TRUE ELSE UNCHANGED opsVars
  /\ IF focus = "store" THEN TRUE ELSE UNCHANGED storeVars
  /\ IF focus = "prices" THEN TRUE ELSE UNCHANGED pricingVars
  /\ IF focus = "settings" THEN TRUE ELSE UNCHANGED settingsVars
  /\ IF focus = "alerts" THEN TRUE ELSE UNCHANGED alertsVars
  /\ IF focus = "channels" THEN TRUE ELSE UNCHANGED channelsVars
  /\ IF focus = "drains" THEN TRUE ELSE UNCHANGED drainsVars
  /\ IF focus = "pools" THEN TRUE ELSE UNCHANGED poolVars
  /\ IF focus = "cleanup" THEN TRUE ELSE UNCHANGED cleanupVars
  /\ IF focus = "budgets" THEN TRUE ELSE UNCHANGED disruptionVars
  /\ UNCHANGED focus

\* The audit log's writer: the fairness of AsyncWriter, while it is in focus.
AuditFairness ==
  /\ WF_vars(focus = "audit" /\ ConsumerStep)
  /\ \A d \in Drainers :
       /\ WF_vars(focus = "audit" /\ CloseChannel(d))
       /\ WF_vars(focus = "audit" /\ Return(d))
  /\ WF_vars(focus = "audit" /\ DrainStep(Shutdown))
  /\ WF_vars(focus = "audit" /\ CloseDB)

\* The spot controller's cycles go on and end, a disruption budget recovers
\* when the evicted pod is ready elsewhere, and an eviction that is possible
\* again and again is not for ever refused.
DrainsFairness ==
  /\ WF_drainsVars(focus = "drains" /\ StartDrain)
  /\ WF_drainsVars(focus = "drains" /\ EndDrain)
  /\ WF_drainsVars(focus = "drains" /\ BudgetReturns)
  /\ WF_drainsVars(focus = "drains" /\ \E p \in DrainPods : DrainNext(p))
  /\ \A p \in DrainPods : SF_drainsVars(focus = "drains" /\ DrainEvicts(p))

\* The refreshes and the purger's cycles go on, pods age, a deleted pod ends when
\* its grace period does, and a deletion that is tried again and again succeeds in
\* the end.
CleanupFairness ==
  /\ WF_cleanupVars(focus = "cleanup" /\ ListPods)
  /\ WF_cleanupVars(focus = "cleanup" /\ PublishPods)
  /\ WF_cleanupVars(focus = "cleanup" /\ StartPurge)
  /\ WF_cleanupVars(focus = "cleanup" /\ PurgeDoomed)
  /\ WF_cleanupVars(focus = "cleanup" /\ EndPod)
  /\ WF_cleanupVars(focus = "cleanup" /\ \E p \in pods : PodAges(p))
  /\ \A n \in Names : SF_cleanupVars(focus = "cleanup" /\ PurgeNamed(n))

ServicesSpec ==
  /\ ServicesInit /\ [][ServicesNext]_services
  /\ AuditFairness /\ DrainsFairness /\ CleanupFairness

\* All parts keep their types, and with them their bounds: the ring, the channel,
\* the windows and the lists never outgrow their capacities.
ServicesTypeOK ==
  /\ AuditTypeOK /\ StoreTypeOK /\ PricingTypeOK /\ SettingsTypeOK /\ AlertsTypeOK
  /\ ChannelsTypeOK /\ DrainsTypeOK /\ CloudPoolsTypeOK /\ CleanupTypeOK
  /\ DisruptionTypeOK

=============================================================================
