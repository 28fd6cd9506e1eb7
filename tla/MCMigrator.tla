----------------------------- MODULE MCMigrator -----------------------------
(* A subnet, a workload that can be migrated, a cron job and a job, and a service. *)
EXTENDS Migrator

MCKind(k) == CASE k = "web" -> "Deployment" [] k = "tick" -> "CronJob" [] k = "once" -> "Job"
MCKinds == <<"Deployment", "CronJob", "Job">>
MCSpecs == {Spec("ip", "ip"), Spec("junk", "ip"), Spec("ip", "junk")}
=============================================================================
