----------------------------- MODULE MountUnits ------------------------------
(***************************************************************************)
(* A .mount unit: mount(2) when it starts, umount2(2) when it stops.         *)
(***************************************************************************)
EXTENDS Naturals

CONSTANT MaxMounts  \* bound: mounts on the mount point

ASSUME MountsAssumption == MaxMounts \in Nat

VARIABLES
  mount_cfg,   \* what of Where= and Type= the unit file gives
  mount_unit,  \* "inactive", "active" or "failed"
  stop_job,    \* a Stop job of the unit is in the table
  layers,      \* filesystems mounted on the mount point
  busy,        \* a process uses the top one
  over         \* mounts over one whose unmount was refused

mountsVars == <<mount_cfg, mount_unit, stop_job, layers, busy, over>>

MountsInit ==
  /\ mount_cfg \in SUBSET {"where", "type"}
  /\ mount_unit = "inactive" /\ stop_job = FALSE
  /\ layers = 0 /\ busy = FALSE /\ over = 0

\* What start_mount needs before it calls mount(2)
Complete == {"where", "type"} \subseteq mount_cfg

\* umount2(2) without MNT_DETACH: refused when nothing is mounted there, or the
\* mount is in use
Unmountable == layers > 0 /\ ~busy

start_mount ==
  /\ mount_unit # "active" /\ ~stop_job
  /\ layers < MaxMounts
  /\ \/ Complete /\ mount_unit' = "active" /\ layers' = layers + 1
     \/ mount_unit' = "failed" /\ UNCHANGED layers
  /\ UNCHANGED <<mount_cfg, stop_job, busy, over>>

\* start_with_mode: a start that meets a Stop job cancels it and takes the unit
\* for active, mounted or not
ReplaceStop ==
  /\ mount_unit # "active" /\ stop_job
  /\ mount_unit' = "active" /\ stop_job' = FALSE
  /\ UNCHANGED <<mount_cfg, layers, busy, over>>

\* start_ignore_dependencies forgets the job and mounts again
StartIgnoring ==
  /\ mount_unit # "active" /\ stop_job
  /\ layers < MaxMounts /\ over + layers <= MaxMounts
  /\ stop_job' = FALSE
  /\ \/ /\ Complete /\ mount_unit' = "active"
        /\ layers' = layers + 1 /\ over' = over + 1
     \/ /\ mount_unit' = "failed"
        /\ over' = over + layers /\ UNCHANGED layers
  /\ UNCHANGED <<mount_cfg, busy>>

\* Mutant: the unit is inactive whether it was unmounted or not
StopRegardless ==
  /\ mount_unit = "active"
  /\ mount_unit' = "inactive"
  /\ layers' = IF Unmountable THEN layers - 1 ELSE layers
  /\ UNCHANGED <<mount_cfg, stop_job, busy, over>>

\* An unmount that is refused fails the unit and leaves its Stop job started
stop_mount ==
  /\ mount_unit = "active"
  /\ IF "where" \notin mount_cfg
     THEN mount_unit' = "inactive" /\ UNCHANGED <<stop_job, layers, over>>
     ELSE IF Unmountable
     THEN mount_unit' = "inactive" /\ layers' = layers - 1 /\ UNCHANGED stop_job
     ELSE mount_unit' = "failed" /\ stop_job' = TRUE /\ UNCHANGED layers
  /\ UNCHANGED <<mount_cfg, busy, over>>

ResetFailedMount ==
  /\ mount_unit = "failed"
  /\ mount_unit' = "inactive"
  /\ UNCHANGED <<mount_cfg, stop_job, layers, busy, over>>

FilesOpen ==
  /\ layers > 0
  /\ busy' = ~busy
  /\ UNCHANGED <<mount_cfg, mount_unit, stop_job, layers, over>>

\* umount(8) by somebody else
SomebodyUnmounts ==
  /\ Unmountable
  /\ layers' = layers - 1
  /\ UNCHANGED <<mount_cfg, mount_unit, stop_job, busy, over>>

MountsNext ==
  \/ start_mount \/ ReplaceStop \/ StartIgnoring \/ stop_mount \/ ResetFailedMount
  \/ FilesOpen \/ SomebodyUnmounts

-----------------------------------------------------------------------------
(* Properties.                                                             *)

\* A filesystem the unit mounted is there once, and only while the unit is
\* active or a Stop of it was refused and is still in the job table: the job
\* left behind is what keeps a later start from mounting over it (stop_mount,
\* start_with_mode), all but one that ignores dependencies.
MountedOnce == layers > over => layers = over + 1 /\ (mount_unit = "active" \/ stop_job)
=============================================================================
