------------------------------- MODULE MCUploads ------------------------------
(* Instances of Uploads for TLC. *)
EXTENDS Uploads

MCJobIds == UploadIds \cup Scans

\* Uploads and scans share only the sweep of finished jobs, so a behaviour runs
\* one or the other: the state space is their sum, not their product.
OneSubsystem ==
    (\A s \in Scans : scan[s] = "idle") \/ (\A u \in UploadIds : job[u] = "none")
==============================================================================
