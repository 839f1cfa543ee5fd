---------------------------- MODULE MCScanPolling ----------------------------
(* ScanPolling for TLC: two scans, two changes or retries, two failures.    *)
EXTENDS ScanPolling
=============================================================================
