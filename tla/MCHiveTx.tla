------------------------------ MODULE MCHiveTx ------------------------------
(* Instances of HiveTx for TLC: Linux and macOS.                                     *)
EXTENDS HiveTx

\* A Commit may fail once the header is written, and the power may fail.
Outages == {"sync", "power"}
\* Commit fails only before it touches the header; the power stays on.
EarlyFaults == {"flush", "second", "process"}

Unix(pages) == [Platform |-> "unix", Mode |-> "FlushAuto", DataPages |-> pages, Faults |-> Outages]
Darwin == [Platform |-> "darwin", Mode |-> "FlushDataOnly", DataPages |-> {1, 2}, Faults |-> EarlyFaults]

\* Processes die and leave pages in the page cache that no tracker knows of.
Restarted == [Unix({2}) EXCEPT !.Mode = "FlushFull", !.Faults = {"flush", "header", "process", "power"}]
\* Without fdatasync, and with Commits that fail before the header is written.
Relaxed == [Unix({2, 3}) EXCEPT !.Mode = "FlushDataOnly", !.Faults = {"flush", "power"}]

\* On Linux edits stay away from the page next to the header.
Platforms == {Unix({2, 3}), Restarted, Relaxed, Darwin}
Adjacent == {Unix({1, 2})}
=============================================================================
