------------------------------- MODULE MCStats -------------------------------
(* An instance of Stats for TLC. *)
EXTENDS Stats

CONSTANTS n1, n2, p1, p2

Ask(k, s, c, n, p, b) == [kind |-> k, status |-> s, client |-> c, net |-> n, path |-> p, bulk |-> b]

Visit == Ask("visit", 304, "browser", n1, p1, FALSE)
Crawl == Ask("visit", 200, "crawler", n2, p1, FALSE)
Api == Ask("api", 200, "scripted", n2, p1, FALSE)
Load == Ask("download", 200, "browser", n1, p1, FALSE)
Ranged == Ask("download", 206, "browser", n1, p1, TRUE)      \* the same file, in an export
Gone == Ask("download", 200, "scripted", n2, p2, TRUE)       \* a file no longer served
Hand(p) == Ask("handoff", 302, "browser", n1, p, FALSE)

(* one file alone and in an export; two networks; hand-offs; what counts for nothing *)
Plans == {<<Load, Ranged>>, <<Gone, Visit>>, <<Hand(p1), Hand(p2)>>, <<Crawl, Api>>}
=============================================================================
