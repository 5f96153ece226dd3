-------------------------- MODULE MCChromeProfile --------------------------
EXTENDS ChromeProfile, TLC

CONSTANTS g1, t1, g2, w1, w2, p, q

\* w1 runs in ALL mode and drives google_news and tinhte_forum; w2 was started
\* with the same WORKER_ID and runs google_news.
MCProcess == [a \in Adapter |-> IF a = g2 THEN w2 ELSE w1]
MCDir == [a \in Adapter |-> IF a = t1 THEN q ELSE p]
Sym == Permutations(Pid)
MCWithin == {<<x, x>> : x \in Profile}

ASSUME InstanceIsApart == PathsApart
=============================================================================
