-------------------------- MODULE MCGoogleSession --------------------------
EXTENDS GoogleSession

CONSTANTS k1, k2, k3

\* k1 has no region; those of k2 and k3 override different parameters.
MCRegion ==
  [k \in Keyword |->
     CASE k = k1 -> None
       [] k = k2 -> [host |-> "google.com", params |-> [gl |-> "us"]]
       [] k = k3 -> [host |-> "google.com.vn",
                     params |-> [hl |-> "vi", ceid |-> "VN:vi"]]]

MCFeeds ==
  {<<>>, <<"old", "fresh">>, <<"fresh", "unreadable", "fresh">>}
=============================================================================
