---------------------------- MODULE MCScrapeDesk ----------------------------
EXTENDS ScrapeDesk
CONSTANTS pinnacle, generic
OneSport == [s \in Scrapers |-> 1]
OneGet   == [s \in Scrapers |-> 1]

\* Not run: the rotation without regard to the clock each caller has read.  It is
\* violated: a caller that read the clock before a cooldown ended passes the proxy
\* over and takes the one that was handed out last (proxies.py:139-140).
RotatesOnAnyClock ==
    \A s \in Scrapers, p \in Proxies : waiting[p] # {} => Next_Proxy(s) # p
=============================================================================
