-------------------------- MODULE MCLaunchDelivery --------------------------
(* Instances of LaunchDelivery: two tabs in two conversations that race    *)
(* for one launch, two launches that follow each other into one tab, and   *)
(* two runs of one tab.                                                    *)
EXTENDS LaunchDelivery, TLC

CONSTANTS l1, l2, t1, t2, c1, c2, x1, x2, x3, p1

TwoConversations == (t1 :> c1) @@ (t2 :> c2)
OneTab == (t1 :> c1)

OneRunEach == (x1 :> t1) @@ (x3 :> t2)
OneRunHere == (x1 :> t1)
TwoRuns == (x1 :> t1) @@ (x2 :> t1)

Often(again, reload, fail, ttl, lease, stop) ==
    [d \in Disturbances |->
        CASE d = "continue" -> again [] d = "reload" -> reload [] d = "fail" -> fail
          [] d = "ttl" -> ttl [] d = "lease" -> lease [] d = "stop" -> stop]
Undisturbed == Often(0, 0, 0, 0, 0, 0)
LossAndExpiry == Often(0, 0, 2, 1, 1, 0)
UserAndExpiry == Often(1, 1, 0, 1, 0, 1)
=============================================================================
