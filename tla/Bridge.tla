------------------------------- MODULE Bridge -------------------------------
(***************************************************************************)
(* P7 Federated Bridge (patterns/p7_bridge.py): local work that must       *)
(* succeed, then one federated call on the other platform through a bridge *)
(* hop.  The remote cluster has a CallContext of its own, which shares the *)
(* injector, carries the unit "remote", and is never reset: neither        *)
(* reset_request nor the load generator reaches it.                        *)
(***************************************************************************)
EXTENDS Pattern

VARIABLE remote_ctx

P7Init == remote_ctx = build(RemoteUnit)

P7Begin(i, start, inFlight) ==
    run(i, start, inFlight, "P7.local") /\ UNCHANGED remote_ctx

LocalActions == [j \in 1..work_steps |-> "local_work"]

LocalCall ==
    LET c == Scaled(ctx, work_steps) IN
    IF OnBedrock THEN invoke_agent(armed, c) ELSE send(armed, c, LocalActions)

LocalWork ==
    /\ pc = "P7.local"
    /\ \E r \in LocalCall :
         \/ r.ok /\ Goto(Unscaled(r.ctx), "P7.remote")
         \/ Raise(r)
    /\ UNCHANGED remote_ctx

\* The remote cluster runs on the other platform.
RemoteCall ==
    IF OnBedrock THEN send(armed, remote_ctx, <<"remote_work">>)
    ELSE invoke_agent(armed, remote_ctx)

\* A remote failure degrades the request and never fails it.
ReturnFederated(c, r) == Return([c EXCEPT !.degraded = @ \/ ~r.ok], "ok")

\* The bridge hop, the federated call, and its time folded into the request.
FederatedWork ==
    /\ pc = "P7.remote"
    /\ \E rtt \in LatencySamples, r \in RemoteCall :
         /\ remote_ctx' = r.ctx
         /\ ReturnFederated(
                [add_delay(ctx, rtt, TRUE) EXCEPT
                    !.elapsed_s = @ + (r.ctx.elapsed_s - remote_ctx.elapsed_s)], r)

P7Next == LocalWork \/ FederatedWork
=============================================================================
