---------------------------- MODULE MCPushPipeline ----------------------------
(* Two pushes of two commits, two ports.  A threshold of 2 with z2 = 0.4: like 15  *)
(* with 3.841, a crossing in few samples clears the interval too, a late one not.  *)
EXTENDS PushPipeline, GateChecks, SandboxChecks

MCSuitePrefs == { <<"WIN", "WIN", "LOSS", "LOSS", "LOSS", "LOSS", "LOSS">>,
                  <<"LOSS", "TIE", "LOSS", "WIN">>, <<"WIN", "LOSS">> }
=============================================================================
