----------------------------- MODULE MCRequests -----------------------------
(* The CASE service and the gateway before it, for TLC; one of the two takes *)
(* steps in a behaviour, and the other stays as it starts.                   *)
EXTENDS CaseService, McpGateway, TLC

VARIABLE half

MCRef == Case \X Snapshot
MCBody == 0..MaxTime

all == <<everything, half, gateway>>

Good == [bad |-> {}, transport |-> "streamable-http"]
Configs == {Good} \cup [bad : {{f} : f \in {"base_url", "timeout_seconds", "bytes", "cache_entries",
                                            "host", "port", "path"}},
                        transport : {"stdio", "streamable-http"}]
           \cup {[bad |-> {}, transport |-> "sse"]}

Empty == [sources |-> {}, authorities |-> {}, spans |-> {}, relationships |-> {}, traces |-> {},
          questions |-> {}, aspects |-> {}, tasks |-> {}, selections |-> {}, coverage |-> {},
          omissions |-> {}, unresolved |-> {}]

\* Two authorities with a span each, two aspects, one of them with two tasks; what
\* was selected, omitted and left unresolved varies.
Bundle(selected, omitted, open) ==
    LET sel == {s \in {[ref |-> "s1", authority |-> "a1", evidence |-> {"e1"}, aspect |-> "x1", task |-> "t1"],
                       [ref |-> "s2", authority |-> "a2", evidence |-> {"e2"}, aspect |-> "x1", task |-> "t2"],
                       [ref |-> "s3", authority |-> "a2", evidence |-> {"e2"}, aspect |-> "x2", task |-> "t3"]} :
                   s.ref \in selected}
        of(x) == {s.ref : s \in {y \in sel : y.aspect = x}}
    IN [sources |-> {"d1"},
        authorities |-> {[ref |-> "a1", evidence |-> {"e1"}, provisions |-> {"n1"}],
                         [ref |-> "a2", evidence |-> {"e2"}, provisions |-> {}]},
        spans |-> {[ref |-> "e1", authority |-> "a1", source |-> "d1", provision |-> "n1"],
                   [ref |-> "e2", authority |-> "a2", source |-> "d1", provision |-> "n2"]},
        relationships |-> {[from |-> "a1", to |-> "a2"]},
        traces |-> {[ref |-> "k1", evidence |-> {"e2"}]},
        questions |-> {"q1", "q2"},
        aspects |-> {[ref |-> "x1", question |-> "q1"], [ref |-> "x2", question |-> "q2"]},
        tasks |-> {[ref |-> "t1", aspect |-> "x1"], [ref |-> "t2", aspect |-> "x1"],
                   [ref |-> "t3", aspect |-> "x2"]},
        selections |-> sel,
        coverage |-> {[ref |-> "c1", aspect |-> "x1", tasks |-> {"t1", "t2"}, selections |-> of("x1"),
                       omissions |-> omitted, unresolved |-> open],
                      [ref |-> "c2", aspect |-> "x2", tasks |-> {"t3"}, selections |-> of("x2"),
                       omissions |-> {}, unresolved |-> {}]},
        omissions |-> {[ref |-> o, aspect |-> "x1"] : o \in omitted},
        unresolved |-> {[ref |-> u, related |-> {"x1"}] : u \in open}]

Bundles == UNION {{Bundle(s, {}, {}), Bundle(s, {"o1"}, {"u1"})} : s \in SUBSET {"s1", "s2", "s3"}}

\* Which environments are accepted; three calls, two at a time, with a handle for
\* each version; a service that changes its mind; one call and one view of every bundle.
Environments ==
    \/ \E c \in Configs : GatewayInit(c, [n \in {0} |-> Empty], 0)
    \/ GatewayInit(Good, [n \in {0} |-> Empty], 3)
    \/ \E b \in Bundles : GatewayInit(Good, [n \in {0} |-> b], 2)
    \/ GatewayInit(Good, [n \in 0..1 |-> Empty], 2)

RequestsInit ==
    /\ ServiceInit
    /\ \/ half = "service" /\ GatewayInit(Good, [n \in {0} |-> Empty], 0)
       \/ half = "gateway" /\ Environments

RequestsNext ==
    /\ UNCHANGED half
    /\ \/ half = "service" /\ ServiceNext /\ UNCHANGED gateway
       \/ half = "gateway" /\ GatewayNext /\ UNCHANGED everything

\* A thread of the service that can go on does.
FairRequests ==
    /\ RequestsInit /\ [][RequestsNext]_all
    /\ \A p \in Publisher : WF_all(half = "service" /\ Handling(p) /\ UNCHANGED <<half, gateway>>)
=============================================================================
