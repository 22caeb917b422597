-------------------------- MODULE MCSubscriptions --------------------------
(* A small instance of Subscriptions for TLC: a provider of each strategy, *)
(* the second of which keeps transports and has another of its name.  What *)
(* it lands on takes s3 with the transport that was there, which is st.    *)
EXTENDS Subscriptions

CONSTANTS n1, n2, n3, n4, s1, s2, s3, st, u, a, b

MCNames      == {n1, n2, n3, n4}
MCSignatures == {s1, s2, s3, st, u}
MCProviders  == 1..3
MCNameOf     == <<a, b, b>>
MCStrategy   == <<"equivalent", "name", "name">>
MCPreserve   == <<{"disabled"}, {"transport"}, {}>>
MCMerged     == [x \in MCSignatures \X MCSignatures |->
                   IF x[1] # x[2] /\ x[2] = s3 THEN st ELSE x[2]]
MCLists      == <<<<[name |-> n1, sig |-> s1], [name |-> n1, sig |-> s2]>>,
                  <<[name |-> n1, sig |-> s3]>>,
                  <<[name |-> n1, sig |-> s3]>>>>
=============================================================================
