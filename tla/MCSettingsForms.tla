-------------------------- MODULE MCSettingsForms --------------------------
(* Instance of SettingsForms for TLC: one of two hosts and both servers    *)
(* stored, an open and a secured profile, one token.                       *)
EXTENDS SettingsForms

CONSTANTS s1, s2, h1, h2, e1, e2, t1, t2, u1, u2, f1

MCFile == [conf |-> [from |-> 0, default |-> e1, endpoints |->
             <<[id |-> e1, open |-> TRUE, tokens |-> {Anon}],
               [id |-> e2, open |-> FALSE, tokens |-> {t1}]>>],
           toks |-> {Anon, t1}]
MCRow == [supervisors |-> <<h1>>, clients |-> <<>>, hmi |-> 0,
          servers |-> <<[id |-> s1, set |-> 0], [id |-> s2, set |-> 1]>>]
MCDefaultServers == <<[id |-> s1, set |-> 0]>>
MCVisits ==
  {[admin |-> FALSE, panel |-> 4, infra |-> 0, users |-> 0], [admin |-> FALSE, panel |-> 2, infra |-> 1, users |-> 0],
   [admin |-> FALSE, panel |-> 1, infra |-> 2, users |-> 0], [admin |-> FALSE, panel |-> 0, infra |-> 3, users |-> 0],
   [admin |-> TRUE, panel |-> 0, infra |-> 0, users |-> 3]}
=============================================================================
