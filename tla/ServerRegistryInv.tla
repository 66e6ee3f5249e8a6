------------------------- MODULE ServerRegistryInv -------------------------
(* The inductive invariant behind the safety of ServerRegistry. *)
EXTENDS ServerRegistry

\* Handlers with a row in hand have different ones, and run only while main waits
\* for them.
HandlerInv ==
  /\ \A r \in Requests :
       /\ pc[r] # "idle" => main \in {"serving", "shutdown"}
       /\ pc[r] \in {"instantiate", "publish", "respond"} => id[r] \in rows
       /\ pc[r] = "instantiate" => instance[id[r]] = "none"
       /\ pc[r] = "publish" => instance[id[r]] = "live"
       /\ pc[r] = "respond" => id[r] \in srvInstances
       /\ found[r] \subseteq srvInstances
       /\ found[r] # {} => pc[r] = "encode"
  /\ \A r1, r2 \in Requests :
       /\ r1 # r2
       /\ pc[r1] \in {"instantiate", "publish", "respond"}
       /\ pc[r2] \in {"instantiate", "publish", "respond"}
       => id[r1] # id[r2]

\* Every instance belongs to a row, and is published or about to be; it lives until
\* main closes it.
InstanceInv ==
  /\ srvInstances \subseteq rows
  /\ main = "loaded" => rows \subseteq srvInstances
  /\ \A s \in Servers :
       /\ parent[s] = App
       /\ instance[s] # "none" =>
            \/ s \in srvInstances
            \/ \E r \in Requests : pc[r] = "publish" /\ id[r] = s
       /\ main = "loading" => instance[s] = "none"
       /\ main \in {"loaded", "serving", "shutdown"} /\ s \in srvInstances => instance[s] = "live"
       /\ main = "exited" => instance[s] \in {"none", "closed"}

\* Main, the handlers and the map agree on which servers there are, however
\* handlers overlap with each other, with shutdown and with the process dying.
RegistryInv == TypeOK /\ HandlerInv /\ InstanceInv /\ AckedIsKept
=============================================================================
