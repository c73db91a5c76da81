---------------------------- MODULE MCSpiffeCreds ----------------------------
(* Two units ask under the same name, the one that stands for a secret below a *)
(* directory.  One of them has an alias for it: to another secret, to another  *)
(* service, or to no more than the service itself.                             *)
EXTENDS SpiffeCreds

CONSTANTS c1, c2

MCClient == {c1, c2}
MCUnit == (c1 :> "web") @@ (c2 :> "exporter")
MCWants == (c1 :> <<"managed", "/", "client", "_", "secret">>) @@ (c2 :> <<"api", "_", "key">>)
MCName == [c \in MCClient |-> SecretName(MCWants[c1])]
MCAliases ==
    {<<MCUnit[c2], MCName[c2]>> :> text :
        text \in {<<Service, "/", "managed", "/", "..", "/", "/", "api", "_", "key">>,
                  <<"vault", "/", "api", "_", "key">>,
                  <<Service>>}}
MCStored == {Join(MCWants[c]) : c \in MCClient}

ASSUME MCConfiguration == WellConfigured

=============================================================================
