----------------------------- MODULE MCSession -----------------------------
(***************************************************************************)
(* Small instances of Session: one or two addresses, two compression       *)
(* algorithms of which one is built in, and the options that matter.       *)
(***************************************************************************)
EXTENDS Session

Algs == {"zstd", "lz4"}
ZstdOnly == {"zstd"}

Caps ==
  [tls : BOOLEAN, mechs : {{}, {"MYSQL41", "SHA256_MEMORY"}}, comp : {{}, Algs}]

Opt(uris, policies) ==
  [uri : uris, tls : BOOLEAN, openssl : {TRUE}, mech : {"unspecified", "PLAIN"},
   policy : policies, algs : {<<"lz4", "zstd">>, <<"lz4">>}, attrs : BOOLEAN]

SingleUris == {<<"tcp">>, <<"socket">>, <<"badurl">>, <<"badopt">>}
SingleAddress ==
  Opt(SingleUris, Policies)
  \cup {[o EXCEPT !.openssl = FALSE] : o \in Opt({<<"tcp">>}, {"disabled"})}
TwoAddresses == Opt({<<"tcp", "tcp">>, <<"badopt", "tcp">>}, {"disabled", "required"})
AllOptions == SingleAddress \cup TwoAddresses
Failover == {o \in TwoAddresses : o.uri = <<"tcp", "tcp">>}
=============================================================================
