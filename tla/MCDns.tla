-------------------------------- MODULE MCDns --------------------------------
(* An instance of DnsServer: three descriptors, which httpd's sessions may  *)
(* all take (13 sessions, 3 sockets of its own, CONFIG_LWIP_MAX_SOCKETS 16),*)
(* and every kind of datagram with up to two questions.                     *)
EXTENDS DnsServer
MCFds == 0..2
MCQueries ==
    [ad : BOOLEAN, opt : BOOLEAN, fits : BOOLEAN,
     questions : {<<>>, <<"A">>, <<"AAAA">>, <<"A", "A">>, <<"AAAA", "A">>}]
=============================================================================
