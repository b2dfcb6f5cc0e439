--------------------------- MODULE MCTunnelSetup ---------------------------
(***************************************************************************)
(* TunnelSetup with IP addresses of one and two bytes, one of them mapped, *)
(* an empty domain and one of a letter, a port of two bytes, a greeting    *)
(* with and without methods, every command, an unknown type of address,    *)
(* and a byte or two of data behind the request.                           *)
(***************************************************************************)
EXTENDS TunnelSetup

Host(t, b, p) == [atyp |-> t, host |-> b, port |-> p]

MCHosts ==
  {Host(1, <<9>>, 8), Host(4, <<9, 9>>, 264), Host(4, <<255, 9>>, 8),
   Host(3, << >>, 65535), Host(3, <<7>>, 8), Host(2, << >>, 8)}

Request(methods, cmds, payload, hosts) ==
  {[methods |-> m, cmd |-> c, atyp |-> h.atyp, host |-> h.host, port |-> h.port,
    payload |-> payload] : m \in methods, c \in cmds, h \in hosts}

MCRequests ==
  Request({<< >>, <<0>>}, {1, 2, 3}, <<6>>, MCHosts)
    \union Request({<<0, 2>>}, {1}, <<6, 3>>, {Host(3, <<7>>, 8)})

MCLocalAddr == [kind |-> "ip", host |-> <<9, 9>>, port |-> 1080]
MCPrefix == <<255>>
=============================================================================
