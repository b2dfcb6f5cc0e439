----------------------------- MODULE SocksAddr -----------------------------
(***************************************************************************)
(* SOCKS addresses, m_socks/socks5.go: Addr is a sequence of bytes (type,  *)
(* host and port), and String, ParseAddr and SplitAddr convert it.  A text *)
(* "host:port" is a record: its host is the text of an IP address, which   *)
(* the bytes of the address stand for, or a name, and its port a number.   *)
(* net.IP writes an IPv4 address that is mapped into IPv6 as IPv4.         *)
(***************************************************************************)
EXTENDS Naturals, Sequences

CONSTANTS
  IPv4len,     \* net.IPv4len
  IPv6len,     \* net.IPv6len
  v4InV6Prefix \* the bytes in front of a mapped address

Byte == 0 .. 255

ASSUME AddrAssumption ==
  /\ IPv4len \in Byte /\ IPv6len \in Byte
  /\ v4InV6Prefix \in Seq(Byte) /\ Len(v4InV6Prefix) + IPv4len = IPv6len

ATYPIPv4 == 1
ATYPDomain == 3
ATYPIPv6 == 4

nil == << >>

To4(ip) ==
  LET n == Len(v4InV6Prefix)
  IN  IF Len(ip) = IPv6len /\ SubSeq(ip, 1, n) = v4InV6Prefix
      THEN SubSeq(ip, n + 1, IPv6len) ELSE ip

Text(kind, host, port) ==
  [kind |-> kind, host |-> IF kind = "ip" THEN To4(host) ELSE host, port |-> port]

(* fault: the bytes of the port the other way round *)
PortLittle(hi, lo) == lo * 256 + hi

Port(hi, lo) == hi * 256 + lo

(* where the port of an address of each type starts *)
PortAt(b) == CASE b[1] = ATYPDomain -> 3 + b[2]
               [] b[1] = ATYPIPv4 -> 2 + IPv4len
               [] b[1] = ATYPIPv6 -> 2 + IPv6len

(* Addr.String *)
String(a) ==
  LET p == PortAt(a)
      host == SubSeq(a, IF a[1] = ATYPDomain THEN 3 ELSE 2, p - 1)
  IN  Text(IF a[1] = ATYPDomain THEN "name" ELSE "ip", host, Port(a[p], a[p + 1]))

ParseAddr(t) ==
  LET host == CASE t.kind = "ip" /\ Len(t.host) = IPv4len -> <<ATYPIPv4>> \o t.host
                [] t.kind = "ip" /\ Len(t.host) # IPv4len -> <<ATYPIPv6>> \o t.host
                [] t.kind = "name" -> <<ATYPDomain, Len(t.host)>> \o t.host
  IN  IF Len(t.host) > 255 \/ t.port >= 65536 THEN nil
      ELSE host \o <<t.port \div 256, t.port % 256>>

SplitAddr(b) ==
  IF \/ b = << >>
     \/ b[1] \notin {ATYPIPv4, ATYPDomain, ATYPIPv6}
     \/ b[1] = ATYPDomain /\ Len(b) < 2
     \/ Len(b) < PortAt(b) + 1
  THEN nil ELSE SubSeq(b, 1, PortAt(b) + 1)
=============================================================================
