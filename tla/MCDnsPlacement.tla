---------------------------- MODULE MCDnsPlacement ----------------------------
\* Names, zones and configurations for checking DnsPlacement.
EXTENDS DnsPlacement, TLC

CONSTANTS c1, c2, p1, p2

\* A host and its parent domain, each the identifier of one challenge.
MCNameOf == c1 :> <<"lan", "vpn">> @@ c2 :> <<"lan">>

Everything(p, usable) == [zones |-> {<<>>}, provider |-> p, usable |-> usable]

Vpn(p) == [zones |-> {<<"lan", "vpn">>}, provider |-> p, usable |-> TRUE]

\* One provider; a zone of its own for the host, listed last; a key file that is gone;
\* a server for that zone alone; no providers.
MCConfig ==
    { <<Everything(p1, TRUE)>>,
      <<Everything(p1, TRUE), Vpn(p2)>>,
      <<Everything(p1, FALSE), Vpn(p2)>>,
      <<Vpn(p2)>>,
      <<>> }

=============================================================================
