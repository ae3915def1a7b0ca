------------------------------ MODULE MCAdapter ------------------------------
EXTENDS Adapter

a  == <<"com", "a">>
xa == <<"com", "a", "x">>
b  == <<"com", "b">>
ip == <<"an address">>

MCHosts == {a, xa, b, ip}
MCLiteralOf == [h \in MCHosts |-> IF h = ip THEN [class |-> "private", wrapped |-> TRUE]
                                           ELSE NoAddress]

Only(h)  == [name |-> h, wild |-> FALSE]
Under(h) == [name |-> h, wild |-> TRUE]
At(s, h) == [scheme |-> s, host |-> h]

Base == [kind |-> "http", url |-> At("https", a),
         health_url |-> At("https", a), hosts |-> {Only(a), Only(b)},
         schemes |-> {}, redirects |-> {}, types |-> {}, secret |-> "stored",
         service |-> TRUE, operation |-> TRUE]

\* One aspect at a time beside the base; destinations in all combinations.
MCConfigs ==
  {[Base EXCEPT !.kind = k] : k \in {"webhook", "internal", "unknown"}}
  \cup {[Base EXCEPT !.url = u, !.health_url = u, !.hosts = h, !.schemes = s] :
          u \in {At("https", a), At("http", xa), At("https", ip)},
          h \in {{Only(a), Only(b)}, {Under(a), Only(ip)}}, s \in {{}, {"http"}}}
  \cup {[Base EXCEPT !.redirects = n, !.types = t] :
          n \in {{}, {0}, {1}, {9}}, t \in {{"html"}, {"html", "json"}}}
  \cup {[Base EXCEPT !.kind = k, !.secret = x] :
          k \in {"http", "webhook"}, x \in {"none", "missing", "foreign", "tenant"}}
  \cup {[Base EXCEPT !.health_url = At("http", xa)]}
  \cup {[Base EXCEPT !.kind = "webhook", !.hosts = {Only(b)}]}
  \cup {[Base EXCEPT !.kind = "internal", !.service = v, !.operation = w] :
          v \in BOOLEAN, w \in BOOLEAN}

MCOperators ==
  [hosts : {{}, {Under(<<"com">>)}, {Only(b), Under(a)}},
   schemes : {{"https"}, {"http", "https"}}, private : BOOLEAN,
   redirects : {0, 2}, types : {{"json"}}]
=============================================================================
