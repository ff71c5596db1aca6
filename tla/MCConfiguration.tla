---------------------------- MODULE MCConfiguration ----------------------------
(* Configuration for TLC: URLs that differ in each part that matters.          *)
EXTENDS Configuration

Service == [scheme |-> "https", host |-> "remote", port |-> NoPort,
            path |-> FALSE, flaw |-> "none"]

MCUrls == {"service", "page443", "port0", "other8443", "local", "loopback2",
           "urn", "escaped", "hash"}
MCParts == [u \in MCUrls |->
  CASE u = "service"   -> Service
    [] u = "page443"   -> [Service EXCEPT !.port = 443, !.path = TRUE]
    [] u = "port0"     -> [Service EXCEPT !.port = 0]
    [] u = "other8443" -> [Service EXCEPT !.host = "other", !.port = 8443]
    [] u = "local"     -> [Service EXCEPT !.scheme = "http", !.host = "localhost"]
    [] u = "loopback2" -> [Service EXCEPT !.scheme = "http", !.host = "127.0.0.2"]
    [] u = "urn"       -> [Service EXCEPT !.scheme = "other"]
    [] u = "escaped"   -> [Service EXCEPT !.flaw = "escaped"]
    [] u = "hash"      -> [Service EXCEPT !.flaw = "hash"]]

MCOriginLists == {<<"service">>, <<"page443">>, <<"port0">>, <<"other8443", "local">>}
================================================================================
