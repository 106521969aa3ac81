----------------------- MODULE MCSocketMultiplexer -----------------------
EXTENDS SocketMultiplexer, TLC

CONSTANTS s1, l1

MixedKinds  == s1 :> "tls" @@ l1 :> "listen"
PlainKinds  == s1 :> "plain" @@ l1 :> "listen"
SecureKinds == s1 :> "tls"
ListenKinds == l1 :> "listen"
==========================================================================
