\* One capability through node crashes, failed calls and shutdown.
SPECIFICATION ProvideSpec
CONSTANTS
    capTopic = capTopic
    tok1 = tok1
    tok2 = tok2
    NoToken = NoToken
    Garbled = Garbled
    Topic = {capTopic}
    Subscribe = {capTopic}
    Accept = {capTopic}
    StreamTopics = {capTopic}
    Token = {tok1, tok2}
    Message <- MCRequest
    SeenCap = 1
    BackoffMin = 1
    BackoffMax = 2
    MaxWire = 1
    MaxSends = 2
    MaxFaults = 2
INVARIANTS ProvideTypeOK SeenBounded InFlightRemembered
PROPERTIES StopTogether StaysLocatable
