\* Two served topics of three; requests that are served, undecodable, foreign; a notification.
SPECIFICATION Spec
CONSTANTS
    rpc = rpc
    events = events
    other = other
    tok1 = tok1
    tok2 = tok2
    tok3 = tok3
    NoToken = NoToken
    Garbled = Garbled
    Topic <- MCTopic
    Subscribe <- MCServed
    Accept <- MCServed
    StreamTopics <- MCNone
    Token = {tok1, tok2, tok3}
    Message <- MCMessage
    SeenCap = 2
    BackoffMin = 1
    BackoffMax = 3
    MaxWire = 2
    MaxSends = 4
    MaxFaults = 2
INVARIANTS TypeOK StreamingIsSubscribed AnsweredAtMostOnce
PROPERTIES NeverDeaf ShutdownReturns RequestsAreHandled
