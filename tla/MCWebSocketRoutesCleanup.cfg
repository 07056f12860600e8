\* A socket the peer has closed must eventually leave connectedWebsockets.
CONSTANTS
    h1 = h1
    h2 = h2
    g1 = g1
    g2 = g2
    NoSender = NoSender
    Handlers <- MCHandlers
    Senders <- MCSenders
    MaxSends = 1
    MaxEntries = 1
SPECIFICATION Spec

PROPERTY SocketEventuallyReleased
\* Once every handler has returned the server just waits for requests.
CHECK_DEADLOCK FALSE
