CONSTANTS
    c1 = c1  c2 = c2
    a = a  b = b
    warn = warn  t = t
    Conn <- MCConn
    Inner <- MCNoInner
    Names <- MCNames
    Topics <- MCTopics
    WarnTopic = warn
    QueueSize = 1
    MaxOps = 2
    NoConn = NoConn
    NoName = NoName
SPECIFICATION Spec
VIEW LiveView
PROPERTY ReaderProgress
CHECK_DEADLOCK FALSE
