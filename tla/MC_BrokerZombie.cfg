CONSTANTS
    c1 = c1  c2 = c2
    a = a  b = b
    warn = warn  t = t
    Conn <- MCConn
    Inner <- MCNoInner
    Names <- MCNames
    Topics <- MCTopics
    WarnTopic = warn
    QueueSize = 1
    MaxOps = 1
    NoConn = NoConn
    NoName = NoName
SPECIFICATION Spec
PROPERTY WriterFailureUnregisters
CHECK_DEADLOCK FALSE
