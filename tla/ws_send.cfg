CONSTANTS
    task = task
    s1 = s1
    s2 = s2
    p1 = p1
    Threads = {task, s1, s2, p1}
    Task = task
    Senders = {s1, s2}
    Partials = {p1}
    Limits <- Instances
    Buffers = {1, 2, 3}
    buffer_size = 2
SPECIFICATION Spec
INVARIANTS RunsItsOwn BufferIsSound WireIsLegal Truthful
